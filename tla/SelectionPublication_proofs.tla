----------------------- MODULE SelectionPublication_proofs -----------------------
(***************************************************************************)
(* Proofs, for every set of runs and of lineages, of the safety properties  *)
(* that SelectionPublication_race checks, and of the refinement of the      *)
(* write-once register.                                                     *)
(***************************************************************************)
EXTENDS SelectionPublication, TLAPS

USE PublisherAssumption

Labels == {"idle", "find", "stage", "write", "readback", "precommit",
           "commit", "verify", "snapshot", "upsert", "confirm", "report"}

-----------------------------------------------------------------------------
(* Type correctness. *)

LEMMA InitType == Init => TypeOK
  BY DEF Init, TypeOK, Outcome, Started

\* What the two ends of a step do to the memory of the process.
LEMMA GotoType ==
    ASSUME TypeOK, NEW p \in Publishers, NEW l \in Labels, Goto(p, l)
    PROVE  pc' \in [Publishers -> Labels] /\ outcome' \in [Publishers -> Outcome]
  BY DEF TypeOK, Goto, Labels

LEMMA ConcludeType ==
    ASSUME TypeOK, NEW p \in Publishers,
           NEW s \in {"COMPLETED", "DATABASE_PENDING", "BLOCKED", "REFUSED", "FAILED"},
           NEW c \in {"COMMITTED", "UNCOMMITTED"}, Conclude(p, s, c)
    PROVE  pc' \in [Publishers -> Labels] /\ outcome' \in [Publishers -> Outcome]
  BY DEF TypeOK, Conclude, Labels, Outcome

LEMMA FaultType == ASSUME TypeOK, Fault PROVE faults' \in 0..MaxFaults
  BY DEF TypeOK, Fault

LEMMA PutType ==
    ASSUME TypeOK, NEW p \in Publishers, PutGeneration(p) \/ PutSnapshot(p)
    PROVE  /\ generation' \in [Inputs -> {"absent", "intact", "corrupt"}]
           /\ commit' \in Inputs \cup {None, InvalidCommit}
           /\ snapshot' \in Inputs \cup {None}
           /\ spoiled' \subseteq Inputs \cup {None}
<1>1. CASE PutGeneration(p)
  BY <1>1 DEF TypeOK, PutGeneration
<1>2. CASE PutSnapshot(p)
  BY <1>2 DEF TypeOK, PutSnapshot
<1> QED
  BY <1>1, <1>2

LEMMA ProceedType ==
    ASSUME TypeOK, NEW p \in Publishers, Proceed(p)
    PROVE  TypeOK'
<1> USE DEF published, Local
<1>1. CASE FindNothing(p)
  <2>1. pc' \in [Publishers -> Labels] /\ outcome' \in [Publishers -> Outcome]
    BY <1>1, GotoType DEF FindNothing, Labels
  <2> QED
    BY <1>1, <2>1 DEF TypeOK, FindNothing, Labels
<1>2. CASE FindCompatible(p)
  <2>1. pc' \in [Publishers -> Labels] /\ outcome' \in [Publishers -> Outcome]
    BY <1>2, GotoType DEF FindCompatible, Labels
  <2> QED
    BY <1>2, <2>1 DEF TypeOK, FindCompatible, Labels
<1>3. CASE FindCollision(p)
  <2>1. pc' \in [Publishers -> Labels] /\ outcome' \in [Publishers -> Outcome]
    BY <1>3, ConcludeType DEF FindCollision
  <2> QED
    BY <1>3, <2>1 DEF TypeOK, FindCollision, Labels
<1>4. CASE CheckGeneration(p)
  <2>1. pc' \in [Publishers -> Labels] /\ outcome' \in [Publishers -> Outcome]
    BY <1>4, GotoType, ConcludeType DEF CheckGeneration, Labels
  <2> QED
    BY <1>4, <2>1 DEF TypeOK, CheckGeneration, Labels
<1>5. CASE WriteGeneration(p)
  <2>1. pc' \in [Publishers -> Labels] /\ outcome' \in [Publishers -> Outcome]
    BY <1>5, GotoType DEF WriteGeneration, Labels
  <2> QED
    BY <1>5, <2>1, PutType DEF TypeOK, WriteGeneration, Labels
<1>6. CASE ReadBack(p)
  <2>1. pc' \in [Publishers -> Labels] /\ outcome' \in [Publishers -> Outcome]
    BY <1>6, GotoType, ConcludeType DEF ReadBack, Labels
  <2> QED
    BY <1>6, <2>1 DEF TypeOK, ReadBack, Labels
<1>7. CASE FindConcurrent(p)
  <2>1. pc' \in [Publishers -> Labels] /\ outcome' \in [Publishers -> Outcome]
    BY <1>7, GotoType, ConcludeType DEF FindConcurrent, Labels
  <2> QED
    BY <1>7, <2>1 DEF TypeOK, FindConcurrent, Labels
<1>8. CASE CreateCommit(p)
  <2>1. pc' \in [Publishers -> Labels] /\ outcome' \in [Publishers -> Outcome]
    BY <1>8, GotoType DEF CreateCommit, Labels
  <2> QED
    BY <1>8, <2>1 DEF TypeOK, CreateCommit, Labels
<1>9. CASE LoseCommit(p)
  <2>1. pc' \in [Publishers -> Labels] /\ outcome' \in [Publishers -> Outcome]
    BY <1>9, GotoType, ConcludeType DEF LoseCommit, Labels
  <2> QED
    BY <1>9, <2>1 DEF TypeOK, LoseCommit, Labels
<1>10. CASE VerifyPublished(p)
  <2>1. pc' \in [Publishers -> Labels] /\ outcome' \in [Publishers -> Outcome]
    BY <1>10, GotoType, ConcludeType DEF VerifyPublished, Labels
  <2> QED
    BY <1>10, <2>1 DEF TypeOK, VerifyPublished, Labels
<1>11. CASE ReadSnapshot(p)
  <2>1. pc' \in [Publishers -> Labels] /\ outcome' \in [Publishers -> Outcome]
    BY <1>11, GotoType, ConcludeType DEF ReadSnapshot, Labels
  <2> QED
    BY <1>11, <2>1 DEF TypeOK, ReadSnapshot, Labels
<1>12. CASE UpsertSnapshot(p)
  <2>1. pc' \in [Publishers -> Labels] /\ outcome' \in [Publishers -> Outcome]
    BY <1>12, GotoType DEF UpsertSnapshot, Labels
  <2> QED
    BY <1>12, <2>1, PutType DEF TypeOK, UpsertSnapshot, Labels
<1>13. CASE ConfirmSnapshot(p)
  <2>1. pc' \in [Publishers -> Labels] /\ outcome' \in [Publishers -> Outcome]
    BY <1>13, ConcludeType DEF ConfirmSnapshot
  <2> QED
    BY <1>13, <2>1 DEF TypeOK, ConfirmSnapshot, Labels
<1>14. CASE WriteReport(p)
  BY <1>14 DEF TypeOK, WriteReport
<1> QED
  BY <1>1, <1>2, <1>3, <1>4, <1>5, <1>6, <1>7, <1>8, <1>9, <1>10, <1>11, <1>12, <1>13, <1>14
  DEF Proceed

LEMMA FailsType ==
    ASSUME TypeOK, NEW p \in Publishers, Fails(p)
    PROVE  TypeOK'
<1> USE DEF published, Local
<1>1. CASE InputsRefused(p)
  <2>1. pc' \in [Publishers -> Labels] /\ outcome' \in [Publishers -> Outcome]
    BY <1>1, ConcludeType DEF InputsRefused
  <2> QED
    BY <1>1, <2>1, FaultType DEF TypeOK, InputsRefused, Labels
<1>2. CASE StoreRaises(p)
  <2>1. pc' \in [Publishers -> Labels] /\ outcome' \in [Publishers -> Outcome]
    BY <1>2, ConcludeType DEF StoreRaises
  <2> QED
    BY <1>2, <2>1, FaultType, PutType DEF TypeOK, StoreRaises, Labels
<1>3. CASE CommitConflict(p)
  <2>1. pc' \in [Publishers -> Labels] /\ outcome' \in [Publishers -> Outcome]
    BY <1>3, ConcludeType DEF CommitConflict
  <2> QED
    BY <1>3, <2>1 DEF TypeOK, CommitConflict, Labels
<1>4. CASE SnapshotRaises(p)
  <2>1. pc' \in [Publishers -> Labels] /\ outcome' \in [Publishers -> Outcome]
    BY <1>4, ConcludeType DEF SnapshotRaises
  <2> QED
    BY <1>4, <2>1, FaultType, PutType DEF TypeOK, SnapshotRaises, Labels
<1>5. CASE Crash(p)
  BY <1>5, FaultType DEF TypeOK, Crash
<1> QED
  BY <1>1, <1>2, <1>3, <1>4, <1>5 DEF Fails

LEMMA NextType == TypeOK /\ [Next]_vars => TypeOK'
<1> SUFFICES ASSUME TypeOK, [Next]_vars PROVE TypeOK'
  OBVIOUS
<1>1. ASSUME NEW p \in Publishers, Start(p) PROVE TypeOK'
  BY <1>1 DEF TypeOK, Start, Started, Outcome, published
<1>2. CASE Tamper
  BY <1>2 DEF TypeOK, Tamper
<1>3. CASE UNCHANGED vars
  BY <1>3 DEF TypeOK, vars
<1> QED
  BY <1>1, <1>2, <1>3, ProceedType, FailsType DEF Next

\* Whatever is raised, lost or raced for, the stores and the reports stay well-formed.
THEOREM TypeCorrect == Spec => []TypeOK
<1>1. Init => TypeOK
  BY InitType
<1>2. TypeOK /\ [Next]_vars => TypeOK'
  BY NextType
<1> QED
  BY <1>1, <1>2, PTL DEF Spec

-----------------------------------------------------------------------------
(* The inductive invariant.  What a run knows of the stores is still true   *)
(* when it acts on it: a generation that was read back stays readable, and  *)
(* a commit that was compared stays what it was.                            *)

\* What an outcome claims, whether it is reported yet or not.
Truthful(p, o) ==
    /\ o.status \in {"COMPLETED", "DATABASE_PENDING"} => commit = InputOf[p]
    /\ o.status = "COMPLETED" /\ None \notin spoiled => snapshot = InputOf[p]
    /\ o.status = "BLOCKED" => commit \notin {None, InputOf[p]} \/ tampers > 0

\* What a run has established on its way to the commit and to the summary.
Established(p) ==
    /\ pc[p] \in {"precommit", "commit"} =>
          generation[InputOf[p]] = "intact" \/ InputOf[p] \in spoiled
    /\ pc[p] \in {"snapshot", "upsert", "confirm"} => commit = InputOf[p]

StoreInv ==
    /\ CommittedIsReadable
    /\ SnapshotNamesPublication
    /\ spoiled # {} => tampers > 0

RunInv(p) == Established(p) /\ Truthful(p, outcome[p]) /\ Truthful(p, report[p])

IInv == TypeOK /\ StoreInv /\ \A p \in Publishers : RunInv(p)

LEMMA InitIInv == Init => IInv
  BY InitType DEF Init, IInv, StoreInv, RunInv, Established, Truthful, Started,
                  CommittedIsReadable, SnapshotNamesPublication

(* Every step leaves the stores alone or does one of four things to them.   *)
Staged(p) == PutGeneration(p) /\ tampers' = tampers
Committed(p) ==
    /\ pc[p] = "commit" /\ commit = None /\ commit' = InputOf[p]
    /\ UNCHANGED <<generation, snapshot, spoiled, tampers>>
Summarised(p) == pc[p] = "upsert" /\ PutSnapshot(p) /\ tampers' = tampers
Untouched == UNCHANGED <<published, spoiled>> /\ tampers' \in {tampers, tampers + 1}

StoreStep == \/ Untouched \/ Tamper
             \/ \E p \in Publishers : Staged(p) \/ Committed(p) \/ Summarised(p)

LEMMA ProceedStores ==
    ASSUME NEW p \in Publishers, Proceed(p)
    PROVE  StoreStep
<1> USE DEF published, Local
<1>1. CASE WriteGeneration(p)
  BY <1>1 DEF WriteGeneration, StoreStep, Staged
<1>2. CASE CreateCommit(p)
  BY <1>2 DEF CreateCommit, StoreStep, Committed
<1>3. CASE UpsertSnapshot(p)
  BY <1>3 DEF UpsertSnapshot, StoreStep, Summarised
<1>4. CASE FindNothing(p) \/ FindCompatible(p) \/ FindCollision(p) \/ CheckGeneration(p)
  BY <1>4 DEF StoreStep, Untouched, FindNothing, FindCompatible, FindCollision, CheckGeneration
<1>5. CASE ReadBack(p) \/ FindConcurrent(p) \/ LoseCommit(p) \/ VerifyPublished(p)
  BY <1>5 DEF StoreStep, Untouched, ReadBack, FindConcurrent, LoseCommit, VerifyPublished
<1>6. CASE ReadSnapshot(p) \/ ConfirmSnapshot(p) \/ WriteReport(p)
  BY <1>6 DEF StoreStep, Untouched, ReadSnapshot, ConfirmSnapshot, WriteReport
<1> QED
  BY <1>1, <1>2, <1>3, <1>4, <1>5, <1>6 DEF Proceed

LEMMA FailsStores ==
    ASSUME NEW p \in Publishers, Fails(p)
    PROVE  StoreStep
<1> USE DEF published, Local
<1>1. CASE StoreRaises(p)
  BY <1>1 DEF StoreRaises, StoreStep, Untouched, Staged, Committed
<1>2. CASE SnapshotRaises(p)
  BY <1>2 DEF SnapshotRaises, StoreStep, Untouched, Summarised
<1>3. CASE InputsRefused(p) \/ CommitConflict(p) \/ Crash(p)
  BY <1>3 DEF StoreStep, Untouched, InputsRefused, CommitConflict, Crash
<1> QED
  BY <1>1, <1>2, <1>3 DEF Fails

LEMMA NextStores == [Next]_vars => StoreStep
<1>1. ASSUME NEW p \in Publishers, Start(p) PROVE StoreStep
  BY <1>1 DEF Start, StoreStep, Untouched, published
<1>2. CASE UNCHANGED vars
  BY <1>2 DEF vars, StoreStep, Untouched, published
<1>3. CASE Tamper
  BY <1>3 DEF StoreStep
<1> QED
  BY <1>1, <1>2, <1>3, ProceedStores, FailsStores DEF Next

LEMMA StoresHold ==
    ASSUME IInv, StoreStep
    PROVE  StoreInv'
<1> USE DEF IInv, StoreInv, CommittedIsReadable, SnapshotNamesPublication
<1>1. CASE Untouched
  BY <1>1 DEF Untouched, published, TypeOK
<1>2. CASE Tamper
  BY <1>2 DEF Tamper, TypeOK
<1>3. ASSUME NEW p \in Publishers, Staged(p) PROVE StoreInv'
  BY <1>3 DEF Staged, PutGeneration, TypeOK
<1>4. ASSUME NEW p \in Publishers, Committed(p) PROVE StoreInv'
  BY <1>4 DEF Committed, RunInv, Established
<1>5. ASSUME NEW p \in Publishers, Summarised(p) PROVE StoreInv'
  BY <1>5 DEF Summarised, PutSnapshot, RunInv, Established
<1> QED
  BY <1>1, <1>2, <1>3, <1>4, <1>5 DEF StoreStep

\* A commit is never replaced.
LEMMA CommitStays == ASSUME StoreStep PROVE commit = None \/ commit' = commit
  BY DEF StoreStep, Untouched, published, Tamper, Staged, PutGeneration, Committed,
         Summarised, PutSnapshot

\* A claim that was true stays true, and so does what another run established.
LEMMA ClaimsHold ==
    ASSUME IInv, StoreStep, NEW q \in Publishers, NEW o, Truthful(q, o)
    PROVE  /\ o.status \in {"COMPLETED", "DATABASE_PENDING"} => commit' = InputOf[q]
           /\ o.status = "COMPLETED" /\ None \notin spoiled' => snapshot' = InputOf[q]
           /\ o.status = "BLOCKED" => commit' \notin {None, InputOf[q]} \/ tampers' > 0
<1> USE DEF Truthful
<1>0. tampers \in Nat /\ InputOf[q] # None
  BY DEF IInv, TypeOK
<1>1. o.status \in {"COMPLETED", "DATABASE_PENDING"} => commit' = InputOf[q]
  BY <1>0, CommitStays
<1>2. tampers' \in {tampers, tampers + 1}
  BY DEF StoreStep, Untouched, Tamper, Staged, Committed, Summarised
<1>3. o.status = "BLOCKED" => commit' \notin {None, InputOf[q]} \/ tampers' > 0
  BY <1>0, <1>2, CommitStays
<1>4. ASSUME o.status = "COMPLETED", None \notin spoiled' PROVE snapshot' = InputOf[q]
  <2>1. CASE Untouched
    BY <1>4, <2>1 DEF Untouched, published
  <2>2. CASE Tamper
    BY <1>4, <2>2 DEF Tamper
  <2>3. ASSUME NEW p \in Publishers, Staged(p) PROVE snapshot' = InputOf[q]
    <3>1. None # InputOf[p]
      OBVIOUS
    <3> QED
      BY <1>4, <2>3, <3>1 DEF Staged, PutGeneration
  <2>4. ASSUME NEW p \in Publishers, Committed(p) PROVE snapshot' = InputOf[q]
    BY <1>4, <2>4 DEF Committed
  <2>5. ASSUME NEW p \in Publishers, Summarised(p) PROVE snapshot' = InputOf[q]
    BY <1>4, <2>5 DEF Summarised, PutSnapshot, IInv, RunInv, Established
  <2> QED
    BY <2>1, <2>2, <2>3, <2>4, <2>5 DEF StoreStep
<1> QED
  BY <1>1, <1>3, <1>4

LEMMA PhaseHolds ==
    ASSUME IInv, StoreStep, NEW q \in Publishers, pc'[q] = pc[q]
    PROVE  Established(q)'
<1> USE DEF Established
<1>0. Established(q) /\ InputOf[q] # None
  BY DEF IInv, RunInv
<1>1. pc[q] \in {"snapshot", "upsert", "confirm"} => commit' = InputOf[q]
  BY <1>0, CommitStays
<1>2. ASSUME pc[q] \in {"precommit", "commit"}
      PROVE  generation'[InputOf[q]] = "intact" \/ InputOf[q] \in spoiled'
  <2>1. CASE Untouched
    BY <1>0, <1>2, <2>1 DEF Untouched, published
  <2>2. CASE Tamper
    BY <1>0, <1>2, <2>2 DEF Tamper, IInv, TypeOK
  <2>3. CASE \E p \in Publishers : Staged(p)
    BY <1>0, <1>2, <2>3 DEF Staged, PutGeneration, IInv, TypeOK
  <2>4. CASE \E p \in Publishers : Committed(p) \/ Summarised(p)
    BY <1>0, <1>2, <2>4 DEF Committed, Summarised, PutSnapshot
  <2> QED
    BY <2>1, <2>2, <2>3, <2>4 DEF StoreStep
<1> QED
  BY <1>1, <1>2

\* A run that goes on has established what its next call relies on.
LEMMA GotoRun ==
    ASSUME IInv, StoreStep, NEW p \in Publishers, NEW l \in Labels, Goto(p, l),
           UNCHANGED report,
           l \in {"precommit", "commit"} =>
               generation'[InputOf[p]] = "intact" \/ InputOf[p] \in spoiled',
           l \in {"snapshot", "upsert", "confirm"} => commit' = InputOf[p]
    PROVE  RunInv(p)'
<1>1. pc'[p] = l /\ UNCHANGED outcome
  BY DEF Goto, IInv, TypeOK
<1>2. Established(p)'
  BY <1>1 DEF Established
<1>3. Truthful(p, outcome[p])' /\ Truthful(p, report[p])'
  BY <1>1, ClaimsHold DEF IInv, RunInv, Truthful
<1> QED
  BY <1>2, <1>3 DEF RunInv

\* A run that is over claims nothing but what it saw.
LEMMA ConcludeRun ==
    ASSUME IInv, StoreStep, NEW p \in Publishers, NEW s, NEW c, Conclude(p, s, c),
           UNCHANGED report,
           s \in {"COMPLETED", "DATABASE_PENDING"} => commit' = InputOf[p],
           s = "COMPLETED" => snapshot' = InputOf[p],
           s = "BLOCKED" => commit' \notin {None, InputOf[p]} \/ tampers' > 0
    PROVE  RunInv(p)'
<1>1. pc'[p] = "report" /\ outcome'[p] = [status |-> s, commit |-> c]
  BY DEF Conclude, IInv, TypeOK
<1>2. Established(p)'
  BY <1>1 DEF Established
<1>3. Truthful(p, outcome[p])'
  BY <1>1 DEF Truthful
<1>4. Truthful(p, report[p])'
  BY ClaimsHold DEF IInv, RunInv, Truthful
<1> QED
  BY <1>2, <1>3, <1>4 DEF RunInv

LEMMA ProceedRun ==
    ASSUME IInv, NEW p \in Publishers, Proceed(p)
    PROVE  RunInv(p)'
<1> USE DEF published, Local
<1>a. StoreStep /\ InputOf[p] # None /\ tampers \in Nat
  BY ProceedStores DEF IInv, TypeOK
<1>b. Established(p)
  BY DEF IInv, RunInv
\* A commit of this lineage that does not match has lost its generation.
<1>c. commit # None /\ ~Compatible(p) => commit \notin {None, InputOf[p]} \/ tampers > 0
  BY DEF Compatible, IInv, StoreInv, CommittedIsReadable
<1>1. CASE FindNothing(p)
  BY <1>a, <1>1, GotoRun DEF FindNothing, Labels
<1>2. CASE FindCompatible(p)
  BY <1>a, <1>2, GotoRun DEF FindCompatible, Labels, Compatible
<1>3. CASE FindCollision(p)
  BY <1>a, <1>c, <1>3, ConcludeRun DEF FindCollision
<1>4. CASE CheckGeneration(p)
  BY <1>a, <1>4, GotoRun, ConcludeRun DEF CheckGeneration, Labels
<1>5. CASE WriteGeneration(p)
  BY <1>a, <1>5, GotoRun DEF WriteGeneration, Labels
<1>6. CASE ReadBack(p)
  BY <1>a, <1>6, GotoRun, ConcludeRun DEF ReadBack, Labels
<1>7. CASE FindConcurrent(p)
  BY <1>a, <1>b, <1>c, <1>7, GotoRun, ConcludeRun
  DEF FindConcurrent, Labels, Established, Compatible
<1>8. CASE CreateCommit(p)
  BY <1>a, <1>8, GotoRun DEF CreateCommit, Labels
<1>9. CASE LoseCommit(p)
  BY <1>a, <1>c, <1>9, GotoRun, ConcludeRun DEF LoseCommit, Labels
<1>10. CASE VerifyPublished(p)
  BY <1>a, <1>10, GotoRun, ConcludeRun DEF VerifyPublished, Labels, Compatible
<1>11. CASE ReadSnapshot(p)
  BY <1>a, <1>b, <1>11, GotoRun, ConcludeRun DEF ReadSnapshot, Labels, Established
<1>12. CASE UpsertSnapshot(p)
  BY <1>a, <1>b, <1>12, GotoRun DEF UpsertSnapshot, Labels, Established, PutSnapshot
<1>13. CASE ConfirmSnapshot(p)
  BY <1>a, <1>b, <1>13, ConcludeRun DEF ConfirmSnapshot, Established
<1>14. CASE WriteReport(p)
  <2>1. pc'[p] = "idle" /\ outcome' = outcome /\ report'[p] = outcome[p]
    BY <1>14 DEF WriteReport, IInv, TypeOK
  <2>2. Truthful(p, outcome[p])' /\ Truthful(p, report[p])'
    BY <1>a, <2>1, ClaimsHold DEF IInv, RunInv, Truthful
  <2> QED
    BY <2>1, <2>2 DEF RunInv, Established
<1> QED
  BY <1>1, <1>2, <1>3, <1>4, <1>5, <1>6, <1>7, <1>8, <1>9, <1>10, <1>11, <1>12, <1>13, <1>14
  DEF Proceed

LEMMA FailsRun ==
    ASSUME IInv, NEW p \in Publishers, Fails(p)
    PROVE  RunInv(p)'
<1> USE DEF published, Local
<1>a. StoreStep /\ tampers \in Nat
  BY FailsStores DEF IInv, TypeOK
<1>1. CASE InputsRefused(p)
  BY <1>a, <1>1, ConcludeRun DEF InputsRefused
<1>2. CASE StoreRaises(p)
  BY <1>a, <1>2, ConcludeRun DEF StoreRaises
<1>3. CASE CommitConflict(p)
  BY <1>a, <1>3, ConcludeRun DEF CommitConflict
<1>4. CASE SnapshotRaises(p)
  <2>1. commit' = InputOf[p]
    BY <1>4 DEF SnapshotRaises, PutSnapshot, IInv, RunInv, Established
  <2> QED
    BY <1>a, <1>4, <2>1, ConcludeRun DEF SnapshotRaises
<1>5. CASE Crash(p)
  <2>1. pc'[p] = "idle" /\ outcome' = outcome /\ report' = report
    BY <1>5 DEF Crash, IInv, TypeOK
  <2>2. Truthful(p, outcome[p])' /\ Truthful(p, report[p])'
    BY <1>a, <2>1, ClaimsHold DEF IInv, RunInv, Truthful
  <2> QED
    BY <2>1, <2>2 DEF RunInv, Established
<1> QED
  BY <1>1, <1>2, <1>3, <1>4, <1>5 DEF Fails

LEMMA StartRun ==
    ASSUME IInv, NEW p \in Publishers, Start(p)
    PROVE  RunInv(p)'
  BY DEF Start, Started, IInv, TypeOK, RunInv, Established, Truthful

\* Nothing a run does touches the memory or the report of another.
LEMMA OthersRun ==
    ASSUME IInv, StoreStep, NEW q \in Publishers,
           pc'[q] = pc[q], outcome'[q] = outcome[q], report'[q] = report[q]
    PROVE  RunInv(q)'
<1>1. Established(q)'
  BY PhaseHolds
<1>2. Truthful(q, outcome[q])' /\ Truthful(q, report[q])'
  BY ClaimsHold DEF IInv, RunInv, Truthful
<1> QED
  BY <1>1, <1>2 DEF RunInv

LEMMA Private ==
    ASSUME TypeOK, NEW p \in Publishers, Start(p) \/ Proceed(p) \/ Fails(p),
           NEW q \in Publishers \ {p}
    PROVE  pc'[q] = pc[q] /\ outcome'[q] = outcome[q] /\ report'[q] = report[q]
<1> USE DEF TypeOK, Goto, Conclude, Local
<1>1. CASE Start(p)
  BY <1>1 DEF Start
<1>2. CASE FindNothing(p) \/ FindCompatible(p) \/ FindCollision(p) \/ CheckGeneration(p)
  BY <1>2 DEF FindNothing, FindCompatible, FindCollision, CheckGeneration
<1>3. CASE WriteGeneration(p) \/ ReadBack(p) \/ FindConcurrent(p) \/ CreateCommit(p)
  BY <1>3 DEF WriteGeneration, ReadBack, FindConcurrent, CreateCommit
<1>4. CASE LoseCommit(p) \/ VerifyPublished(p) \/ ReadSnapshot(p) \/ UpsertSnapshot(p)
  BY <1>4 DEF LoseCommit, VerifyPublished, ReadSnapshot, UpsertSnapshot
<1>5. CASE ConfirmSnapshot(p) \/ WriteReport(p)
  BY <1>5 DEF ConfirmSnapshot, WriteReport
<1>6. CASE InputsRefused(p) \/ StoreRaises(p) \/ CommitConflict(p)
  BY <1>6 DEF InputsRefused, StoreRaises, CommitConflict
<1>7. CASE SnapshotRaises(p) \/ Crash(p)
  BY <1>7 DEF SnapshotRaises, Crash
<1> QED
  BY <1>1, <1>2, <1>3, <1>4, <1>5, <1>6, <1>7 DEF Proceed, Fails

LEMMA NextIInv == IInv /\ [Next]_vars => IInv'
<1> SUFFICES ASSUME IInv, [Next]_vars PROVE IInv'
  OBVIOUS
<1>1. TypeOK' /\ StoreStep
  BY NextType, NextStores DEF IInv
<1>2. StoreInv'
  BY <1>1, StoresHold
<1>3. ASSUME NEW q \in Publishers PROVE RunInv(q)'
  <2>1. ASSUME NEW p \in Publishers, Start(p) \/ Proceed(p) \/ Fails(p) PROVE RunInv(q)'
    <3>1. CASE q = p
      BY <2>1, <3>1, StartRun, ProceedRun, FailsRun
    <3>2. CASE q # p
      BY <1>1, <2>1, <3>2, Private, OthersRun DEF IInv
    <3> QED
      BY <3>1, <3>2
  <2>2. CASE Tamper
    BY <1>1, <2>2, OthersRun DEF Tamper
  <2>3. CASE UNCHANGED vars
    BY <1>1, <2>3, OthersRun DEF vars
  <2> QED
    BY <2>1, <2>2, <2>3 DEF Next
<1> QED
  BY <1>1, <1>2, <1>3 DEF IInv

LEMMA Inductive == Spec => []IInv
<1>1. Init => IInv
  BY InitIInv
<1>2. IInv /\ [Next]_vars => IInv'
  BY NextIInv
<1> QED
  BY <1>1, <1>2, PTL DEF Spec

-----------------------------------------------------------------------------
(* What follows for every number of runs and lineages. *)

\* Publication is commit-last: no crash, retry or race publishes a commit
\* before the generation it names.
THEOREM Readable == Spec => []CommittedIsReadable
<1>1. IInv => CommittedIsReadable
  BY DEF IInv, StoreInv
<1> QED
  BY <1>1, Inductive, PTL

\* The PostgreSQL summary never names a result other than the published one.
THEOREM Named == Spec => []SnapshotNamesPublication
<1>1. IInv => SnapshotNamesPublication
  BY DEF IInv, StoreInv
<1> QED
  BY <1>1, Inductive, PTL

\* A COMPLETED date has its summary, whatever later attempts and other runs do.
THEOREM CompletedSummary == Spec => []CompletedIsSummarised
<1>1. IInv => CompletedIsSummarised
  BY DEF IInv, RunInv, Truthful, CompletedIsSummarised
<1> QED
  BY <1>1, Inductive, PTL

\* Runs of one lineage do not block one another in a store that behaves.
THEOREM Unblocked == Spec => []OnlyOthersBlock
<1>1. IInv => OnlyOthersBlock
  BY DEF IInv, RunInv, Truthful, OnlyOthersBlock
<1> QED
  BY <1>1, Inductive, PTL

-----------------------------------------------------------------------------
(* The refinement of the write-once register. *)

LEMMA CommitCreatedOnce ==
    ASSUME StoreStep
    PROVE  \/ commit' = commit
           \/ commit = None /\ commit' \in {InputOf[c] : c \in Publishers} \cup {InvalidCommit}
  BY DEF StoreStep, Untouched, published, Tamper, Staged, PutGeneration, Committed,
         Summarised, PutSnapshot

\* A step that reports nothing publishes at most.
LEMMA SilentStep ==
    ASSUME StoreStep, UNCHANGED report
    PROVE  [Register!Next]_<<commit, Holders>>
<1>1. Holders' = Holders
  BY DEF Holders
<1>2. commit' = commit \/ Register!Publish
  BY <1>1, CommitCreatedOnce DEF Register!Publish
<1> QED
  BY <1>1, <1>2 DEF Register!Next

LEMMA SilentSteps ==
    ASSUME [Next]_vars, ~\E p \in Publishers : Start(p) \/ WriteReport(p)
    PROVE  UNCHANGED report
<1> USE DEF Local
<1>1. CASE UNCHANGED vars
  BY <1>1 DEF vars
<1>2. CASE Tamper
  BY <1>2 DEF Tamper
<1>3. ASSUME NEW p \in Publishers, Fails(p) PROVE UNCHANGED report
  BY <1>3 DEF Fails, InputsRefused, StoreRaises, CommitConflict, SnapshotRaises, Crash
<1>4. ASSUME NEW p \in Publishers, Proceed(p) PROVE UNCHANGED report
  BY <1>4 DEF Proceed, FindNothing, FindCompatible, FindCollision, CheckGeneration,
              WriteGeneration, ReadBack, FindConcurrent, CreateCommit, LoseCommit,
              VerifyPublished, ReadSnapshot, UpsertSnapshot, ConfirmSnapshot
<1> QED
  BY <1>1, <1>2, <1>3, <1>4 DEF Next

LEMMA RegisterStep == IInv /\ [Next]_vars => [Register!Next]_<<commit, Holders>>
<1> SUFFICES ASSUME IInv, [Next]_vars PROVE [Register!Next]_<<commit, Holders>>
  OBVIOUS
<1>0. StoreStep /\ TypeOK
  BY NextStores DEF IInv
<1>1. CASE ~\E p \in Publishers : Start(p) \/ WriteReport(p)
  BY <1>0, <1>1, SilentSteps, SilentStep
<1>2. ASSUME NEW p \in Publishers, Start(p) PROVE Register!Ask(p)
  <2>1. commit' = commit /\ report' = [report EXCEPT ![p] = Started]
    BY <1>2 DEF Start, published
  <2>2. Holders' = Holders \ {p}
    BY <1>0, <2>1 DEF Holders, Started, TypeOK
  <2> QED
    BY <2>1, <2>2 DEF Register!Ask
<1>3. ASSUME NEW p \in Publishers, WriteReport(p) PROVE Register!Tell(p) \/ Register!Ask(p)
  <2>1. commit' = commit /\ report' = [report EXCEPT ![p] = outcome[p]]
    BY <1>3 DEF WriteReport, published
  <2>2. CASE outcome[p].status \in {"COMPLETED", "DATABASE_PENDING"}
    <3>1. Holders' = Holders \cup {p}
      BY <1>0, <2>1, <2>2 DEF Holders, TypeOK
    <3>2. commit = InputOf[p]
      BY <2>2 DEF IInv, RunInv, Truthful
    <3> QED
      BY <2>1, <3>1, <3>2 DEF Register!Tell
  <2>3. CASE outcome[p].status \notin {"COMPLETED", "DATABASE_PENDING"}
    <3>1. Holders' = Holders \ {p}
      BY <1>0, <2>1, <2>3 DEF Holders, TypeOK
    <3> QED
      BY <2>1, <3>1 DEF Register!Ask
  <2> QED
    BY <2>2, <2>3
<1> QED
  BY <1>1, <1>2, <1>3 DEF Register!Next

\* For every number of runs, the create-only commit is a write-once register: it
\* never changes, and a run reports its date as published only if the commit is
\* of its own lineage and content.
THEOREM Implements == Spec => ImplementsRegister
<1>1. Init => Register!Init
  BY DEF Init, Register!Init, Holders
<1>2. IInv /\ [Next]_vars => [Register!Next]_<<commit, Holders>>
  BY RegisterStep
<1> QED
  BY <1>1, <1>2, Inductive, PTL DEF Spec, ImplementsRegister, Register!Spec
=============================================================================
