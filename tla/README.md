# Verification of the A-share multi-factor stock selector

TLA+ models of the control protocols of this repository, TLC instances that
check them, and TLAPS proofs of their safety properties. Paths are relative to
the repository's Python package `python-engine/src/stock_selector/` unless they
start with `docs/`, `docker/` or `spring-api/`.

## The system

The program turns vendor market data into a daily ranked list of stocks. Each
stage is a command of `cli.py`; stages never call one another, they meet in an
object store (a local directory or MinIO) and in PostgreSQL.

| Stage | Code | State it keeps | What is hard about it |
| --- | --- | --- | --- |
| Goal 21 backfill | `data/historical_backfill.py` (plan, manifests), `data/historical_backfill_executor.py` (executor), `providers/historical_provider.py` | per chunk: one mutable checkpoint, immutable attempt reports and staging objects; canonical partitions shared by chunks; a root manifest | crash between any two writes, resume from the store alone, calls that raise after taking effect, reuse of old staging under new gates |
| Goal 18/20 clean inputs and their gate | `data/tushare_standard_inputs_landing.py`, `real_clean_inputs_landing.py`, `real_clean_input_gate.py` | raw staging, canonical partitions, readiness report and manifest | three commands and other writers meet in the same partitions; a receipt names versions that may be gone |
| Goal 22 clean universe | `data/real_clean_universe.py` | range manifest, daily reports, daily commit (overwritten) | several outputs before one commit, resume by comparing checksums |
| Goal 23 factors | `factors/real_factor_daily.py` | range manifest, daily reports, daily commit, history window | reads Goal 22 publications of earlier dates, caches them |
| Goal 24 selection | `scoring/real_selection_result.py`, `scoring/selection_snapshot_repo.py` | immutable generations, one create-only commit per date and mode, a PostgreSQL row | concurrent runs race for the commit, two stores that must agree, repair after a database failure |
| Tushare prices (goals 12-17) | `data/tushare_candidate_staging_batch.py`, `tushare_daily_price_promotion_validator.py`, `tushare_daily_price_small_batch.py` | a dozen artifacts of a batch, promoted prices | artifacts of several builds side by side after a death, reuse of staging, a status that does not tell refusals |
| Daily update | `data/update_pipeline.py`, `update_log.py` | step log in PostgreSQL or memory | a write done and its step not marked |
| Providers | `providers/*.py` | none | pagination, retries |
| Storage | `storage/*.py` | none | two-phase object upload |
| Legacy pipelines | `scoring/`, `factors/`, `universe/`, `cleaning/` | processed partitions | pure computations |
| Backtest | `backtesting/*.py` | portfolio, summary rows | order of sells and buys against cash |
| Result API | `spring-api/` | none (reads PostgreSQL and exports) | query validation |

Correctness, component by component:

* backfill: whatever crashed, a COMPLETED chunk is exactly materialised; the
  evidence of earlier attempts is never overwritten; finished work is not
  redone; repeating the documented resume completes the plan;
* publication: readers that follow a commit find an intact generation; the first
  publication of a date stays; the database names what is published; a
  COMPLETED date has its summary; a failed summary is repaired;
* clean inputs: what Goal 22 reads is what one audit found fit, version by version;
* prices: a promoted row is whole, each of its values was quoted, and a row that
  trades was answered by one fetch that knew all events;
* financial history: a partition holds all that was disclosed by its date and
  nothing disclosed later;
* Goal 22/23 range runners: a commit names outputs that were read back; a date
  counts as done only when its commit still matches;
* backtest: cash never becomes negative, sells precede buys;
* planner: chunks cover their range exactly once.

`PROJECT.json` lists every component with its status, and under `hazards` what
is hard to test, each at its line with the properties that cover it.

## Modules

| Module | Contents |
| --- | --- |
| `HistoryBackfill` | the Goal 21 executor: one process at a time over the chunks of a plan |
| `AttemptLedger` | abstract: what an executor promises of the attempts of a unit of work |
| `HistoryBackfill_proofs` | TLAPS proofs about `HistoryBackfill`, with the refinement |
| `MCHistoryBackfill` | its TLC instances |
| `SelectionPublication` | the Goal 24 publication protocol: several runs at once |
| `WriteOnceRegister` | abstract: a register that is written once |
| `SelectionPublication_proofs` | TLAPS proofs about `SelectionPublication`, with the refinement |
| `MCSelectionPublication` | its TLC instance |
| `RangeEvidence` | abstract: what a range runner promises to the goal that reads its manifests, reports and commits |
| `CleanUniverseRange`, `MCCleanUniverseRange` | the Goal 22 range runner, and its TLC instances |
| `CleanUniverseRange_proofs` | TLAPS proofs about `CleanUniverseRange`, with the refinement |
| `FactorRange`, `MCFactorRange` | the Goal 23 range runner over a Goal 22 that keeps changing, and its TLC instances |
| `FactorRange_proofs` | TLAPS proofs about `FactorRange`, with the refinement |
| `FinancialHistory`, `MCFinancialHistory` | the financial chunks of Goal 21: seed, carry, terminal anchor, and another run on the same partitions; and its TLC instance |
| `FinancialHistory_proofs` | TLAPS proofs about `FinancialHistory` |
| `CleanInputs`, `MCCleanInputs` | Goals 18 and 20 and the reader of Goal 22, all at once; and its TLC instance |
| `CleanInputs_proofs` | TLAPS proofs about `CleanInputs` |
| `PriceLanding`, `MCPriceLanding` | the commands of Goals 13C to 17 for one batch id; and its TLC instance |
| `PriceLanding_proofs` | TLAPS proofs about `PriceLanding` |

Definitions named `Mutant...` are deliberate mistakes, at least one for each property of
each passing run; substituting the mutant for the definition it precedes makes
TLC report that property. No specification uses them.

### HistoryBackfill

State. `manifest`, `reports`, `staging`, `canonical` and `root` are the object
store, and all that survives a process. `pc`, `gates`, `cur`, `frame`, `ev`,
`date` and `failure` are the local variables of `execute_history_backfill`
(`requested_stages`/`force`/`resume`, `chunk`, `staging_frame`, `evidence`, the
loop over partitions, the caught exception). A DataFrame is a model value and
its checksum is itself, so a checksum comparison is an equality. A chunk's part
of a canonical partition (its scope) is one cell of `canonical`.

Actions follow the loop body: `RecoverReady`/`RejectReady` are
`_recover_ready_checkpoint`; `SkipChunk` the two early `continue`s;
`BeginAttempt` the RUNNING checkpoint outside the `try`; `FetchChunk`,
`StageFrame`, `ReuseStaging`, `ApplyUnchanged`, `ApplyWrite`,
`ApplyContradiction`, `WriteReady` and `WriteCheckpoint` the `try` block in
order; the `...Raises` actions each call that fails, with its effect, and
`AttemptRaises` without; `WriteFailureReport`, `FailureReportRaises` and
`WriteFailureCheckpoint` the three handlers; `WriteSummary` the root manifest.
One action is one call with an effect on the store: between two of them the
process may die (`Crash`). `Tamper` is anybody else: a staging object is lost or
replaced, rows of a scope are rewritten, between runs.

`OperatorRun` starts a process with any gates, `ResumeRun` with both gates and
`--resume`. `--force` and `--no-resume` are read in the same places with the
same effect (`resume and not force`, `force or not resume`), so one flag stands
for both. A run with neither gate writes only the summary. A rejected plan
mismatch changes nothing and is no action.

Not in this module: the financial v2 chain and rows outside a chunk's scope, which
are in `FinancialHistory`, and two Goal 21 processes at once, which
`docs/goal21_historical_backfill.md` excludes ("do not run two Goal 21 processes
with the same `run_id`").

### FinancialHistory

A financial partition holds everything disclosed up to its date, so a v2 plan
orders its financial chunks by announcement window and computes each on top of
the chunks before it (`_merge_financial_source_state`), the first on top of the
partition before the plan, which a completed manifest of an earlier plan vouches
for (`Seed`). Nothing of this chain is stored: every process rebuilds it while it
walks the chunks. `chain` is that memory, the `financial_...` variables of
`execute_history_backfill`; `work` is what belongs to the chunk under way
(`financial_prior_state`, `staging_frame`). A checkpoint keeps what the process
believed (`Proof`, the `financial_reducer` record), and it is compared with the
chain of the next process before the chunk is skipped (`Skip`) or recovered
(`RecoverCompleted`).

A frame gives each disclosure the vintage of its values; keys include the day of
announcement, so a disclosure belongs to one window. `Fetch` is the router
(`fetch_chunk`: calendar, answer, raw landing, validation) with staging and its
read-back; `Carry` joins the frame to the chain; `Apply` to `PartitionFails` are
`_apply_canonical_partitions`, one action for each read, write and read-back,
because another run may come in between (`OtherReads`, `OtherWrites`: the same
read, merge, write of a run over other stocks, which puts back the rows of this
plan that it has read); `Finish` and `WriteCheckpoint` the report and manifest.
The `...Fails` actions are the handlers: the checkpoint keeps the staging, and the
chain stays whole only if the frame had reached the carry. Attempt numbers and
immutable slots are left to `HistoryBackfill`, and one failed write of a handler is
the same as a death. `BLOCKED` and `FAILED` are one state here: what reads them
treats them alike. A scope that never disclosed anything is left out (the seed has a
row): an empty partition is no anchor, so such a plan cannot pass its own terminal
check.

A disclosure of a closed day reaches a partition only with a later chunk, and a
final chunk of closed days is proven by an anchor that an earlier chunk left. A
plan whose last trade date is before the last announcement never completes, by
design (`SEMANTIC_SOURCE_UNAVAILABLE`); `Completes` says so. What is not repaired:
rows of the other run that this run's write has put back. Only the read-back of
either run would notice, if the other wrote just then.

### CleanInputs

Three processes. Goal 18 fetches `daily_basic` and `financial` into raw staging and
merges them into the partitions. Goal 20 audits all inputs, stages and promotes
four of them, reads everything back and writes its receipt, the report and then
the manifest that names it. The reader of Goal 22 takes the receipts first and the
partitions afterwards, and accepts a partition only in the version that a receipt
names. They and other writers (`Rewrite`, `Correction`) step between any two calls
of one another. A partition is a frame, its checksum the frame itself, and rows are
told apart by vintage. `stock_basic` and `st_history` are compared with the history
objects of upstream, which may withdraw a row; as the merge never removes one, the
partition and upstream then differ for good and every audit refuses
(`Withdrawn`). An operator has to remove the row by hand. What proves a history is
read object by object: the audit reads staging, the coverage proof of an empty one
and the upstream evidence (`ReadHistory`, `ReadCoverage`, `TraceHistory`), the reader
coverage, staging and evidence (`Shows`, one part a step); the upstream objects that
one history names count as one.

### PriceLanding

One batch id. A fetch asks its interfaces call by call (`FetchRows`, `FetchEvents`,
`MissEvents`, `FetchFails`): those by code first, those by date after them, the
events last, with a sleep between any two calls. The vendor may correct its data in
between (`Correct`). The fetch or `Rebuild` ends in a build in memory, `WriteArtifact`
writes its objects one by one in the order of `_write_success_artifacts`, and the
promotion (`Load` to `ReadBack`) believes the artifacts that are in the store. A
death in between leaves objects of several builds. Four things it shows:

* a rebuild never makes a batch ready, since the proof that all events of a date are
  known is made by the calls of the same build;
* a refused fetch still promotes the artifacts that are there and exits 0 with
  `VALIDATOR_PASS`; only the blocked reasons of its report say that the request was
  not fetched. `Completes` rests on an operator who looks at them;
* a row that trades may join values of several vintages, or prices with later events,
  when the vendor corrects something while the fetch runs; preflight and validator
  compare keys and cannot see it. What holds is that all of it comes from one fetch,
  price first and the events no earlier than any value. `fetches`, a history variable
  that no step reads, says when each accepted fetch began and ended;
* a paused row may even mix values of several fetches: a rebuild without
  `--goal13c-preflight` leaves the preflight report of an earlier build, which
  lets it pass although `docs/goal13C_suspend_d_full_coverage_preflight.md` has it
  speak of the current candidate batch.

`PromotedIsTrue` states what remains true of both. The last case takes two edits and
two faults, one more than the run allows for the sake of `Completes`; the theorem
covers it.

The limits and schema checks of the batch are left out, `daily_basic` only counts
for coverage there and is left out too, and a stock that did not trade on an open
date blocks its batch. The pages of `suspend_d` for a date are one answer, the order
of the codes is left open, the open dates that `trade_cal` answers
are those of the request, and what is asked after a call that raised is passed over,
as the build is refused anyway. A rebuild writes the staged calendar back as it was,
even for a narrower request.

### SelectionPublication

State. `generation`, `commit` and `snapshot` are the immutable result objects,
the commit object and the PostgreSQL row of one date and rebalance mode;
`report` the daily report of each run; `pc`, `job` and `outcome` the memory of
each process. A generation id is a hash of the input fingerprint and of the
result, which the input determines, so an input stands for its generation.
`InputOf` is constant because the plan fingerprint of a run id freezes it (a
different plan under the same run id is rejected before anything is written).
Dates and modes share no key except the range manifest, which is written for
people and read back only for attempt numbers and the plan fingerprint.

Every read or write of a store is a step of its own, so three runs interleave
at every call: the look at the commit (`FindNothing`, `FindCompatible`,
`FindCollision`), staging and its read-back (`CheckGeneration`,
`WriteGeneration`, `ReadBack`), the second look and the create-only write
(`FindConcurrent`, `CreateCommit`, `LoseCommit`), the verification
(`VerifyPublished`) and the summary (`ReadSnapshot`, `UpsertSnapshot`,
`ConfirmSnapshot`). `StoreRaises` and `SnapshotRaises` are calls that raise
with or without their effect; `CommitConflict` is the conditional PUT that
reports a conflict although nothing is there (409 of an S3 store); `Crash` ends
a process anywhere; `Tamper` damages objects, writes an invalid commit or
deletes the row. BLOCKED by inputs is called REFUSED, to keep it apart from
BLOCKED by another publication.

Two behaviours a reader may not expect, both allowed by the model: a commit
write that raised after taking effect is reported UNCOMMITTED although the date
is published (the next run reuses it); and a published date whose generation is
lost stays BLOCKED for ever, since a commit is never replaced.

### RangeEvidence, CleanUniverseRange, FactorRange

Goals 22, 23 and 24 have the same chain of evidence: a range manifest, a daily
report for each date, a commit for each date, and the generation the commit
names. The next goal accepts a date when the four agree. `RangeEvidence` states
what makes this sound, in terms of attempt numbers only: an attempt takes the
trust from the manifest before it touches a report, only the run's own commit is
reported COMPLETED, and a manifest is closed with the dates its own attempt
completed. `CleanUniverseRange` implements it (`Promise`), `FactorRange` runs on
top of it (it EXTENDS `RangeEvidence`; the action `Goal22` is any step of a
Goal 22 runner) and implements it once more for its own readers
(`FactorPromise`). Both implementations are checked as refinements.

`CleanUniverseRange`. `manifest`, `report`, `commit` and `objects` are the store;
`run`, `attempt`, `apply`, `reuse`, `left`, `date`, `out`, `statuses`, `outcome`
the variables of `run_real_clean_universe_range` and `_run_one_trade_date`
(`reuse` is `resume and not force`). One process at a time, as
`docs/goal22_real_clean_universe.md` demands; run ids overlap in their dates and
overwrite each other's commits. The outputs of a date are a function of the run
id and the date, because the plan freezes the checksums of the inputs: an object
is absent, intact or corrupt. The pipeline in between succeeds (`ReadInputs`) or
refuses (`InputsRefused`).

`FactorRange`. What a process reads of Goal 22 is kept as attempt numbers:
`catalog` is the manifests, read once at the start; `reading` the report and
the commit of the history date under way; `cache` the publication cache. The
lineage of a target, the set of all publications it rests on, stands for its
input fingerprint, and with the run id and date for its generation. `fmanifest`
keeps the plan of a run id: `RefusePlan` is the plan mismatch. A checksum of a
manifest changes with every write of it, so a plan made from a RUNNING manifest
is one that no later process can repeat.

`Misfortune` and `Tamper` are damage to objects and loss of commits by others.
Damage to a Goal 22 output that Goal 23 does not read is not told apart from
damage to one that it reads.

## Runs

| Run | Question | Bounds |
| --- | --- | --- |
| `backfill_one` | every safety invariant and step property of the executor | 1 chunk, 2 partitions, 2 frames and the empty one, 3 attempts, 2 free runs (resumes are unlimited up to the attempts), 2 faults, 1 tampering |
| `backfill_two` | does every run end, does repeating the resume complete the plan, and does the store implement `AttemptLedger`? | 2 chunks, 1 partition, 2 faults; 6 attempts, so that the bound is never what stops a run: each fault costs a chunk one attempt |
| `backfill_ready` (violation) | is every READY report left without its checkpoint fit for recovery? | 2 chunks, 1 fault |
| `backfill_lost` (violation) | does lost staging block its chunk only? | 2 chunks, 1 fault, 1 tampering |
| `publication` | all safety properties, the register, and is the date published and summarised in the end? | 2 runs of one lineage and 1 of another, 1 fault, 1 tampering |
| `universe` | what commits and manifests vouch for; the evidence promise; do all ranges complete, with evidence readers accept? | run ids over dates {1, 2} and {1}, 2 outputs, 1 free run, 1 fault, 1 tampering, 4 attempts each (never what stops a run) |
| `factor_history` | is a published factor date built on exactly the history of its plan, and does repeating a run complete it? | 2 dates, 2 Goal 22 attempts, 4 own attempts (never what stops a run), 2 faults; other flags come in the next run |
| `factor_publication` | commit-last, and the evidence promise to Goal 24 | 2 Goal 22 run ids sharing 1 date, 1 factor run given the first and 1 given both, 1 Goal 22 attempt, 2 own attempts, 1 free run, 1 fault, 1 tampering of either goal |
| `factor_cache` (violation) | does a changed history date always block? | 2 Goal 22 run ids sharing date 1, 1 factor run over 2 dates, no fault |
| `financial_history` | has a run that completes left the history in the partitions, and does repeating the landing get there? | 3 windows over 5 days of which 2 are open (one disclosure on a closed day, the final window closed), 3 disclosures and the seed, 1 correction, 2 faults, 1 other command or write of another run |
| `clean_inputs` | does Goal 22 read only what was audited, and does repeating Goals 20 and 22 get there? | an input of each kind (landed, fetched, supplied), 1 audited code and 1 other, 1 batch, 1 Goal 18 process, 1 edit, 1 fault |
| `price_landing` | is a promoted row what the vendor said, whatever died or changed between which calls and artifacts, and does repeating the landing get it there? | 1 code, 2 dates, 2 interfaces (one by code, one by date), 2 requests, 1 correction that turns the events around, at most 2 edits, 2 faults and 3 of both |

Two partitions are enough for a chunk to be applied in part; three attempts for
one to be staged, one to fail and one to resume; two faults for a failure of the
handler of a failure. Three runs are enough for a race between equals and one
between strangers at once. Frames meet only in comparisons, which the symmetry set
of `backfill_one` uses. Two faults are enough in `price_landing`
for a death in the rerun after a death, and in `financial_history` for a chunk that fails on top
of one that failed; one command with other flags leaves staging that no apply has
seen.

`CHECK_DEADLOCK FALSE` is set where the bound on attempts or runs lets the system
stop.

### Fairness

`FairSpec` of `HistoryBackfill` is weak fairness of `Process` (the code takes
its next step when it can) and of `ResumeRun` (the operator repeats the
documented command). Faults and operator runs are never required, and may
always come in between. In `SelectionPublication`, every process that runs gets
its turns and every run is repeated by its scheduler. In the range runners the
one process gets its turns, and the repetition of each run id is strongly fair:
an operator who repeats two runs in turn finds the machine idle again and again,
not for good. `FactorRange` repeats only while its Goal 22 evidence is fit
(`Fit`), which an operator sees in the Goal 22 manifest. In `FinancialHistory` and
`PriceLanding` the one command that lands everything is repeated (in the latter
only until it passes with no blocked reason), in `CleanInputs` Goal 20 until its
receipt is ready and then the reader, again strongly fair since other commands come
in between. Other writers, corrections and Goal 18 are never required. All liveness runs bound
the number of faults: nothing converges under faults that never stop.

### What the violation runs show

* `backfill_ready`: a resume with `--provider-call` that finds verified staging
  does not fetch, but still reports the provider stage together with the older
  staging attempt. If its final checkpoint is lost,
  `_recover_ready_checkpoint` takes this report for a forgery
  (`staging_attempt != attempt`) and every later `--resume` ends with
  INVALID_READY_REPORT, although the documentation promises recovery.
  `ReadyIsRecoverableUnlessRelabelled` shows that this is the only such case.
* `backfill_lost`: staging that was lost under a READY report ends an apply-only
  run instead of blocking its chunk.
* `factor_cache`: Goal 23 reads each history date once per process. A Goal 22
  run id that republishes the date after the first target was processed does
  not block the second target, which is computed from what was read before; the
  documentation says a changed artifact blocks. A process started afterwards
  does block. `HistoryIsOfThePlan` shows what holds regardless: the history is
  the one the frozen manifests list, from the attempts that closed them.

## Proofs

Every property of a passing run that is not a liveness property, type invariants
included, is stated by a theorem; the run checks the same formula on a small
instance. The assumptions, each named in the module that declares the constants:

| Assumption | Of | Says |
| --- | --- | --- |
| `BoundsAssumption`, `NoneAssumption` | `HistoryBackfill` | bounds are naturals, with a chunk and an attempt at least; `None` is no frame |
| `PublisherAssumption` | `SelectionPublication` | bounds are naturals; every run has one input; `None` and an invalid commit are no inputs |
| `RangeAssumption` | `CleanUniverseRange` | bounds are naturals; a range has a date and a date an output; `None` is no run id |
| `FactorAssumption` | `FactorRange` | bounds are naturals; a run has a target date and a catalog of Goal 22 run ids; `None` is no run id, plan or commit |
| `CleanInputsAssumption` | `CleanInputs` | a dataset is audited or promoted, a batch has codes and dates, edits are of known rows; `None` is no record; there are more run ids than the three a batch can name at a time, so a new process finds a fresh one |
| `PriceLandingAssumption` | `PriceLanding` | bounds are naturals; a request has codes and dates; the interfaces are distinct, and the price is not among those by date; keys are finite; `None` is no record |
| `FinancialHistoryAssumption` | `FinancialHistory` | bounds are naturals; disclosures are finite in number and one was made before the plan, the seed; `None` is no record |

Nothing is assumed of the number of chunks, partitions, frames, runs, lineages,
dates, outputs, codes, interfaces or disclosures, nor of the order in which
processes step.

`HistoryBackfill_proofs`. The inductive invariant is
`TypeInv /\ SlotsInv /\ AuditInv /\ WorkInv`:

* `TypeInv` is `TypeOK` and the numbering of attempts: a chunk is PENDING exactly
  before its first attempt, and the bound is respected at every label (without
  it `attempt + 1` could leave the range);
* `SlotsInv`: the report and staging slots above a chunk's attempt are free, and
  the slot of the running attempt is free until its report is written;
* `AuditInv`: what the READY report of the latest attempt says, for a settled
  checkpoint and for the process about to write one;
* `WorkInv`: what holds at each label about the frame in memory, its staging
  object and the partitions applied so far. `CompletedIsMaterialised` is not
  inductive by itself: a checkpoint is written from the process's memory, or by
  recovery from a report, so the invariant has to know what both of them know.

Two more layers rest on it. `GatesInv`: a process in an attempt has a gate, its
checkpoint lists its stages, it fetches only when it has to, and staging that it
reuses is of an earlier attempt. `AnnouncedInv`: a READY report of the latest attempt
says what its writer knew, and until somebody tampers the staging and the partitions
still hold it. They give
`ReadyRecoverable` (the relabelled reuse is the only READY report a resume refuses)
and `NotRedone`. `LedgerImplemented` is the refinement of `AttemptLedger`: the
beginning of an attempt maps to one (`LedgerBegins`), writing a settled checkpoint
to another (`LedgerSettles`), everything else stutters (`LedgerStutters`).

`SelectionPublication_proofs`. The invariant says what a run has established at
each label (`Established`: a generation that was read back is intact unless
somebody spoiled it; a run at the summary holds the commit) and what its
outcome and its report claim (`Truthful`). Every action leaves the stores alone
or does one of four things to them (`StoreStep`); one lemma shows that no such
thing invalidates what another run established or claimed, so that the steps of
one run need not be compared with those of another. From it follow the safety
properties of the run, for any number of runs, faults and damaged objects, and
`Implements`: the protocol refines `WriteOnceRegister`.

`CleanUniverseRange_proofs`. The invariant has one part for each kind of
evidence:

* `TypeInv`: `TypeOK`, and a process that runs has a run id, an attempt number
  and dates of its own plan (`JobInv`);
* `StagedInv`: at each label of a publication, the outputs staged so far are
  intact or were damaged by somebody else. `CommittedIsComplete` needs it at the
  moment the commit is written, and `SettledStays` afterwards: nothing but
  damage makes an intact output worse, so no later run of the same id can;
* `AuditInv`: while a process runs, its manifest is RUNNING under its attempt
  number, and the reports of the dates it has reset say what it believes of them.
  This is what closing the manifest turns into `ClosedManifestIsBacked`;
* `PublishInv`: only a process that applies reaches the writers, and it is about
  to report COMPLETED only if no other run holds the commit of the date.

`Implements` maps each action to a step of `RangeEvidence` or to none, one lemma
for each kind of write: a manifest that is RUNNING already tells its readers
nothing (`MarkStutters`), a report withdraws or attests one date, a commit
publishes, an object repairs, and closing gives the trust. `ResumeIsIdempotent`
needs `ResumeInv`: as long as nothing was damaged, a resumed process is past the
look at the commit only for a date that another run holds, or nobody.

`FactorRange_proofs`. The parts of `CleanUniverseRange` return for Goal 23's own
evidence (`TypeInv`, `AuditInv`, `OutcomeInv`, `StagedInv`), and `Implements` has
the same lemmas. New is what a process believes of Goal 22: `PlanInv` (it works on
the frozen plan of its run id, which its catalog matches) and `CacheInv` (everything
it has read or cached was vouched for by the attempt that the plan knows, whatever
Goal 22 has done since). Neither would be inductive with the present Goal 22 state
in the place of the plan, which is the reason why `factor_cache` finds its violation;
with the plan, they give `HistoryIsOfThePlan` when a commit is written.

`CleanInputs_proofs`. A property of three processes, proved from what each version
was when it was seen. `AuditInv` says at each label of Goal 20 what its audit has
passed, promoted and read back; `ReceiptInv` that a ready receipt is honest: every
version it names, cut to the audited codes, is the frame that its own process audited
and passed; `TrustInv` that the receipts which the reader has taken are ready and agree on each
date; `RowsInv` that what it has read and not yet refused is the version which the
trusted receipt names. Writers of the partitions do not occur in it: the reader's
comparison makes them harmless, and `AuditedOnly` needs no more.

`PriceLanding_proofs`. `AnswerInv`: while a fetch runs, each value it has is of a
vintage between its beginning and now, the price of a row is the first of them, no
event is looked up before all rows are there, and a date whose events are known had
none for a key without one. `StagedInv`: whatever builds the artifacts in the store
come from, every event and value was once said by the vendor, and every candidate row
that trades was answered in one accepted fetch. `PromotedInv` takes this through the
promotion to the partition.

`FinancialHistory_proofs`. `WindowInv`: the staging a checkpoint names is of its
chunk's window. `ChainInv`: when every chunk that a run with the apply gate has
passed is COMPLETED, its carry is the history of those chunks, and the partitions of
their days hold it unless another run has put rows back. `AttemptInv`: the same for the chunk under way, at
each label between its fetch and its checkpoint. The code picks the first and the
last day of a set; that a set of days has one comes from `WFMin` of the library (`<`
is well-founded on the naturals). From all this follows `CompletedRunLanded`, for
plans of any length.

Only model-checked: liveness (`RunsEnd`, `ConvergesOrIsWedged`, `Converges`,
`Completes`, `CompletesUnlessDrifted` and what else is a leads-to under fairness),
since the prover has neither ENABLED nor the rules of fairness; and that the three
violation runs find their violation.

## Plan

Done: `HistoryBackfill`, `SelectionPublication`, `CleanUniverseRange`, `FactorRange`,
`FinancialHistory`, `CleanInputs`, `PriceLanding`, each with the proofs of its
safety properties and, where it has an abstraction, of the refinement.

Left, in this order:

1. What the abstractions give by themselves: theorems about `AttemptLedger`,
   `RangeEvidence` and `WriteOnceRegister`, from which the concrete properties
   would follow by the refinements; and stronger safety properties where a proof has
   shown that more holds than the runs ask.
2. The market sidecar cache of the provider's Tushare route, and the input loading
   of Goal 24 over the evidence of Goals 22 and 23.
3. Daily update with its log, retry policy, backtest rebalance, Top-N selection.

## Not modelled

* The computations of factors, scores and the pipelines that clean them: data
  without control; what they are given, and when their results are published, is
  in the range runners.
* Column and value contracts, plan identity and budgets, v1 splitting of a plan,
  and the single-sample candidates of the earlier goals: pure validation, which
  succeeds or refuses as one step of the module that calls it.
* Daily update, retry policy and backtest: planned, see above.
* Adapters of the vendors, argument parsing, containers, and the read-only API.
