----------------------------- MODULE CleanInputs -----------------------------
(***************************************************************************)
(* The clean inputs of Goal 22: what lands them, what audits them, and what *)
(* decides that they may be read.                                           *)
(*                                                                          *)
(*   Goal 18  run_tushare_standard_inputs_small_batch: daily_basic and      *)
(*            financial, from the provider through raw staging              *)
(*   Goal 20  run_real_clean_inputs_small_batch: audits all inputs, promotes *)
(*            four of them, reads everything back, writes a receipt (report *)
(*            and manifest)                                                 *)
(*   gate     load_goal22_trusted_input_lineage and the input reader of the *)
(*            Goal 22 command: take a receipt at its word only for the      *)
(*            object versions that it names                                 *)
(*                                                                          *)
(* One process of each runs at a time; between their reads and writes the   *)
(* others, and whoever else writes canonical partitions (Goals 17 and 21),  *)
(* may step.  A partition is a frame [Codes -> row], its checksum the frame *)
(* itself; rows are told apart by their vintage, 0 is no row.               *)
(***************************************************************************)
EXTENDS Integers

CONSTANTS
    Codes, Dates, Vintages,
    Answers,         \* frames a provider may answer with
    Datasets,        \* those of the seven inputs an instance has
    Batches, ScopeOf, DatesOf,  \* [Batches -> audited codes], [Batches -> audited dates]
    Goal13,          \* [Batches -> [rows |-> frame, proven |-> its manifest vouches for it] or None]
    Upstream,        \* [Supplied -> the history that upstream has at first]
    Rewrites, Corrections, \* bounds: <<dataset, code, vintage>> that others write or upstream corrects
    None,
    RunIds,          \* names for Goal 20 processes (generated_at), enough of them to be unique
    MaxLands,        \* bound: processes of Goal 18
    MaxEdits,        \* bound: rows rewritten by others, Goal 20 with other flags than before
    MaxFaults        \* bound: raised calls, crashes

Landed == Datasets \cap {"daily_basic", "financial"}
Audited == Datasets \cap {"daily_price", "daily_basic", "financial"}
Promoted == Datasets \cap {"stock_basic", "adj_factor", "st_history", "benchmark_price"}
Fetched == Datasets \cap {"adj_factor", "benchmark_price"}
Supplied == Datasets \cap {"stock_basic", "st_history"}

Frames == [Codes -> Vintages \cup {0}]
Pairs == Datasets \X Dates

OrNone(S) == S \cup {None}
Tables(S, T) == [S -> [Dates -> T]]
Receipts == [id : RunIds, ready : BOOLEAN, versions : Tables(Datasets, OrNone(Frames)),
             audited : Tables(Datasets, OrNone(Frames))]

ASSUME CleanInputsAssumption ==
    /\ Dates \subseteq Nat /\ Vintages \subseteq Nat \ {0}
    /\ Datasets = Audited \cup Promoted /\ Promoted # {}
    /\ ScopeOf \in [Batches -> (SUBSET Codes) \ {{}}]
    /\ DatesOf \in [Batches -> (SUBSET Dates) \ {{}}]
    /\ Goal13 \in [Batches -> [rows : Frames, proven : BOOLEAN] \cup {None}]
    /\ Answers \subseteq Frames /\ Upstream \in [Supplied -> Frames]
    /\ Rewrites \subseteq Datasets \X Codes \X Vintages
    /\ Corrections \subseteq Supplied \X Codes \X (Vintages \cup {0})
    /\ None \notin Frames /\ None \notin [rows : Frames, proven : BOOLEAN]
    /\ None \notin Receipts
    \* No batch uses more than three names: of its report, of its manifest, of what was read.
    /\ \A f, g, h \in [Batches -> OrNone(RunIds)] :
          \E r \in RunIds : \A b \in Batches : r \notin {f[b], g[b], h[b]}
    /\ {MaxLands, MaxEdits, MaxFaults} \subseteq Nat

VARIABLES
    canonical,   \* [Datasets -> [Dates -> frame]], the raw/ partitions
    evidence,    \* [Supplied -> [Dates -> frame]], the upstream history objects
    staging,     \* [Batches -> [Promoted -> [Dates -> frame or None]]], of Goal 20
    coverage,    \* the batches whose coverage.json proves an empty st_history
    report,      \* [Batches -> [id, ready, versions, and the frames it audited] or None]
    manifest,    \* [Batches -> the report it is bound to, or None]
    rawStaging,  \* [Batches -> [Landed -> [Dates -> frame or None]]], of Goal 18
    lpc, lbatch, ltodo, lblocked, lrows, lexisting, \* the Goal 18 process
    pc, batch, run, reuse, apply, todo, frames, refused, existing, versions, \* the Goal 20 process
    gpc, receipts, asked, gtodo, rows,     \* the Goal 22 process
    accepted,    \* [Dates -> the inputs that Goal 22 took, or None]
    lands, edits, faults

store == <<canonical, evidence, staging, coverage, report, manifest, rawStaging>>
goal18 == <<lpc, lbatch, ltodo, lblocked, lrows, lexisting>>
goal20 == <<pc, batch, run, reuse, apply, todo, frames, refused, existing, versions>>
goal22 == <<gpc, receipts, asked, gtodo, rows, accepted>>
bounds == <<lands, edits, faults>>
vars == <<store, goal18, goal20, goal22, bounds>>

Unset == [ds \in Datasets |-> [d \in Dates |-> None]]
Empty == [c \in Codes |-> 0]

Init ==
    /\ canonical = [ds \in Datasets |-> [d \in Dates |-> Empty]]
    /\ evidence = [ds \in Supplied |-> [d \in Dates |-> Upstream[ds]]]
    /\ staging = [b \in Batches |-> [ds \in Promoted |-> [d \in Dates |-> None]]]
    /\ coverage = {}
    /\ report = [b \in Batches |-> None] /\ manifest = [b \in Batches |-> None]
    /\ rawStaging = [b \in Batches |-> [ds \in Landed |-> [d \in Dates |-> None]]]
    /\ lpc = "idle" /\ lbatch = None /\ ltodo = {} /\ lblocked = FALSE
    /\ lrows = Unset /\ lexisting = None
    /\ pc = "idle" /\ batch = None /\ run = None /\ reuse = FALSE /\ apply = FALSE /\ todo = {}
    /\ frames = Unset /\ refused = {} /\ existing = None /\ versions = Unset
    /\ gpc = "idle" /\ receipts = [b \in Batches |-> None] /\ asked = {} /\ gtodo = {}
    /\ rows = Unset
    /\ accepted = [d \in Dates |-> None]
    /\ lands = 0 /\ edits = 0 /\ faults = 0

-----------------------------------------------------------------------------
(* Frames and the orders in which the programs visit partitions. *)

\* _scope_frame: the rows of the audited codes; the benchmark has its own fixed scope.
Scope(b, ds) == IF ds = "benchmark_price" THEN Codes ELSE ScopeOf[b]
\* Mutant: a frame is cut down to the scope.
MutantScoped(f, S) == [c \in S |-> f[c]]

Scoped(f, S) == [c \in Codes |-> IF c \in S THEN f[c] ELSE 0]

\* _require_code_coverage.
Covers(f, S) == \A c \in S : f[c] # 0

\* _upsert_frame: rows are replaced by key and never removed.
Upsert(old, new) == [c \in Codes |-> IF new[c] # 0 THEN new[c] ELSE old[c]]

\* Dataset by dataset in the order of each loop, or date by date.
ReadBackRank == [ds \in Datasets |->
    CASE ds = "stock_basic" -> 1 [] ds = "daily_price" -> 2 [] ds = "adj_factor" -> 3
      [] ds = "daily_basic" -> 4 [] ds = "financial" -> 5 [] ds = "st_history" -> 6
      [] OTHER -> 7]
AuditRank == [ds \in Datasets |->
    CASE ds = "daily_price" -> 1 [] ds = "daily_basic" -> 2 [] ds = "financial" -> 3
      [] ds = "stock_basic" -> 4 [] ds = "adj_factor" -> 5 [] ds = "benchmark_price" -> 6
      [] OTHER -> 7]

FirstBy(rank, S) == {p \in S : \A q \in S : rank[p[1]] < rank[q[1]]
                                          \/ (p[1] = q[1] /\ p[2] <= q[2])}
FirstOfDate(S) == {p \in S : \A q \in S : p[2] < q[2]
                                     \/ (p[2] = q[2] /\ ReadBackRank[p[1]] <= ReadBackRank[q[1]])}

Fault == faults < MaxFaults /\ faults' = faults + 1
Edit == edits < MaxEdits /\ edits' = edits + 1

-----------------------------------------------------------------------------
(* Goal 18: raw staging from the provider, then daily_basic and financial.  *)

\* The financial history of a batch is one object, used on each of its dates.
LandedDates(ds, d) == IF ds = "financial" THEN DatesOf[lbatch] ELSE {d}
LandedPairs(b) == Landed \X DatesOf[b]

StartLanding(b, provider) ==
    /\ lpc = "idle" /\ lands < MaxLands
    /\ lpc' = IF provider THEN "fetch" ELSE "load"
    /\ lbatch' = b /\ ltodo' = LandedPairs(b)
    /\ lands' = lands + 1
    /\ UNCHANGED <<store, lblocked, lrows, lexisting, goal20, goal22, edits, faults>>

EndLanding ==
    /\ lpc' = "idle" /\ lbatch' = None /\ ltodo' = {} /\ lblocked' = FALSE
    /\ lrows' = Unset /\ lexisting' = None

\* What the provider answers is written as it is.
FetchLanding ==
    /\ lpc = "fetch"
    /\ \E p \in FirstBy(ReadBackRank, ltodo), f \in Answers :
         LET left == ltodo \ ({p[1]} \X LandedDates(p[1], p[2])) IN
         /\ rawStaging' = [rawStaging EXCEPT ![lbatch][p[1]] =
               [d \in Dates |-> IF d \in LandedDates(p[1], p[2]) THEN f ELSE @[d]]]
         /\ ltodo' = IF left = {} THEN LandedPairs(lbatch) ELSE left
         /\ lpc' = IF left = {} THEN "load" ELSE "fetch"
    /\ UNCHANGED <<canonical, evidence, staging, coverage, report, manifest, lbatch, lblocked,
                   lrows, lexisting, goal20, goal22, bounds>>

\* ProviderFetchError ends the fetch but not the run: old staging is still loaded and reported.
LandingFetchFails ==
    /\ lpc = "fetch" /\ Fault
    /\ lpc' = "load" /\ lblocked' = TRUE /\ ltodo' = LandedPairs(lbatch)
    /\ UNCHANGED <<store, lbatch, lrows, lexisting, goal20, goal22, lands, edits>>

\* daily_basic must cover the codes; a financial history only must not be empty.
Landable(ds, f) == /\ f # None
                   /\ IF ds = "daily_basic" THEN Covers(f, ScopeOf[lbatch])
                      ELSE \E c \in ScopeOf[lbatch] : f[c] # 0

\* With --apply and nothing blocked the rows are upserted; else there is only a report.
LoadLanding ==
    /\ lpc = "load"
    /\ \/ EndLanding
       \/ /\ ~lblocked /\ \A p \in ltodo : Landable(p[1], rawStaging[lbatch][p[1]][p[2]])
          /\ lpc' = "read"
          /\ lrows' = [ds \in Datasets |-> [d \in Dates |->
                IF <<ds, d>> \in ltodo THEN Scoped(rawStaging[lbatch][ds][d], ScopeOf[lbatch])
                                       ELSE None]]
          /\ UNCHANGED <<lbatch, ltodo, lblocked, lexisting>>
    /\ UNCHANGED <<store, goal20, goal22, bounds>>

ReadForLanding ==
    /\ lpc = "read"
    /\ \E p \in FirstOfDate(ltodo) : lpc' = "write" /\ lexisting' = canonical[p[1]][p[2]]
    /\ UNCHANGED <<store, lbatch, ltodo, lblocked, lrows, goal20, goal22, bounds>>

WriteLanding ==
    /\ lpc = "write"
    /\ \E p \in FirstOfDate(ltodo) :
         /\ canonical' = [canonical EXCEPT ![p[1]][p[2]] = Upsert(lexisting, lrows[p[1]][p[2]])]
         /\ IF ltodo = {p} THEN EndLanding
            ELSE /\ ltodo' = ltodo \ {p} /\ lpc' = "read" /\ lexisting' = None
                 /\ UNCHANGED <<lbatch, lblocked, lrows>>
    /\ UNCHANGED <<evidence, staging, coverage, report, manifest, rawStaging, goal20, goal22,
                   bounds>>

\* Nothing is caught here: a read or write that raises ends the process like a crash does,
\* with the earlier partitions written and perhaps the one at hand.
LandingDies ==
    /\ lpc # "idle" /\ Fault /\ EndLanding
    /\ UNCHANGED <<store, goal20, goal22, lands, edits>>

-----------------------------------------------------------------------------
(* Goal 20: fetch, audit, promote, read back, and the receipt. *)

BatchPairs(b, S) == S \X DatesOf[b]

\* An empty st_history: coverage proof, staging and upstream evidence are opened again, one after
\* the other.
ClearHistory(r, b) ==
    /\ "st_history" \in Datasets
    /\ \A d \in DatesOf[b] : Scoped(r.versions["st_history"][d], ScopeOf[b]) = Empty
Shows(b, part) ==
    CASE part = "coverage" -> b \in coverage
      [] part = "staging"  -> \A d \in DatesOf[b] : staging[b]["st_history"][d] = Empty
      [] part = "evidence" -> \A d \in DatesOf[b] : Scoped(evidence["st_history"][d], ScopeOf[b]) = Empty
Proof == {"coverage", "staging", "evidence"}
PartAfter(part) == CASE part = "coverage" -> {"staging"} [] part = "staging" -> {"evidence"} [] OTHER -> {}

Bound(b) == report[b] # None /\ manifest[b] = report[b].id

\* A receipt that the gate and the reader would still take.
Ready(b) ==
    /\ Bound(b) /\ report[b].ready
    /\ ClearHistory(report[b], b) => \A part \in Proof : Shows(b, part)
    /\ \A p \in BatchPairs(b, Datasets) : report[b].versions[p[1]][p[2]] = canonical[p[1]][p[2]]

\* A name that no artifact and no reader knows.
FreshRun == CHOOSE r \in RunIds : \A b \in Batches :
    /\ report[b] # None => report[b].id # r
    /\ receipts[b] # None => receipts[b].id # r
    /\ manifest[b] # r

\* The command with any of its flags; only repeating it as is, while not ready, is not bounded.
StartAudit(b, provider, reu, apl) ==
    /\ pc = "idle"
    /\ IF provider \/ ~reu \/ ~apl \/ Ready(b) THEN Edit ELSE UNCHANGED edits
    /\ batch' = b /\ run' = FreshRun /\ reuse' = reu /\ apply' = apl
    /\ pc' = IF provider THEN "fetch" ELSE "audit"
    /\ todo' = BatchPairs(b, IF provider THEN Fetched ELSE Datasets)
    /\ UNCHANGED <<store, goal18, frames, refused, existing, versions, goal22, lands, faults>>

EndAudit ==
    /\ pc' = "idle" /\ batch' = None /\ run' = None /\ reuse' = FALSE /\ apply' = FALSE /\ todo' = {}
    /\ frames' = Unset /\ refused' = {} /\ existing' = None /\ versions' = Unset

\* Done with one partition of a loop: go on with it, or with the next phase over S.
Advance(p, phase, next, S) ==
    /\ todo' = IF todo = {p} THEN BatchPairs(batch, S) ELSE todo \ {p}
    /\ pc' = IF todo = {p} THEN next ELSE phase

\* An answer is validated before it is written.
FetchStaging ==
    /\ pc = "fetch"
    /\ \E p \in FirstOfDate(todo), f \in Answers :
         /\ Covers(f, Scope(batch, p[1]))
         /\ staging' = [staging EXCEPT ![batch][p[1]][p[2]] = Scoped(f, Scope(batch, p[1]))]
         /\ Advance(p, "fetch", "audit", Datasets)
    /\ UNCHANGED <<canonical, evidence, coverage, report, manifest, rawStaging, goal18, batch,
                   run, reuse, apply, frames, refused, existing, versions, goal22, bounds>>

\* Provider absent, answer invalid, write raised: older staging stays, the input is refused.
FetchStagingFails ==
    /\ pc = "fetch" /\ Fault
    /\ \E p \in FirstOfDate(todo) :
         refused' = refused \cup {p[1]} /\ Advance(p, "fetch", "audit", Datasets)
    /\ UNCHANGED <<store, goal18, batch, run, reuse, apply, frames, existing, versions, goal22,
                   lands, edits>>

\* Where an input is looked for; a source that is found and wrong is not passed over.
UsesGoal13(b, ds, d, reu) ==
    ds = "adj_factor" /\ staging[b][ds][d] = None /\ reu /\ Goal13[b] # None

Source(b, ds, d, reu) ==
    CASE ds \in Audited -> canonical[ds][d]
      [] ds \in Promoted /\ staging[b][ds][d] # None -> staging[b][ds][d]
      [] UsesGoal13(b, ds, d, reu) -> Goal13[b].rows
      [] ds \in Fetched /\ staging[b][ds][d] = None /\ ~UsesGoal13(b, ds, d, reu) -> canonical[ds][d]
      [] OTHER -> Empty

\* An empty history needs its coverage proof, another one rows of the scope, and the history of
\* the scope is what the upstream objects it names hold.
NeedsProof(ds, held) == ds = "st_history" /\ held = Empty
FitRows(b, ds, held) ==
    /\ held # None
    /\ ds = "stock_basic" => Covers(held, ScopeOf[b])
    /\ NeedsProof(ds, held) \/ \E c \in ScopeOf[b] : held[c] # 0
Evidenced(b, ds, d, held) == Scoped(held, ScopeOf[b]) = Scoped(evidence[ds][d], ScopeOf[b])

FitHistory(b, ds, d, held) ==
    /\ FitRows(b, ds, held)
    /\ NeedsProof(ds, held) => b \in coverage
    /\ Evidenced(b, ds, d, held)

FitInput(b, ds, d, reu) ==
    IF ds \in Supplied THEN FitHistory(b, ds, d, staging[b][ds][d])
    ELSE /\ Covers(Source(b, ds, d, reu), Scope(b, ds))
         /\ UsesGoal13(b, ds, d, reu) => Goal13[b].proven

\* A history is read, then the coverage proof of an empty one, then the upstream evidence.
ReadHistory ==
    /\ pc = "audit"
    /\ \E p \in FirstBy(AuditRank, todo) :
         LET held == staging[batch][p[1]][p[2]] IN
         /\ p[1] \in Supplied
         /\ IF FitRows(batch, p[1], held)
            THEN /\ existing' = held /\ pc' = IF NeedsProof(p[1], held) THEN "cover" ELSE "trace"
                 /\ UNCHANGED <<todo, refused>>
            ELSE /\ refused' = refused \cup {p[1]} /\ todo' = todo \ {p}
                 /\ UNCHANGED <<pc, existing>>
    /\ UNCHANGED <<store, goal18, batch, run, reuse, apply, frames, versions, goal22, bounds>>

ReadCoverage ==
    /\ pc = "cover"
    /\ \E p \in FirstBy(AuditRank, todo) :
         IF batch \in coverage
         THEN pc' = "trace" /\ UNCHANGED <<todo, refused, existing>>
         ELSE /\ refused' = refused \cup {p[1]} /\ todo' = todo \ {p}
              /\ pc' = "audit" /\ existing' = None
    /\ UNCHANGED <<store, goal18, batch, run, reuse, apply, frames, versions, goal22, bounds>>

TraceHistory ==
    /\ pc = "trace"
    /\ \E p \in FirstBy(AuditRank, todo) :
         /\ todo' = todo \ {p}
         /\ IF Evidenced(batch, p[1], p[2], existing)
            THEN /\ frames' = [frames EXCEPT ![p[1]][p[2]] = Scoped(existing, ScopeOf[batch])]
                 /\ UNCHANGED refused
            ELSE refused' = refused \cup {p[1]} /\ UNCHANGED frames
    /\ pc' = "audit" /\ existing' = None
    /\ UNCHANGED <<store, goal18, batch, run, reuse, apply, versions, goal22, bounds>>

AuditInput ==
    /\ pc = "audit"
    /\ \E p \in FirstBy(AuditRank, todo) :
         /\ p[1] \notin Supplied
         /\ todo' = todo \ {p}
         /\ IF FitInput(batch, p[1], p[2], reuse)
            THEN /\ frames' = [frames EXCEPT ![p[1]][p[2]] =
                      Scoped(Source(batch, p[1], p[2], reuse), Scope(batch, p[1]))]
                 /\ UNCHANGED refused
            ELSE refused' = refused \cup {p[1]} /\ UNCHANGED frames
    /\ UNCHANGED <<store, goal18, pc, batch, run, reuse, apply, existing, versions, goal22, bounds>>

AuditFails ==
    /\ pc \in {"audit", "cover", "trace"} /\ Fault
    /\ \E p \in FirstBy(AuditRank, todo) : refused' = refused \cup {p[1]} /\ todo' = todo \ {p}
    /\ pc' = "audit" /\ existing' = None
    /\ UNCHANGED <<store, goal18, batch, run, reuse, apply, frames, versions, goal22, lands, edits>>

\* No canonical write before every input has passed; no read-back either.
Decide ==
    /\ pc = "audit" /\ todo = {}
    /\ IF refused # {} THEN pc' = "report" /\ UNCHANGED todo
       ELSE IF apply THEN pc' = "read" /\ todo' = BatchPairs(batch, Promoted)
       ELSE pc' = "verify" /\ todo' = BatchPairs(batch, Datasets)
    /\ UNCHANGED <<store, goal18, batch, run, reuse, apply, frames, refused, existing, versions, goal22,
                   bounds>>

ReadForPromotion ==
    /\ pc = "read"
    /\ \E p \in FirstBy(ReadBackRank, todo) : existing' = canonical[p[1]][p[2]]
    /\ pc' = "write"
    /\ UNCHANGED <<store, goal18, batch, run, reuse, apply, todo, frames, refused, versions, goal22,
                   bounds>>

\* After the last write everything is read back.
WritePromotion ==
    /\ pc = "write"
    /\ \E p \in FirstBy(ReadBackRank, todo) :
         /\ canonical' = [canonical EXCEPT ![p[1]][p[2]] = Upsert(existing, frames[p[1]][p[2]])]
         /\ Advance(p, "read", "verify", Datasets)
    /\ existing' = None
    /\ UNCHANGED <<evidence, staging, coverage, report, manifest, rawStaging, goal18, batch, run, reuse,
                   apply, frames, refused, versions, goal22, bounds>>

\* The first read or write that raises ends the promotion; earlier partitions stay written.
PromotionFails ==
    /\ pc \in {"read", "write"} /\ Fault
    /\ \E p \in FirstBy(ReadBackRank, todo) :
         /\ refused' = {p[1]}
         /\ \/ UNCHANGED canonical
            \/ /\ pc = "write"
               /\ canonical' = [canonical EXCEPT ![p[1]][p[2]] = Upsert(existing, frames[p[1]][p[2]])]
    /\ pc' = "report" /\ todo' = {} /\ existing' = None
    /\ UNCHANGED <<evidence, staging, coverage, report, manifest, rawStaging, goal18, batch, run, reuse,
                   apply, frames, versions, goal22, lands, edits>>

\* _assert_scope_equal: the partition holds the audited rows of the scope and no others.
ReadsBack(p) == Scoped(canonical[p[1]][p[2]], Scope(batch, p[1])) = frames[p[1]][p[2]]

VerifyInput ==
    /\ pc = "verify"
    /\ \E p \in FirstBy(ReadBackRank, todo) :
         /\ IF ReadsBack(p)
            THEN /\ versions' = [versions EXCEPT ![p[1]][p[2]] = canonical[p[1]][p[2]]]
                 /\ UNCHANGED refused
            ELSE refused' = refused \cup {p[1]} /\ UNCHANGED versions
         /\ Advance(p, "verify", "report", {})
    /\ UNCHANGED <<store, goal18, batch, run, reuse, apply, frames, existing, goal22, bounds>>

\* generated_at sets the reports of two processes apart, whatever else they say.
WriteReport ==
    /\ pc = "report"
    /\ report' = [report EXCEPT ![batch] =
          [id |-> run, ready |-> refused = {}, versions |-> versions, audited |-> frames]]
    /\ pc' = "manifest"
    /\ UNCHANGED <<canonical, evidence, staging, coverage, manifest, rawStaging, goal18, batch, run, reuse,
                   apply, todo, frames, refused, existing, versions, goal22, bounds>>

\* Mutant: an existing manifest is kept.
MutantWriteManifest ==
    /\ pc = "manifest"
    /\ manifest' = IF manifest[batch] = None THEN [manifest EXCEPT ![batch] = run] ELSE manifest
    /\ EndAudit
    /\ UNCHANGED <<canonical, evidence, staging, coverage, report, rawStaging, goal18, goal22,
                   bounds>>

WriteManifest ==
    /\ pc = "manifest"
    /\ manifest' = [manifest EXCEPT ![batch] = run]
    /\ EndAudit
    /\ UNCHANGED <<canonical, evidence, staging, coverage, report, rawStaging, goal18, goal22,
                   bounds>>

AuditDies ==
    /\ pc # "idle" /\ Fault /\ EndAudit
    /\ UNCHANGED <<store, goal18, goal22, lands, edits>>

-----------------------------------------------------------------------------
(* Goal 22: the receipts it is given, then the inputs of its dates. *)

\* A process for some receipts and dates; what it accepted before is what a rerun replaces.
StartReader(B, D) ==
    /\ gpc = "idle" /\ \E d \in D : accepted[d] = None
    /\ \A b \in B : report[b] # None
    /\ gpc' = "report" /\ asked' = D
    /\ gtodo' = {<<b, "report">> : b \in B}
    /\ receipts' = [b \in Batches |-> None] /\ rows' = Unset
    /\ UNCHANGED <<accepted, store, goal18, goal20, bounds>>

EndReader ==
    /\ gpc' = "idle" /\ gtodo' = {} /\ asked' = {}
    /\ receipts' = [b \in Batches |-> None] /\ rows' = Unset

\* Receipt by receipt: the report, then the manifest that must carry its checksum, then what
\* proves an empty history, an object a step.
ReadReceipt ==
    /\ gpc = "report"
    /\ \E item \in gtodo :
         LET b == item[1] IN
         /\ \A other \in gtodo : other[2] = "report" \/ other = item
         /\ \/ /\ item[2] = "report"
               /\ receipts' = [receipts EXCEPT ![b] = report[b]]
               /\ gtodo' = (gtodo \ {item}) \cup {<<b, "manifest">>}
               /\ UNCHANGED <<gpc, asked, rows>>
            \/ /\ item[2] = "manifest" /\ manifest[b] = receipts[b].id /\ receipts[b].ready
               /\ gtodo' = (gtodo \ {item}) \cup
                     (IF ClearHistory(receipts[b], b) THEN {<<b, "coverage">>} ELSE {})
               /\ UNCHANGED <<gpc, receipts, asked, rows>>
            \/ /\ item[2] \in Proof /\ Shows(b, item[2])
               /\ gtodo' = (gtodo \ {item}) \cup {<<b, part>> : part \in PartAfter(item[2])}
               /\ UNCHANGED <<gpc, receipts, asked, rows>>
            \/ /\ \/ item[2] = "manifest" /\ ~(manifest[b] = receipts[b].id /\ receipts[b].ready)
                  \/ item[2] \in Proof /\ ~Shows(b, item[2])
               /\ EndReader
    /\ UNCHANGED <<accepted, store, goal18, goal20, bounds>>

\* Receipts of one code scope that cover the dates, and agree where they overlap.
Given == {b \in Batches : receipts[b] # None}
Covering(d) == {b \in Given : d \in DatesOf[b]}
Agree ==
    /\ \A b \in Given : DatesOf[b] \cap asked # {}
    /\ \A a, b \in Given : ScopeOf[a] = ScopeOf[b]
    /\ \A d \in asked : Covering(d) # {}
    /\ \A d \in asked, ds \in Datasets : \A a, b \in Covering(d) :
          receipts[a].versions[ds][d] = receipts[b].versions[ds][d]

Trust ==
    /\ gpc = "report" /\ gtodo = {}
    /\ IF Agree THEN gpc' = "input" /\ gtodo' = Datasets \X asked /\ UNCHANGED <<receipts, asked, rows>>
                ELSE EndReader
    /\ UNCHANGED <<accepted, store, goal18, goal20, bounds>>

\* _Goal22CanonicalInputReader: the object must be the very version of the receipt.
Trusted(d) == CHOOSE b \in Covering(d) : TRUE
\* Mutant: the row counts are compared and the checksums are not.
MutantSameVersion(p) == \A c \in Codes :
    canonical[p[1]][p[2]][c] # 0 <=> receipts[Trusted(p[2])].versions[p[1]][p[2]][c] # 0

SameVersion(p) == canonical[p[1]][p[2]] = receipts[Trusted(p[2])].versions[p[1]][p[2]]

\* A date that reads another version is BLOCKED, the others go on.
ReadInput ==
    /\ gpc = "input"
    /\ \E p \in FirstOfDate(gtodo) :
         LET f == Scoped(canonical[p[1]][p[2]], Scope(Trusted(p[2]), p[1]))
             left == IF SameVersion(p) THEN gtodo \ {p} ELSE {q \in gtodo : q[2] # p[2]}
             whole == [ds \in Datasets |-> IF ds = p[1] THEN f ELSE rows[ds][p[2]]]
         IN /\ accepted' = IF SameVersion(p) /\ \A q \in left : q[2] # p[2]
                           THEN [accepted EXCEPT ![p[2]] = whole] ELSE accepted
            /\ IF left = {} THEN EndReader
               ELSE /\ gtodo' = left
                    /\ rows' = [rows EXCEPT ![p[1]][p[2]] = f]
                    /\ UNCHANGED <<gpc, receipts, asked>>
    /\ UNCHANGED <<store, goal18, goal20, bounds>>

ReaderDies ==
    /\ gpc # "idle" /\ Fault /\ EndReader
    /\ UNCHANGED <<accepted, store, goal18, goal20, lands, edits>>

-----------------------------------------------------------------------------
(* Everyone else. *)

\* Goal 17, Goal 21 or a daily update rewrites a row of a canonical partition.
RewriteCanonical ==
    /\ Edit
    /\ \E w \in Rewrites, d \in Dates :
         /\ canonical[w[1]][d][w[2]] # w[3]
         /\ canonical' = [canonical EXCEPT ![w[1]][d][w[2]] = w[3]]
    /\ UNCHANGED <<evidence, staging, coverage, report, manifest, rawStaging, goal18, goal20, goal22,
                   lands, faults>>

\* The intervals of a stock are the same objects for every date.
HistoryDates(ds, d) == IF ds = "st_history" THEN Dates ELSE {d}

\* Upstream history appears or is corrected: a row comes, changes or is withdrawn.
CorrectHistory ==
    /\ Edit
    /\ \E w \in Corrections, d \in Dates :
         /\ evidence[w[1]][d][w[2]] # w[3]
         /\ evidence' = [evidence EXCEPT ![w[1]] = [e \in Dates |->
               IF e \in HistoryDates(w[1], d) THEN [@[e] EXCEPT ![w[2]] = w[3]] ELSE @[e]]]
    /\ UNCHANGED <<canonical, staging, coverage, report, manifest, rawStaging, goal18, goal20, goal22,
                   lands, faults>>

\* Whoever prepares the history staging of a batch (nothing in src/ does) copies the evidence.
SupplyHistory(b) ==
    /\ \E ds \in Supplied, d \in DatesOf[b] :
         /\ staging[b][ds][d] # Scoped(evidence[ds][d], ScopeOf[b])
         /\ staging' = [staging EXCEPT ![b][ds] =
               [e \in Dates |-> IF e \in HistoryDates(ds, d) \cap DatesOf[b]
                                THEN Scoped(evidence[ds][e], ScopeOf[b]) ELSE @[e]]]
    /\ coverage' = coverage \cup {b}
    /\ UNCHANGED <<canonical, evidence, report, manifest, rawStaging, goal18, goal20, goal22, bounds>>

-----------------------------------------------------------------------------
LandingStep == FetchLanding \/ LoadLanding \/ ReadForLanding \/ WriteLanding
AuditStep ==
    \/ FetchStaging \/ AuditInput \/ ReadHistory \/ ReadCoverage \/ TraceHistory \/ Decide \/ ReadForPromotion \/ WritePromotion
    \/ VerifyInput \/ WriteReport \/ WriteManifest
ReaderStep == ReadReceipt \/ Trust \/ ReadInput

Next ==
    \/ \E b \in Batches, provider \in BOOLEAN : StartLanding(b, provider)
    \/ FetchLanding \/ LandingFetchFails \/ LoadLanding \/ ReadForLanding \/ WriteLanding \/ LandingDies
    \/ \E b \in Batches, provider, reu, apl \in BOOLEAN : StartAudit(b, provider, reu, apl)
    \/ FetchStaging \/ FetchStagingFails \/ AuditFails \/ Decide
    \/ AuditInput \/ ReadHistory \/ ReadCoverage \/ TraceHistory
    \/ ReadForPromotion \/ WritePromotion \/ PromotionFails \/ VerifyInput
    \/ WriteReport \/ WriteManifest \/ AuditDies
    \/ \E B \in (SUBSET Batches) \ {{}}, D \in (SUBSET Dates) \ {{}} : StartReader(B, D)
    \/ ReadReceipt \/ Trust \/ ReadInput \/ ReaderDies
    \/ RewriteCanonical \/ CorrectHistory \/ \E b \in Batches : SupplyHistory(b)

Spec == Init /\ [][Next]_vars

\* The operator repeats --apply for a batch until its receipt is taken, and Goal 22 with it.
FairSpec ==
    /\ Spec /\ WF_vars(AuditStep) /\ WF_vars(ReaderStep)
    /\ \A b \in Batches : /\ SF_vars(~Ready(b) /\ StartAudit(b, FALSE, TRUE, TRUE))
                         /\ SF_vars(Ready(b) /\ StartReader({b}, DatesOf[b]))

-----------------------------------------------------------------------------
(* Properties. *)

StoreOK ==
    /\ canonical \in Tables(Datasets, Frames) /\ evidence \in Tables(Supplied, Frames)
    /\ staging \in [Batches -> Tables(Promoted, OrNone(Frames))] /\ coverage \subseteq Batches
    /\ report \in [Batches -> OrNone(Receipts)] /\ manifest \in [Batches -> OrNone(RunIds)]
    /\ rawStaging \in [Batches -> Tables(Landed, OrNone(Frames))]

Goal18OK ==
    /\ lpc \in {"idle", "fetch", "load", "read", "write"} /\ lbatch \in OrNone(Batches)
    /\ ltodo \subseteq Pairs /\ lblocked \in BOOLEAN
    /\ lrows \in Tables(Datasets, OrNone(Frames)) /\ lexisting \in OrNone(Frames)

Goal20OK ==
    /\ pc \in {"idle", "fetch", "audit", "cover", "trace", "read", "write", "verify",
              "report", "manifest"}
    /\ batch \in OrNone(Batches) /\ run \in OrNone(RunIds) /\ reuse \in BOOLEAN /\ apply \in BOOLEAN
    /\ todo \subseteq Pairs /\ refused \subseteq Datasets
    /\ frames \in Tables(Datasets, OrNone(Frames)) /\ versions \in Tables(Datasets, OrNone(Frames))
    /\ existing \in OrNone(Frames)

Goal22OK ==
    /\ gpc \in {"idle", "report", "input"} /\ receipts \in [Batches -> OrNone(Receipts)]
    /\ asked \subseteq Dates
    /\ rows \in Tables(Datasets, OrNone(Frames))
    /\ accepted \in [Dates -> OrNone([Datasets -> OrNone(Frames)])]

BoundsOK == lands \in 0..MaxLands /\ edits \in 0..MaxEdits /\ faults \in 0..MaxFaults

TypeOK == StoreOK /\ Goal18OK /\ Goal20OK /\ Goal22OK /\ BoundsOK

\* What Goal 22 takes for a date is, input by input, what one Goal 20 process found fit and
\* complete for all audited codes, whoever rewrote the partitions between audit, promotion,
\* read-back, receipt and the reads of Goal 22.
AcceptedWasAudited == [][\A d \in Dates : accepted'[d] # accepted[d] =>
    \E b \in Batches :
        /\ receipts[b] # None /\ d \in DatesOf[b]
        /\ \A ds \in Datasets :
              /\ accepted'[d][ds] = receipts[b].audited[ds][d]
              /\ ds # "st_history" => Covers(accepted'[d][ds], Scope(b, ds))]_vars

\* An interval that upstream history no longer has stays in the partition, so that the
\* read-back never agrees with the audit again.
Withdrawn(b) == \E ds \in Supplied, d \in DatesOf[b], c \in ScopeOf[b] :
    canonical[ds][d][c] # 0 /\ evidence[ds][d][c] = 0

Sourced(b) == \A p \in BatchPairs(b, Datasets) : FitInput(b, p[1], p[2], TRUE)

\* Repeating Goal 20 --apply and Goal 22 gets the inputs of a batch accepted once they are
\* there, however earlier processes died or were overtaken, unless a row was withdrawn.
Converges == \A b \in Batches :
    <>[](\/ \A d \in DatesOf[b] : accepted[d] # None
         \/ ~Sourced(b) \/ Withdrawn(b))

=============================================================================
