---------------------------- MODULE PriceLanding ----------------------------
(***************************************************************************)
(* How daily prices of Tushare come into raw/daily_price: the candidate     *)
(* batch (Goal 13C), the promotion validator with its apply (Goals 14 and   *)
(* 15) and the command that runs both (Goal 17), for one batch id.          *)
(*                                                                          *)
(* A command asks several interfaces call by call, or finds the staging of  *)
(* earlier commands, joins them into candidate rows, writes a dozen          *)
(* artifacts one after the other, and promotes what the artifacts in the    *)
(* store say, which need not be the ones it wrote.  It may die anywhere, and *)
(* the vendor may correct its data between any two calls.  A value is told   *)
(* apart by the vintage of the vendor's data it was fetched at, 0 is none.   *)
(***************************************************************************)
EXTENDS Integers, FiniteSets, Sequences

CONSTANTS
    Codes, Dates,
    Interfaces,      \* those a row is joined from, "daily" first; daily_basic only counts for coverage
                     \* and is left out
    ByDate,          \* those that --coverage-expansion asks by date instead of by code
    MaxVintage,      \* bound: corrections at the vendor
    Quotes, Paused,  \* [1..MaxVintage -> keys with a row in each interface, keys with an event]
    Requests,        \* [codes, dates] of the commands
    Goal,            \* the request that is to be landed
    None, Other,     \* no value, a row of another writer
    MaxEdits,        \* bound: commands with other flags, rows written by others
    MaxFaults,       \* bound: gaps in an answer, raised calls, crashes
    MaxTroubles      \* bound: edits and faults taken together

Keys == Codes \X Dates
Vintages == 1..MaxVintage
Last == Len(Interfaces)
Daily == Interfaces[1]
Named == {Interfaces[i] : i \in 1..Last}

OrNone(S) == S \cup {None}
Frames == [Codes -> 0..MaxVintage]
Rows == [parts : [Named -> 0..MaxVintage], pause : {"paused", "trading", "unknown"}]
Tables == [Keys -> OrNone(Rows)]
Preflights == [codes : SUBSET Codes, dates : SUBSET Dates, ready : BOOLEAN]
Builds == [codes : SUBSET Codes, dates : SUBSET Dates, calendar : SUBSET Dates, rows : [Named -> [Dates -> Frames]],
           events : SUBSET Keys, candidate : Tables, preflight : OrNone(Preflights)]

\* run-tushare-daily-price-small-batch promotes, and always asks for the preflight and by date
\* where that is possible; the two older commands build only, or promote only, which is what
\* "load" does.
Commands ==
    [req : Requests, mode : {"provider", "reuse", "load"}, expand : {TRUE}, goal13c : {TRUE},
     promote : {TRUE}, apply : BOOLEAN] \cup
    [req : Requests, mode : {"provider"}, expand : BOOLEAN, goal13c : BOOLEAN,
     promote : {FALSE}, apply : {FALSE}] \cup
    [req : Requests, mode : {"reuse"}, expand : {FALSE}, goal13c : BOOLEAN,
     promote : {FALSE}, apply : {FALSE}]

\* A call asks interface number "of", or suspend_d if that is 0, for some codes and dates.
CallTypes == [of : 0..Last, codes : SUBSET Codes, dates : SUBSET Dates]

\* What a fetch has in memory: the vintage it began at, the calls it has yet to make, the rows and
\* events it got, and the dates whose event call raised.
Answers == [since : Vintages, calls : SUBSET CallTypes, rows : [Named -> [Dates -> Frames]],
            events : SUBSET Keys, failed : SUBSET Dates]

ASSUME PriceLandingAssumption ==
    /\ Dates \subseteq Nat /\ IsFiniteSet(Keys)
    /\ Interfaces \in Seq(STRING) /\ Last > 0
    /\ \A i, j \in 1..Last : Interfaces[i] = Interfaces[j] => i = j
    /\ ByDate \subseteq Named \ {Daily}
    /\ Quotes \in [Vintages -> SUBSET Keys] /\ Paused \in [Vintages -> SUBSET Keys]
    /\ Requests \subseteq [codes : (SUBSET Codes) \ {{}}, dates : (SUBSET Dates) \ {{}}]
    /\ Goal \in Requests
    /\ {MaxVintage, MaxEdits, MaxFaults, MaxTroubles} \subseteq Nat /\ MaxVintage > 0
    /\ None \notin Commands /\ None \notin Builds /\ None \notin Answers

VARIABLES
    vendor,      \* the vintage the vendor answers with
    fetches,     \* history that no step reads: <<first, last>> vintage of each accepted fetch
    staged,      \* [Named -> [Dates -> [Codes -> vintage] or None]], the *_staging objects
    calendar,    \* the open dates of trade_cal_staging, or None
    events,      \* the keys of suspend_d_staging, or None
    candidate,   \* daily_price_candidate_batch: [Keys -> row or None], or None
    suspension,  \* suspension_status_candidate_batch is there
    preflight,   \* promotion_preflight_report: [codes, dates, ready], or None
    manifest,    \* batch_manifest: [codes, dates], or None
    canonical,   \* raw/daily_price: [Dates -> [Codes -> row, Other or None]]
    pc, cmd, blocked, answer, held, todo, merged, \* the command that runs
    verdict,     \* the last command that ended and whether it passed with no blocked reason, or None
    edits, faults

artifacts == <<staged, calendar, events, candidate, suspension, preflight, manifest>>
process == <<pc, cmd, blocked, answer, held, todo, merged, verdict>>
bounds == <<edits, faults>>
market == <<vendor, fetches>>
vars == <<market, artifacts, canonical, process, bounds>>

Init ==
    /\ vendor = 1 /\ fetches = {}
    /\ staged = [i \in Named |-> [d \in Dates |-> None]]
    /\ calendar = None /\ events = None /\ candidate = None /\ suspension = FALSE
    /\ preflight = None /\ manifest = None
    /\ canonical = [d \in Dates |-> [c \in Codes |-> None]]
    /\ pc = "idle" /\ cmd = None /\ blocked = FALSE /\ answer = None /\ held = None /\ todo = {}
    /\ merged = [d \in Dates |-> None] /\ verdict = None
    /\ edits = 0 /\ faults = 0

-----------------------------------------------------------------------------
(* What a command computes. *)

Scope(req) == req.codes \X req.dates
Quiet == UNCHANGED faults
Fault == faults < MaxFaults /\ edits + faults < MaxTroubles /\ faults' = faults + 1
Edit == edits < MaxEdits /\ edits + faults < MaxTroubles /\ edits' = edits + 1
First(S) == {p \in S : \A q \in S : p[1] < q[1] \/ (p[1] = q[1] /\ p[2] <= q[2])}

\* _build_daily_price_candidate_batch: a row per row of the daily interface, the others joined
\* to it.  No event means not paused only on the dates where the event set is known to be whole.
\* Mutant: a miss is taken for no event on every date.
MutantCandidate(rows, ev, certain) == [k \in Keys |->
    IF rows[Daily][k[2]][k[1]] = 0 THEN None
    ELSE [parts |-> [i \in Named |-> rows[i][k[2]][k[1]]],
          pause |-> IF k \in ev THEN "paused" ELSE "trading"]]

Candidate(rows, ev, certain) == [k \in Keys |->
    IF rows[Daily][k[2]][k[1]] = 0 THEN None
    ELSE [parts |-> [i \in Named |-> rows[i][k[2]][k[1]]],
          pause |-> IF k \in ev THEN "paused" ELSE IF k[2] \in certain THEN "trading" ELSE "unknown"]]

Whole(row) == row # None /\ row.pause # "unknown" /\ \A i \in Named : row.parts[i] # 0

\* The dates whose events are known to be all there: the calls of this very build say so.
CertainDates(dates, failed) == IF cmd.goal13c THEN dates \ failed ELSE {}

\* Each price interface has a row for every key.
Covered(codes, dates, rows) ==
    \A i \in Named, c \in codes, d \in dates : rows[i][d][c] # 0

\* _build_promotion_preflight_report: every key covered, the events of every date known, and
\* no row with an unknown pause.
Preflight(codes, dates, rows, cand, certain) ==
    [codes |-> codes, dates |-> dates,
     ready |-> /\ Covered(codes, dates, rows) /\ dates \subseteq certain
               /\ \A k \in Keys : cand[k] # None => cand[k].pause # "unknown"]

\* The artifacts of a build; without --goal13c-preflight there is no preflight report.
Built(codes, dates, cal, rows, ev, certain) ==
    LET cand == Candidate(rows, ev, certain) IN
    [codes |-> codes, dates |-> dates, calendar |-> cal, rows |-> rows, events |-> ev, candidate |-> cand,
     preflight |-> IF cmd.goal13c THEN Preflight(codes, dates, rows, cand, certain) ELSE None]

\* They are written in this order: staging by interface and date, trade_cal, suspend_d, both
\* candidates, the preflight report, the manifest.
Items(build) ==
    ((1..Last) \X build.dates) \cup
    {<<Last + n, 0>> : n \in IF build.preflight = None THEN (1..6) \ {5} ELSE 1..6}

-----------------------------------------------------------------------------
(* The commands. *)

Landing == [req |-> Goal, mode |-> "provider", expand |-> TRUE, goal13c |-> TRUE, promote |-> TRUE,
            apply |-> TRUE]

\* The calls of a fetch: an interface is asked by code over all dates, or by date; the events by
\* date with --goal13c-preflight, else once for all dates and whoever is listed.
ByDateCall(c, i) == c.expand /\ Interfaces[i] \in ByDate

RowCalls(c, i) ==
    IF ByDateCall(c, i) THEN {[of |-> i, codes |-> c.req.codes, dates |-> {d}] : d \in c.req.dates}
                        ELSE {[of |-> i, codes |-> {k}, dates |-> c.req.dates] : k \in c.req.codes}

EventCalls(c) ==
    IF c.goal13c THEN {[of |-> 0, codes |-> Codes, dates |-> {d}] : d \in c.req.dates}
                 ELSE {[of |-> 0, codes |-> Codes, dates |-> c.req.dates]}

Calls(c) == EventCalls(c) \cup UNION {RowCalls(c, i) : i \in 1..Last}

\* Mutant: the events are asked before anything by date.
MutantTurn(call) == IF call.of # 0 /\ ByDateCall(cmd, call.of) THEN Last + call.of ELSE call.of

\* The calls by code come first, then those by date, then the events, those by date in the order
\* of the dates.  The order of the codes is left open.
Turn(call) ==
    IF call.of = 0 THEN 2 * Last + 1
    ELSE IF ByDateCall(cmd, call.of) THEN Last + call.of ELSE call.of
Due == {call \in answer.calls : \A other \in answer.calls :
    /\ Turn(call) <= Turn(other)
    /\ Turn(call) = Turn(other) => \A d \in call.dates : \E e \in other.dates : d <= e}

NoAnswer(c) ==
    [since |-> vendor, calls |-> Calls(c),
     rows |-> [i \in Named |-> [d \in Dates |-> [k \in Codes |-> 0]]],
     events |-> {}, failed |-> {}]

Start(c) ==
    /\ pc = "idle"
    /\ IF c = Landing /\ verdict # [cmd |-> Landing, clean |-> TRUE] THEN UNCHANGED edits ELSE Edit
    /\ cmd' = c /\ verdict' = None
    /\ pc' = IF c.mode = "provider" THEN "fetch" ELSE IF c.promote THEN "load" ELSE "rebuild"
    /\ answer' = IF c.mode = "provider" THEN NoAnswer(c) ELSE None
    /\ UNCHANGED <<market, artifacts, canonical, blocked, held, todo, merged, faults>>

\* Mutant: a command leaves its frames to the next one.
MutantEnd(clean) ==
    /\ pc' = "idle" /\ cmd' = None /\ blocked' = FALSE /\ answer' = None /\ held' = held /\ todo' = {}
    /\ merged' = [d \in Dates |-> None]
    /\ verdict' = [cmd |-> cmd, clean |-> clean]

End(clean) ==
    /\ pc' = "idle" /\ cmd' = None /\ blocked' = FALSE /\ answer' = None /\ held' = None /\ todo' = {}
    /\ merged' = [d \in Dates |-> None]
    /\ verdict' = [cmd |-> cmd, clean |-> clean]

\* Mutant: a refused build leaves no blocked reason.
MutantBuildRefused ==
    IF cmd.promote THEN /\ pc' = "load" /\ answer' = None
                        /\ UNCHANGED <<cmd, blocked, held, todo, merged, verdict>>
                   ELSE End(FALSE)

\* A build that is refused writes nothing; Goal 17 goes on with the artifacts that are there.
BuildRefused ==
    IF cmd.promote THEN /\ pc' = "load" /\ blocked' = TRUE /\ answer' = None
                        /\ UNCHANGED <<cmd, held, todo, merged, verdict>>
                   ELSE End(FALSE)

BuildAccepted(build) ==
    /\ pc' = "write" /\ answer' = None /\ held' = build /\ todo' = Items(build)
    /\ UNCHANGED <<cmd, blocked, merged, verdict>>

\* The answer of one call is of the vintage the vendor has at that moment; a row may be missing.
RowsHeard(call, lost) ==
    [answer EXCEPT !.calls = @ \ {call},
                   !.rows[Interfaces[call.of]] = [d \in Dates |-> [c \in Codes |->
                       IF c \notin call.codes \/ d \notin call.dates THEN @[d][c]
                       ELSE IF <<c, d>> \in Quotes[vendor] \ lost THEN vendor ELSE 0]]]

EventsHeard(call) ==
    [answer EXCEPT !.calls = @ \ {call},
                   !.events = @ \cup {k \in Paused[vendor] : k[2] \in call.dates}]

EventsMissed(call) ==
    [answer EXCEPT !.calls = @ \ {call}, !.failed = @ \cup call.dates]

\* An interface asked by code that has no row at all is fatal; one asked by date has the rows of
\* the whole market.
Empty(rows) == \E i \in 1..Last :
    ~ByDateCall(cmd, i) /\ \A d \in Dates, c \in Codes : rows[Interfaces[i]][d][c] = 0

FetchBuilds(got) ==
    Built(cmd.req.codes, cmd.req.dates, cmd.req.dates, got.rows, got.events,
          CertainDates(cmd.req.dates, got.failed))

\* After the last answer the build begins.
Heard(got) ==
    IF got.calls # {}
    THEN answer' = got /\ UNCHANGED <<fetches, pc, cmd, blocked, held, todo, merged, verdict>>
    ELSE IF Empty(got.rows) THEN BuildRefused /\ UNCHANGED fetches
    ELSE /\ BuildAccepted(FetchBuilds(got))
         /\ fetches' = fetches \cup {<<got.since, vendor>>}

\* _fetch_provider_frames, one call a step: it sleeps between them.
FetchRows ==
    /\ pc = "fetch"
    /\ \E call \in Due : \E lost \in {{}} \cup {{k} : k \in call.codes \X call.dates} :
         /\ call.of # 0
         /\ IF lost = {} THEN Quiet ELSE Fault
         /\ Heard(RowsHeard(call, lost))
    /\ UNCHANGED <<vendor, artifacts, canonical, edits>>

\* All pages of suspend_d for a date count as one answer.
FetchEvents ==
    /\ pc = "fetch"
    /\ \E call \in Due : call.of = 0 /\ Heard(EventsHeard(call))
    /\ UNCHANGED <<vendor, artifacts, canonical, bounds>>

\* The event call of a date may raise without more ado, but only with the preflight.
MissEvents ==
    /\ pc = "fetch" /\ cmd.goal13c /\ Fault
    /\ \E call \in Due : call.of = 0 /\ Heard(EventsMissed(call))
    /\ UNCHANGED <<vendor, artifacts, canonical, edits>>

\* Any other call that raises, or an interface with no row of anyone, refuses the build; what is
\* asked after it is of no use.
FetchFails ==
    /\ pc = "fetch" /\ Fault
    /\ BuildRefused
    /\ UNCHANGED <<market, artifacts, canonical, edits>>

\* _load_reused_staging_frames: every object must be there.  Nothing says any more what the
\* event calls covered, so that a miss proves nothing and the preflight is never ready.  The
\* calendar is written back as it was, whatever the range of the command.
Rebuild ==
    /\ pc = "rebuild"
    /\ LET dates == IF calendar = None THEN {} ELSE calendar \cap cmd.req.dates
           found == /\ dates # {} /\ events # None
                    /\ \A i \in Named, d \in dates : staged[i][d] # None
           rows == [i \in Named |-> [d \in Dates |-> [c \in Codes |->
               IF c \in cmd.req.codes /\ d \in dates THEN staged[i][d][c] ELSE 0]]]
       IN IF found THEN BuildAccepted(Built(cmd.req.codes, dates, calendar, rows,
                                            {k \in events : k[2] \in dates},
                                            CertainDates(dates, dates)))
                   ELSE BuildRefused
    /\ UNCHANGED <<market, artifacts, canonical, bounds>>

\* The one object of the store that an item is.
WriteItem(item) ==
    LET n == item[1] - Last IN
    /\ staged' = IF n > 0 THEN staged
                 ELSE [staged EXCEPT ![Interfaces[item[1]]][item[2]] =
                           held.rows[Interfaces[item[1]]][item[2]]]
    /\ calendar' = IF n = 1 THEN held.calendar ELSE calendar
    /\ events' = IF n = 2 THEN held.events ELSE events
    /\ candidate' = IF n = 3 THEN held.candidate ELSE candidate
    /\ suspension' = (n = 4 \/ suspension)
    /\ preflight' = IF n = 5 THEN held.preflight ELSE preflight
    /\ manifest' = IF n = 6 THEN [codes |-> held.codes, dates |-> held.dates] ELSE manifest

WriteArtifact ==
    /\ pc = "write"
    /\ \E item \in First(todo) :
         /\ WriteItem(item)
         /\ IF todo # {item}
            THEN todo' = todo \ {item} /\ UNCHANGED <<pc, cmd, blocked, answer, held, merged, verdict>>
            ELSE IF cmd.promote THEN /\ todo' = {} /\ held' = None /\ pc' = "load"
                                     /\ UNCHANGED <<cmd, blocked, answer, merged, verdict>>
            ELSE End(TRUE)
    /\ UNCHANGED <<market, canonical, bounds>>

-----------------------------------------------------------------------------
(* Promotion. *)

\* The filters of the apply scope on preflight report and candidate.
InScope(req) == {k \in Scope(req) : candidate[k] # None}

\* The candidate rows are as many as the report has keys in the scope, and on its dates.
AsReported(codes, dates, rows) ==
    /\ dates # {} => \A k \in rows : k[2] \in dates
    /\ (codes # {} /\ dates # {}) => Cardinality(rows) = Cardinality(codes) * Cardinality(dates)

\* The validator: a ready preflight report, and candidate rows that are whole and as reported.
\* It does not ask whether report and candidate are of one build, nor whether the report has
\* all that was requested.
Validates(req) ==
    LET rows == InScope(req) IN
    /\ preflight.ready
    /\ rows # {} /\ \A k \in rows : Whole(candidate[k])
    /\ AsReported(preflight.codes \cap req.codes, preflight.dates \cap req.dates, rows)

Load ==
    /\ pc = "load"
    /\ LET present == preflight # None /\ candidate # None /\ suspension IN
       IF ~present
       THEN IF cmd.mode = "reuse" /\ ~blocked
            THEN pc' = "rebuild" /\ UNCHANGED <<cmd, blocked, answer, held, todo, merged, verdict>>
            ELSE End(FALSE)
       ELSE IF ~Validates(cmd.req) THEN End(FALSE)
       ELSE IF ~cmd.apply THEN End(~blocked)
       ELSE /\ pc' = "read" /\ todo' = {<<k[2], 0>> : k \in InScope(cmd.req)}
            /\ UNCHANGED <<cmd, blocked, answer, held, merged, verdict>>
    /\ UNCHANGED <<market, artifacts, canonical, bounds>>

\* _merge_canonical_daily_price: candidate rows win by key, other rows stay.
Merge(old, d) == [c \in Codes |-> IF <<c, d>> \in InScope(cmd.req) THEN candidate[<<c, d>>] ELSE old[c]]

\* All partitions are read and merged before the first is written.
ReadCanonical ==
    /\ pc = "read"
    /\ \E item \in First(todo) :
         LET d == item[1]  left == todo \ {item} IN
         /\ merged' = [merged EXCEPT ![d] = Merge(canonical[d], d)]
         /\ todo' = IF left = {} THEN {<<e, 0>> : e \in {e \in Dates : merged'[e] # None}} ELSE left
         /\ pc' = IF left = {} THEN "apply" ELSE "read"
    /\ UNCHANGED <<market, artifacts, canonical, cmd, blocked, answer, held, verdict, bounds>>

WriteCanonical ==
    /\ pc = "apply"
    /\ \E item \in First(todo) :
         /\ canonical' = [canonical EXCEPT ![item[1]] = merged[item[1]]]
         /\ todo' = todo \ {item}
         /\ pc' = IF todo = {item} THEN "check" ELSE "apply"
    /\ UNCHANGED <<market, artifacts, cmd, blocked, answer, held, merged, verdict, bounds>>

\* _verify_standard_daily_price_read_back looks at keys and row counts, not at values.
KeysOf(f) == {c \in Codes : f[c] # None}
ReadBack ==
    /\ pc = "check"
    /\ LET written == {d \in Dates : merged[d] # None} IN
       End(/\ ~blocked
           /\ \A d \in written : Cardinality(KeysOf(canonical[d])) = Cardinality(KeysOf(merged[d]))
           /\ \A k \in InScope(cmd.req) : canonical[k[2]][k[1]] # None)
    /\ UNCHANGED <<market, artifacts, canonical, bounds>>

\* Nothing is caught: a call to the store that raises ends a command as a crash does.
Dies ==
    /\ pc # "idle" /\ Fault
    /\ End(FALSE)
    /\ UNCHANGED <<market, artifacts, canonical, edits>>

-----------------------------------------------------------------------------
(* Everyone else. *)

\* The vendor corrects its data.
Correct ==
    /\ vendor < MaxVintage /\ vendor' = vendor + 1
    /\ UNCHANGED <<fetches, artifacts, canonical, process, bounds>>

\* Another writer of the partition (Goal 21, a daily update) puts a row of its own.
OtherWrites ==
    /\ Edit
    /\ \E k \in Keys : /\ canonical[k[2]][k[1]] # Other
                       /\ canonical' = [canonical EXCEPT ![k[2]][k[1]] = Other]
    /\ UNCHANGED <<market, artifacts, process, faults>>

-----------------------------------------------------------------------------
Step == \/ FetchRows \/ FetchEvents \/ MissEvents \/ FetchFails
        \/ Rebuild \/ WriteArtifact \/ Load \/ ReadCanonical \/ WriteCanonical \/ ReadBack

Next == \/ \E c \in Commands : Start(c)
        \/ FetchRows \/ FetchEvents \/ MissEvents \/ FetchFails
        \/ Rebuild \/ WriteArtifact \/ Load \/ ReadCanonical \/ WriteCanonical \/ ReadBack
        \/ Dies \/ Correct \/ OtherWrites

Spec == Init /\ [][Next]_vars

\* Commands go on until they end, and the operator repeats the landing until it passes with no
\* blocked reason.
FairSpec == Spec /\ WF_vars(Step) /\ SF_vars(Start(Landing))

-----------------------------------------------------------------------------
(* Properties. *)

ArtifactsOK ==
    /\ staged \in [Named -> [Dates -> OrNone(Frames)]]
    /\ calendar \in OrNone(SUBSET Dates) /\ events \in OrNone(SUBSET Keys)
    /\ candidate \in OrNone(Tables) /\ suspension \in BOOLEAN
    /\ preflight \in OrNone(Preflights)
    /\ manifest \in OrNone([codes : SUBSET Codes, dates : SUBSET Dates])

Canonical == [Codes -> OrNone(Rows) \cup {Other}]

ProcessOK ==
    /\ pc \in {"idle", "fetch", "rebuild", "write", "load", "read", "apply", "check"}
    /\ cmd \in OrNone(Commands) /\ blocked \in BOOLEAN
    /\ answer \in OrNone(Answers) /\ held \in OrNone(Builds)
    /\ (cmd = None) = (pc = "idle")
    /\ (answer = None) = (pc # "fetch") /\ (held = None) = (pc # "write")
    /\ todo \subseteq (0..(Last + 6)) \X (Dates \cup {0}) \cup Dates \X {0}
    /\ merged \in [Dates -> OrNone(Canonical)]
    /\ verdict \in OrNone([cmd : Commands, clean : BOOLEAN])

TypeOK ==
    /\ vendor \in Vintages /\ fetches \subseteq Vintages \X Vintages /\ ArtifactsOK
    /\ canonical \in [Dates -> Canonical]
    /\ ProcessOK
    /\ edits \in 0..MaxEdits /\ faults \in 0..MaxFaults

\* The stock was paused when the vendor's events were looked up, once.
OncePaused(k) == \E v \in Vintages : k \in Paused[v]

\* All values were answered in one fetch, the price first and last the events, none for this row.
OneFetch(windows, k, row) == \E w \in windows, v \in Vintages :
    /\ w[1] <= row.parts[Daily] /\ v <= w[2]
    /\ \A i \in Named : row.parts[Daily] <= row.parts[i] /\ row.parts[i] <= v
    /\ k \notin Paused[v]

\* A promoted row is whole, and each of its values is one the vendor quoted.  If it is marked as
\* trading, all of it was answered in one fetch, price first and the events no earlier than any
\* value: it mixes vintages only if the vendor corrected something while that fetch ran.  If it is
\* marked as paused, the vendor once had an event; its values may be of several fetches, as a
\* rebuild takes staging that two fetches wrote and the preflight report of an earlier build lets
\* it pass.  So it is whichever commands died between which artifacts and whatever was reused.
PromotedIsTrue == \A d \in Dates, c \in Codes :
    LET row == canonical[d][c] IN
    row \notin {None, Other} =>
        /\ Whole(row)
        /\ \A i \in Named : <<c, d>> \in Quotes[row.parts[i]]
        /\ IF row.pause = "paused" THEN OncePaused(<<c, d>>) ELSE OneFetch(fetches, <<c, d>>, row)

\* Repeating the landing until it passes with no blocked reason lands every key of the request,
\* unless the vendor has no row for one of them (as for a stock that did not trade).
Completes ==
    <>[](\/ \A k \in Scope(Goal) : canonical[k[2]][k[1]] # None
         \/ ~(Scope(Goal) \subseteq Quotes[vendor]))

=============================================================================
