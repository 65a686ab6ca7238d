-------------------------- MODULE PriceLanding_proofs --------------------------
(***************************************************************************)
(* Proofs, for every set of codes, dates and interfaces and every history   *)
(* of the vendor, that a promoted price row is whole and, if it says that   *)
(* the stock traded, was answered in one fetch whose event set is no older  *)
(* than any of its values, whichever commands died between which artifacts. *)
(***************************************************************************)
EXTENDS PriceLanding, TLAPS

\* What a command holds in each phase.
JobInv ==
    /\ pc # "idle" => cmd \in Commands
    /\ pc = "write" => held \in Builds /\ todo \subseteq Items(held)
    /\ pc = "read" => todo \subseteq Dates \X {0}
    /\ pc = "apply" => todo \subseteq Dates \X {0} /\ \A item \in todo : merged[item[1]] # None

TypeInv == TypeOK /\ JobInv

\* What the vendor said once.
QuotedRows(rows) == \A i \in Named, d \in Dates, c \in Codes :
    rows[i][d][c] # 0 => <<c, d>> \in Quotes[rows[i][d][c]]

OnceEvents(ev) == \A k \in ev : OncePaused(k)

Attested(windows, k, row) ==
    /\ \A i \in Named : k \in Quotes[row.parts[i]]
    /\ IF row.pause = "paused" THEN OncePaused(k) ELSE OneFetch(windows, k, row)

\* While a fetch runs, its values are of vintages since it began.  The price is asked first, so that
\* it is no newer than any other value; the events are asked when no other call is left, so that
\* those of a date are no older than any of its values.
Timely(got, v) == \A i \in Named, d \in Dates, c \in Codes :
    got.rows[i][d][c] # 0 => got.since <= got.rows[i][d][c] /\ got.rows[i][d][c] <= v

PriceFirst(got) ==
    /\ (\E call \in got.calls : call.of = 1) =>
           \A i \in Named \ {Daily}, d \in Dates, c \in Codes : got.rows[i][d][c] = 0
    /\ \A i \in Named, d \in Dates, c \in Codes :
           got.rows[Daily][d][c] # 0 /\ got.rows[i][d][c] # 0 =>
               got.rows[Daily][d][c] <= got.rows[i][d][c]

NoneMissed(d, got, w) ==
    /\ \A i \in Named, c \in Codes : got.rows[i][d][c] <= w
    /\ \A c \in Codes : <<c, d>> \in Paused[w] => <<c, d>> \in got.events

Looked(d, got, v) ==
    \/ \E call \in got.calls : call.of = 0 /\ d \in call.dates
    \/ /\ \A call \in got.calls : call.of = 0
       /\ d \in got.failed \/ \E w \in Vintages : w <= v /\ NoneMissed(d, got, w)

Fetched(dates, got, v) ==
    /\ got.since <= v
    /\ QuotedRows(got.rows) /\ OnceEvents(got.events)
    /\ Timely(got, v) /\ PriceFirst(got)
    /\ \A d \in dates : Looked(d, got, v)

AnswerInv == pc = "fetch" => Fetched(cmd.req.dates, answer, vendor)

\* A candidate row that misses nothing is attested, and so is every row that gets promoted.
TrueTable(windows, table) ==
    \A k \in Keys : Whole(table[k]) => Attested(windows, k, table[k])
TrueFrame(windows, d, f) == \A c \in Codes :
    f[c] \notin {None, Other} => Whole(f[c]) /\ Attested(windows, <<c, d>>, f[c])

StagedRows == \A i \in Named, d \in Dates, c \in Codes :
    staged[i][d] # None /\ staged[i][d][c] # 0 => <<c, d>> \in Quotes[staged[i][d][c]]

StagedInv ==
    /\ StagedRows
    /\ events # None => OnceEvents(events)
    /\ candidate # None => TrueTable(fetches, candidate)
    /\ pc = "write" => /\ QuotedRows(held.rows) /\ OnceEvents(held.events)
                       /\ TrueTable(fetches, held.candidate)

PromotedInv ==
    /\ pc = "read" => candidate # None /\ \A k \in InScope(cmd.req) : Whole(candidate[k])
    /\ \A d \in Dates : merged[d] # None => TrueFrame(fetches, d, merged[d])
    /\ \A d \in Dates : TrueFrame(fetches, d, canonical[d])

IInv == TypeInv /\ AnswerInv /\ StagedInv /\ PromotedInv

-----------------------------------------------------------------------------
(* Commands, items and builds. *)

LEMMA Bounds ==
    /\ MaxVintage \in Nat /\ MaxEdits \in Nat /\ MaxFaults \in Nat
    /\ Last \in Nat /\ Last > 0 /\ Keys = Codes \X Dates
    /\ \A i \in 1..Last : Interfaces[i] \in Named /\ (Interfaces[i] = Daily => i = 1)
    /\ Daily \in Named /\ Daily \notin ByDate
    /\ \A v \in Vintages : v \in 0..MaxVintage /\ v # 0
  BY PriceLandingAssumption DEF Last, Keys, Vintages, Named, Daily

LEMMA VendorTypes ==
    ASSUME NEW v \in Vintages PROVE Quotes[v] \subseteq Keys /\ Paused[v] \subseteq Keys
  BY PriceLandingAssumption

LEMMA NoneIsNoRecord == None \notin Commands /\ None \notin Builds /\ None \notin Answers
  BY PriceLandingAssumption

\* Daily is interface number 1 and asked by code, so that its calls come first.
LEMMA Turns ==
    ASSUME NEW call \in CallTypes
    PROVE  /\ call.of = 0 \/ call.of \in 1..Last
           /\ Turn(call) \in Int
           /\ call.of = 0 => Turn(call) = 2 * Last + 1
           /\ call.of = 1 => Turn(call) = 1
           /\ call.of \notin {0, 1} => Turn(call) > 1
           /\ call.of # 0 => Turn(call) <= 2 * Last
<1>1. call.of \in 0..Last
  BY DEF CallTypes
<1>2. call.of = 1 => ~ByDateCall(cmd, call.of)
  BY Bounds DEF ByDateCall, Daily
<1> QED
  BY <1>1, <1>2, Bounds DEF Turn

LEMMA CommandFields ==
    ASSUME NEW c \in Commands
    PROVE  /\ c.req \in Requests /\ c.req.codes \subseteq Codes /\ c.req.dates \subseteq Dates
           /\ c.expand \in BOOLEAN /\ c.goal13c \in BOOLEAN /\ c.promote \in BOOLEAN /\ c.apply \in BOOLEAN
  BY PriceLandingAssumption DEF Commands

LEMMA FirstIsOf == \A S : First(S) \subseteq S
  BY DEF First

LEMMA ItemTypes ==
    ASSUME NEW b \in Builds, NEW item \in Items(b)
    PROVE  /\ item \in (0..(Last + 6)) \X (Dates \cup {0})
           /\ item[1] - Last \in Int
           /\ item[1] - Last <= 0 => Interfaces[item[1]] \in Named /\ item[2] \in Dates
<1>1. b.dates \subseteq Dates
  BY DEF Builds
<1>2. CASE item \in (1..Last) \X b.dates
  BY <1>1, <1>2, Bounds DEF Last, Named
<1>3. CASE item \notin (1..Last) \X b.dates
  <2>1. PICK n \in 1..6 : item = <<Last + n, 0>>
    BY <1>3 DEF Items
  <2> QED
    BY <2>1, Bounds
<1> QED
  BY <1>2, <1>3

LEMMA CandidateType ==
    ASSUME NEW rows \in [Named -> [Dates -> Frames]], NEW ev, NEW certain
    PROVE  Candidate(rows, ev, certain) \in Tables
<1>1. ASSUME NEW k \in Keys
      PROVE  /\ [i \in Named |-> rows[i][k[2]][k[1]]] \in [Named -> 0..MaxVintage]
             /\ k[1] \in Codes /\ k[2] \in Dates
  <2>1. k[1] \in Codes /\ k[2] \in Dates
    BY Bounds
  <2>2. \A i \in Named : rows[i][k[2]] \in [Codes -> 0..MaxVintage]
    BY <2>1 DEF Frames
  <2> QED
    BY <2>1, <2>2
<1>2. ASSUME NEW k \in Keys
      PROVE  Candidate(rows, ev, certain)[k] \in OrNone(Rows)
  BY <1>1 DEF Candidate, OrNone, Rows
<1> QED
  BY <1>2 DEF Candidate, Tables

LEMMA BuiltType ==
    ASSUME TypeInv, NEW codes \in SUBSET Codes, NEW dates \in SUBSET Dates,
           NEW cal \in SUBSET Dates,
           NEW rows \in [Named -> [Dates -> Frames]], NEW ev \in SUBSET Keys, NEW certain
    PROVE  Built(codes, dates, cal, rows, ev, certain) \in Builds
<1>1. Candidate(rows, ev, certain) \in Tables
  BY CandidateType
<1>2. \A cand : Preflight(codes, dates, rows, cand, certain) \in Preflights
  BY DEF Preflight, Preflights
<1> QED
  BY <1>1, <1>2 DEF Built, Builds, OrNone

-----------------------------------------------------------------------------
(* Types. *)

LEMMA EndType ==
    ASSUME TypeInv, cmd \in Commands, NEW clean \in BOOLEAN, End(clean)
    PROVE  ProcessOK' /\ JobInv'
  BY Bounds DEF End, ProcessOK, JobInv, OrNone

LEMMA RefusedType ==
    ASSUME TypeInv, pc \in {"fetch", "rebuild"}, BuildRefused
    PROVE  ProcessOK' /\ JobInv'
<1>1. cmd \in Commands
  BY DEF TypeInv, JobInv
<1>2. CASE cmd.promote
  BY <1>1, <1>2 DEF BuildRefused, TypeInv, TypeOK, ProcessOK, JobInv, OrNone
<1>3. CASE ~cmd.promote
  BY <1>1, <1>3, EndType DEF BuildRefused
<1> QED
  BY <1>2, <1>3

LEMMA AcceptedType ==
    ASSUME TypeInv, pc \in {"fetch", "rebuild"}, NEW b \in Builds, BuildAccepted(b)
    PROVE  ProcessOK' /\ JobInv'
<1>1. cmd \in Commands
  BY DEF TypeInv, JobInv
<1>2. Items(b) \subseteq (0..(Last + 6)) \X (Dates \cup {0})
  BY ItemTypes
<1> QED
  BY <1>1, <1>2, NoneIsNoRecord DEF BuildAccepted, TypeInv, TypeOK, ProcessOK, JobInv, OrNone, Items

LEMMA CallsType == ASSUME NEW c \in Commands PROVE Calls(c) \subseteq CallTypes
<1>1. c.req.codes \subseteq Codes /\ c.req.dates \subseteq Dates
  BY CommandFields
<1>2. EventCalls(c) \subseteq CallTypes
  BY <1>1, Bounds DEF EventCalls, CallTypes
<1>3. ASSUME NEW i \in 1..Last PROVE RowCalls(c, i) \subseteq CallTypes
  BY <1>1, Bounds DEF RowCalls, CallTypes
<1> QED
  BY <1>2, <1>3 DEF Calls

LEMMA NoAnswerType == ASSUME TypeInv, NEW c \in Commands PROVE NoAnswer(c) \in Answers
<1>1. vendor \in Vintages /\ Calls(c) \in SUBSET CallTypes
  BY CallsType DEF TypeInv, TypeOK
<1>2. [i \in Named |-> [d \in Dates |-> [k \in Codes |-> 0]]] \in [Named -> [Dates -> Frames]]
  BY Bounds DEF Frames
<1> QED
  BY <1>1, <1>2 DEF NoAnswer, Answers

LEMMA StartType == ASSUME TypeInv, NEW c \in Commands, Start(c) PROVE TypeInv'
<1>1. answer' \in OrNone(Answers) /\ (answer' = None) = (pc' # "fetch")
  BY NoAnswerType, NoneIsNoRecord DEF Start, OrNone
<1>2. ProcessOK' /\ JobInv'
  BY <1>1, NoneIsNoRecord DEF Start, TypeInv, TypeOK, ProcessOK, JobInv, OrNone
<1>3. edits' \in 0..MaxEdits
  BY Bounds DEF Start, Edit, TypeInv, TypeOK
<1> QED
  BY <1>2, <1>3 DEF Start, TypeInv, TypeOK, ArtifactsOK, artifacts, market

LEMMA FaultType == ASSUME TypeInv, Fault \/ Quiet PROVE faults' \in 0..MaxFaults
  BY Bounds DEF Fault, Quiet, TypeInv, TypeOK

\* What a fetch may have in memory after one more call.
GotNext(got) == \E call \in Due :
    \/ call.of # 0 /\ \E lost : got = RowsHeard(call, lost)
    \/ call.of = 0 /\ got \in {EventsHeard(call), EventsMissed(call)}

Fetching == FetchRows \/ FetchEvents \/ MissEvents \/ FetchFails

LEMMA FetchCases ==
    ASSUME Fetching
    PROVE  /\ pc = "fetch" /\ UNCHANGED <<vendor, artifacts, canonical, edits>> /\ (Fault \/ Quiet)
           /\ \/ BuildRefused /\ UNCHANGED fetches
              \/ \E got : GotNext(got) /\ Heard(got)
<1>1. CASE FetchRows
  BY <1>1 DEF FetchRows, GotNext
<1>2. CASE FetchEvents
  BY <1>2 DEF FetchEvents, GotNext, bounds, Quiet
<1>3. CASE MissEvents
  BY <1>3 DEF MissEvents, GotNext
<1>4. CASE FetchFails
  BY <1>4 DEF FetchFails, market
<1> QED
  BY <1>1, <1>2, <1>3, <1>4 DEF Fetching

LEMMA DueType ==
    ASSUME TypeInv, pc = "fetch", NEW call \in Due
    PROVE  answer \in Answers /\ call \in answer.calls /\ call \in CallTypes
<1>1. answer \in Answers
  BY DEF TypeInv, TypeOK, ProcessOK, OrNone
<1> QED
  BY <1>1 DEF Due, Answers

\* What one more call changes.
LEMMA RowsHeardIs ==
    ASSUME TypeInv, pc = "fetch", NEW call \in Due, call.of # 0, NEW lost
    PROVE  LET got == RowsHeard(call, lost) IN
           /\ got \in Answers
           /\ got.since = answer.since /\ got.calls = answer.calls \ {call}
           /\ got.events = answer.events /\ got.failed = answer.failed
           /\ \A i \in Named, d \in Dates, c \in Codes :
                 \/ got.rows[i][d][c] = answer.rows[i][d][c]
                 \/ /\ i = Interfaces[call.of]
                    /\ \/ got.rows[i][d][c] = 0
                       \/ got.rows[i][d][c] = vendor /\ <<c, d>> \in Quotes[vendor]
<1> DEFINE at == Interfaces[call.of]
           new == [d \in Dates |-> [c \in Codes |->
                       IF c \notin call.codes \/ d \notin call.dates THEN answer.rows[at][d][c]
                       ELSE IF <<c, d>> \in Quotes[vendor] \ lost THEN vendor ELSE 0]]
           rows == [answer.rows EXCEPT ![at] = new]
           got == RowsHeard(call, lost)
<1>1. answer \in Answers /\ call \in answer.calls /\ call.of \in 1..Last
  BY DueType, Turns
<1>2. at \in Named /\ vendor \in 0..MaxVintage
  BY <1>1, Bounds DEF TypeInv, TypeOK
<1>3. answer.rows \in [Named -> [Dates -> Frames]]
  BY <1>1 DEF Answers
<1>4. new \in [Dates -> Frames]
  <2>1. \A d \in Dates, c \in Codes : answer.rows[at][d][c] \in 0..MaxVintage
    BY <1>2, <1>3 DEF Frames
  <2> HIDE DEF at
  <2> QED
    BY <1>2, <2>1, Bounds DEF Frames
<1>5. got = [answer EXCEPT !.calls = answer.calls \ {call}, !.rows = rows]
  BY <1>1, <1>3 DEF RowsHeard, Answers
<1>6. rows \in [Named -> [Dates -> Frames]]
  <2> HIDE DEF new, at
  <2> QED
    BY <1>2, <1>3, <1>4
<1>7. /\ got.since = answer.since /\ got.calls = answer.calls \ {call} /\ got.rows = rows
      /\ got.events = answer.events /\ got.failed = answer.failed /\ got \in Answers
  <2> HIDE DEF rows, got
  <2> QED
    BY <1>1, <1>5, <1>6 DEF Answers
<1>8. ASSUME NEW i \in Named, NEW d \in Dates, NEW c \in Codes
      PROVE  \/ rows[i][d][c] = answer.rows[i][d][c]
             \/ /\ i = at
                /\ \/ rows[i][d][c] = 0
                   \/ rows[i][d][c] = vendor /\ <<c, d>> \in Quotes[vendor]
  <2>1. CASE i # at
    BY <1>3, <2>1
  <2>2. CASE i = at
    <3>1. rows[i] = new
      BY <1>3, <2>2
    <3> QED
      BY <2>2, <3>1
  <2> QED
    BY <2>1, <2>2
<1> QED
  <2> HIDE DEF rows
  <2> QED
    BY <1>7, <1>8

LEMMA EventsHeardIs ==
    ASSUME TypeInv, pc = "fetch", NEW call \in Due,
           NEW got \in {EventsHeard(call), EventsMissed(call)}
    PROVE  /\ got \in Answers
           /\ got.since = answer.since /\ got.calls = answer.calls \ {call}
           /\ got.rows = answer.rows
           /\ \/ /\ got.events = answer.events \cup {k \in Paused[vendor] : k[2] \in call.dates}
                 /\ got.failed = answer.failed
              \/ got.events = answer.events /\ got.failed = answer.failed \cup call.dates
<1>1. answer \in Answers /\ call \in CallTypes /\ Paused[vendor] \subseteq Keys
  BY DueType, VendorTypes DEF TypeInv, TypeOK
<1>2. call.dates \subseteq Dates
  BY <1>1 DEF CallTypes
<1>3. CASE got = EventsHeard(call)
  BY <1>1, <1>3 DEF EventsHeard, Answers
<1>4. CASE got = EventsMissed(call)
  BY <1>1, <1>2, <1>4 DEF EventsMissed, Answers
<1> QED
  BY <1>3, <1>4

LEMMA GotType == ASSUME TypeInv, pc = "fetch", NEW got, GotNext(got) PROVE got \in Answers
  BY RowsHeardIs, EventsHeardIs DEF GotNext

LEMMA FetchBuildType ==
    ASSUME TypeInv, pc = "fetch", NEW got \in Answers PROVE FetchBuilds(got) \in Builds
<1>1. cmd.req.codes \in SUBSET Codes /\ cmd.req.dates \in SUBSET Dates
  BY CommandFields DEF TypeInv, JobInv
<1>2. got.rows \in [Named -> [Dates -> Frames]] /\ got.events \in SUBSET Keys
  BY DEF Answers
<1> QED
  BY <1>1, <1>2, BuiltType DEF FetchBuilds

LEMMA FetchType == ASSUME TypeInv, Fetching PROVE TypeInv'
<1>1. pc = "fetch" /\ UNCHANGED <<vendor, artifacts, canonical, edits>> /\ (Fault \/ Quiet)
  BY FetchCases
<1>2. ProcessOK' /\ JobInv' /\ fetches' \subseteq Vintages \X Vintages
  <2>1. fetches \subseteq Vintages \X Vintages /\ vendor \in Vintages /\ cmd \in Commands
    BY <1>1 DEF TypeInv, TypeOK, JobInv
  <2>2. CASE BuildRefused /\ UNCHANGED fetches
    BY <1>1, <2>1, <2>2, RefusedType
  <2>3. ASSUME NEW got, GotNext(got), Heard(got) PROVE ProcessOK' /\ JobInv'
              /\ fetches' \subseteq Vintages \X Vintages
    <3>1. got \in Answers /\ got.since \in Vintages
      BY <1>1, <2>3, GotType DEF Answers
    <3>2. CASE got.calls # {}
      <4>1. answer' = got /\ UNCHANGED <<fetches, pc, cmd, blocked, held, todo, merged, verdict>>
        BY <2>3, <3>2 DEF Heard
      <4> QED
        BY <1>1, <2>1, <3>1, <4>1, NoneIsNoRecord DEF TypeInv, TypeOK, ProcessOK, JobInv, OrNone
    <3>3. CASE got.calls = {} /\ Empty(got.rows)
      BY <1>1, <2>1, <2>3, <3>3, RefusedType DEF Heard
    <3>4. CASE got.calls = {} /\ ~Empty(got.rows)
      BY <1>1, <2>1, <2>3, <3>1, <3>4, FetchBuildType, AcceptedType DEF Heard
    <3> QED
      BY <3>2, <3>3, <3>4
  <2> QED
    BY <2>2, <2>3, FetchCases
<1>3. faults' \in 0..MaxFaults
  BY <1>1, FaultType
<1> QED
  BY <1>1, <1>2, <1>3 DEF TypeInv, TypeOK, ArtifactsOK, artifacts

LEMMA RebuildType == ASSUME TypeInv, Rebuild PROVE TypeInv'
<1> DEFINE dates == IF calendar = None THEN {} ELSE calendar \cap cmd.req.dates
           found == /\ dates # {} /\ events # None
                    /\ \A i \in Named, d \in dates : staged[i][d] # None
           rows == [i \in Named |-> [d \in Dates |-> [c \in Codes |->
               IF c \in cmd.req.codes /\ d \in dates THEN staged[i][d][c] ELSE 0]]]
           ev == {k \in events : k[2] \in dates}
           build == Built(cmd.req.codes, dates, calendar, rows, ev, CertainDates(dates, dates))
<1>1. pc = "rebuild" /\ IF found THEN BuildAccepted(build) ELSE BuildRefused
  BY DEF Rebuild
<1>2. cmd.req.codes \in SUBSET Codes /\ dates \in SUBSET Dates
  BY <1>1, CommandFields DEF TypeInv, TypeOK, ArtifactsOK, JobInv, OrNone
<1>3. CASE found
  <2>1. ev \in SUBSET Keys
    BY <1>3 DEF TypeInv, TypeOK, ArtifactsOK, OrNone
  <2>5. calendar \in SUBSET Dates
    BY <1>3 DEF TypeInv, TypeOK, ArtifactsOK, OrNone
  <2>2. \A i \in Named, d \in Dates : d \in dates => staged[i][d] \in Frames
    BY <1>3 DEF TypeInv, TypeOK, ArtifactsOK, OrNone
  <2> HIDE DEF dates
  <2>3. rows \in [Named -> [Dates -> Frames]]
    BY <2>2, Bounds DEF Frames
  <2> HIDE DEF rows, ev
  <2>4. build \in Builds
    BY <1>2, <2>1, <2>3, <2>5, BuiltType
  <2> QED
    BY <1>1, <1>3, <2>4, AcceptedType
       DEF Rebuild, TypeInv, TypeOK, ArtifactsOK, artifacts, bounds, market
<1>4. CASE ~found
  BY <1>1, <1>4, RefusedType DEF Rebuild, TypeInv, TypeOK, ArtifactsOK, artifacts, bounds, market
<1> QED
  BY <1>3, <1>4

LEMMA BuildFields ==
    ASSUME NEW b \in Builds
    PROVE  /\ b.codes \in SUBSET Codes /\ b.dates \in SUBSET Dates /\ b.calendar \in SUBSET Dates
           /\ b.rows \in [Named -> [Dates -> Frames]] /\ b.events \in SUBSET Keys
           /\ b.candidate \in Tables /\ b.preflight \in OrNone(Preflights)
  BY DEF Builds

LEMMA WriteArtifactType == ASSUME TypeInv, WriteArtifact PROVE TypeInv'
<1>1. PICK item \in First(todo) :
         /\ staged' = IF item[1] - Last > 0 THEN staged
                      ELSE [staged EXCEPT ![Interfaces[item[1]]][item[2]] =
                                held.rows[Interfaces[item[1]]][item[2]]]
         /\ calendar' \in {held.calendar, calendar} /\ events' \in {held.events, events}
         /\ candidate' \in {held.candidate, candidate} /\ suspension' \in BOOLEAN
         /\ preflight' \in {held.preflight, preflight}
         /\ manifest' \in {[codes |-> held.codes, dates |-> held.dates], manifest}
         /\ \/ todo' = todo \ {item} /\ UNCHANGED <<pc, cmd, blocked, answer, held, merged, verdict>>
            \/ /\ todo' = {} /\ held' = None /\ pc' = "load"
               /\ UNCHANGED <<cmd, blocked, answer, merged, verdict>>
            \/ End(TRUE)
  <2>1. suspension \in BOOLEAN
    BY DEF TypeInv, TypeOK, ArtifactsOK
  <2>2. PICK item \in First(todo) :
           /\ WriteItem(item)
           /\ \/ todo' = todo \ {item} /\ UNCHANGED <<pc, cmd, blocked, answer, held, merged, verdict>>
              \/ /\ todo' = {} /\ held' = None /\ pc' = "load"
                 /\ UNCHANGED <<cmd, blocked, answer, merged, verdict>>
              \/ End(TRUE)
    BY DEF WriteArtifact
  <2>3. /\ calendar' \in {held.calendar, calendar} /\ events' \in {held.events, events}
        /\ candidate' \in {held.candidate, candidate}
        /\ preflight' \in {held.preflight, preflight}
        /\ manifest' \in {[codes |-> held.codes, dates |-> held.dates], manifest}
        /\ suspension' \in BOOLEAN
    BY <2>1, <2>2 DEF WriteItem
  <2>4. staged' = IF item[1] - Last > 0 THEN staged
                  ELSE [staged EXCEPT ![Interfaces[item[1]]][item[2]] =
                            held.rows[Interfaces[item[1]]][item[2]]]
    BY <2>2 DEF WriteItem
  <2> QED
    BY <2>2, <2>3, <2>4
<1>2. /\ pc = "write" /\ held \in Builds /\ item \in Items(held) /\ cmd \in Commands
      /\ todo \subseteq Items(held)
  BY <1>1, FirstIsOf DEF WriteArtifact, TypeInv, JobInv
<1>3. staged' \in [Named -> [Dates -> OrNone(Frames)]]
  <2>1. staged \in [Named -> [Dates -> OrNone(Frames)]]
    BY DEF TypeInv, TypeOK, ArtifactsOK
  <2>2. CASE item[1] - Last > 0
    BY <1>1, <2>1, <2>2
  <2>3. CASE ~(item[1] - Last > 0)
    <3>1. Interfaces[item[1]] \in Named /\ item[2] \in Dates
      BY <1>2, <2>3, ItemTypes
    <3>2. held.rows[Interfaces[item[1]]][item[2]] \in OrNone(Frames)
      BY <1>2, <3>1, BuildFields DEF OrNone
    <3> QED
      BY <1>1, <2>1, <2>3, <3>1, <3>2
  <2> QED
    BY <2>2, <2>3
<1>4. ArtifactsOK'
  <2>1. /\ calendar' \in OrNone(SUBSET Dates) /\ events' \in OrNone(SUBSET Keys)
        /\ candidate' \in OrNone(Tables) /\ preflight' \in OrNone(Preflights)
    BY <1>1, <1>2, BuildFields DEF TypeInv, TypeOK, ArtifactsOK, OrNone
  <2>2. manifest' \in OrNone([codes : SUBSET Codes, dates : SUBSET Dates])
    BY <1>1, <1>2, BuildFields DEF TypeInv, TypeOK, ArtifactsOK, OrNone
  <2> QED
    BY <1>1, <1>3, <2>1, <2>2 DEF ArtifactsOK
<1>5. ProcessOK' /\ JobInv'
  <2>1. CASE End(TRUE)
    BY <1>2, <2>1, EndType
  <2>2. CASE todo' = todo \ {item} /\ UNCHANGED <<pc, cmd, blocked, answer, held, merged, verdict>>
    BY <1>2, <2>2 DEF TypeInv, TypeOK, ProcessOK, JobInv, Items
  <2>3. CASE /\ todo' = {} /\ held' = None /\ pc' = "load"
             /\ UNCHANGED <<cmd, blocked, answer, merged, verdict>>
    BY <1>2, <2>3 DEF TypeInv, TypeOK, ProcessOK, JobInv, OrNone
  <2> QED
    BY <1>1, <2>1, <2>2, <2>3
<1> QED
  BY <1>4, <1>5 DEF WriteArtifact, TypeInv, TypeOK, bounds, market

LEMMA LoadType == ASSUME TypeInv, Load PROVE TypeInv'
<1>1. pc = "load" /\ cmd \in Commands /\ UNCHANGED <<market, artifacts, canonical, bounds>>
  BY DEF Load, TypeInv, JobInv
<1>2. cmd.req.dates \subseteq Dates
  BY <1>1, CommandFields
<1>3. \/ End(FALSE) \/ End(~blocked)
      \/ pc' = "rebuild" /\ UNCHANGED <<cmd, blocked, answer, held, todo, merged, verdict>>
      \/ /\ pc' = "read" /\ todo' = {<<k[2], 0>> : k \in InScope(cmd.req)}
         /\ UNCHANGED <<cmd, blocked, answer, held, merged, verdict>>
  BY DEF Load
<1>4. ProcessOK' /\ JobInv'
  <2>1. CASE End(FALSE) \/ End(~blocked)
    <3>1. PICK clean \in BOOLEAN : End(clean)
      BY <2>1
    <3> QED
      BY <1>1, <3>1, EndType
  <2>2. CASE pc' = "rebuild" /\ UNCHANGED <<cmd, blocked, answer, held, todo, merged, verdict>>
    BY <1>1, <2>2 DEF TypeInv, TypeOK, ProcessOK, JobInv
  <2>3. CASE /\ pc' = "read" /\ todo' = {<<k[2], 0>> : k \in InScope(cmd.req)}
             /\ UNCHANGED <<cmd, blocked, answer, held, merged, verdict>>
    <3>1. \A k \in InScope(cmd.req) : k[2] \in Dates
      BY <1>2 DEF InScope, Scope
    <3>2. todo' \subseteq Dates \X {0}
      BY <2>3, <3>1
    <3> QED
      BY <1>1, <2>3, <3>2 DEF TypeInv, TypeOK, ProcessOK, JobInv
  <2> QED
    BY <1>3, <2>1, <2>2, <2>3
<1> QED
  BY <1>1, <1>4 DEF TypeInv, TypeOK, ArtifactsOK, artifacts, bounds, market

\* A merged partition holds candidate rows in the scope and what was there elsewhere.
LEMMA MergeType ==
    ASSUME TypeInv, PromotedInv, pc = "read", NEW d \in Dates
    PROVE  Merge(canonical[d], d) \in Canonical
<1>1. candidate \in Tables
  BY DEF TypeInv, TypeOK, ArtifactsOK, OrNone, PromotedInv
<1>2. canonical[d] \in Canonical
  BY DEF TypeInv, TypeOK
<1>3. \A c \in Codes : candidate[<<c, d>>] \in OrNone(Rows)
  BY <1>1, Bounds DEF Tables
<1> QED
  BY <1>2, <1>3 DEF Merge, Canonical

LEMMA ReadCases ==
    ASSUME TypeInv, ReadCanonical
    PROVE  \E d \in Dates :
              /\ merged' = [merged EXCEPT ![d] = Merge(canonical[d], d)]
              /\ \/ pc' = "read" /\ todo' \subseteq todo
                 \/ pc' = "apply" /\ todo' = {<<e, 0>> : e \in {e \in Dates : merged'[e] # None}}
<1>1. PICK item \in First(todo) :
         /\ merged' = [merged EXCEPT ![item[1]] = Merge(canonical[item[1]], item[1])]
         /\ todo' = IF todo \ {item} = {} THEN {<<e, 0>> : e \in {e \in Dates : merged'[e] # None}}
                                          ELSE todo \ {item}
         /\ pc' = IF todo \ {item} = {} THEN "apply" ELSE "read"
  BY DEF ReadCanonical
<1>2. item[1] \in Dates
  BY <1>1, FirstIsOf DEF ReadCanonical, TypeInv, JobInv
<1> QED
  BY <1>1, <1>2

LEMMA ReadCanonicalType == ASSUME TypeInv, PromotedInv, ReadCanonical PROVE TypeInv'
<1>1. PICK d \in Dates :
         /\ merged' = [merged EXCEPT ![d] = Merge(canonical[d], d)]
         /\ \/ pc' = "read" /\ todo' \subseteq todo
            \/ pc' = "apply" /\ todo' = {<<e, 0>> : e \in {e \in Dates : merged'[e] # None}}
  BY ReadCases
<1>2. merged' \in [Dates -> OrNone(Canonical)]
  BY <1>1, MergeType DEF ReadCanonical, TypeInv, TypeOK, ProcessOK, OrNone
<1>3. /\ pc = "read" /\ cmd \in Commands /\ todo \subseteq Dates \X {0}
      /\ UNCHANGED <<market, artifacts, canonical, cmd, blocked, answer, held, verdict, bounds>>
  BY DEF ReadCanonical, TypeInv, JobInv
<1>4. /\ pc' \in {"read", "apply"} /\ todo' \subseteq Dates \X {0}
      /\ pc' = "apply" => \A item \in todo' : merged'[item[1]] # None
  BY <1>1, <1>3
<1>5. ProcessOK' /\ JobInv'
  BY <1>2, <1>3, <1>4 DEF TypeInv, TypeOK, ProcessOK, JobInv
<1> QED
  BY <1>3, <1>5 DEF TypeInv, TypeOK, ArtifactsOK, artifacts, bounds, market

LEMMA WriteCanonicalType == ASSUME TypeInv, WriteCanonical PROVE TypeInv'
<1>1. PICK item \in First(todo) :
         /\ canonical' = [canonical EXCEPT ![item[1]] = merged[item[1]]]
         /\ todo' = todo \ {item} /\ pc' \in {"check", "apply"}
  BY DEF WriteCanonical
<1>2. item[1] \in Dates /\ merged[item[1]] \in Canonical
  <2>1. item \in todo /\ pc = "apply"
    BY <1>1, FirstIsOf DEF WriteCanonical
  <2>2. item[1] \in Dates /\ merged[item[1]] # None
    BY <2>1 DEF TypeInv, JobInv
  <2> QED
    BY <2>2 DEF TypeInv, TypeOK, ProcessOK, OrNone
<1>3. canonical' \in [Dates -> Canonical]
  BY <1>1, <1>2 DEF TypeInv, TypeOK
<1>4. ProcessOK' /\ JobInv'
  BY <1>1 DEF WriteCanonical, TypeInv, TypeOK, ProcessOK, JobInv
<1> QED
  BY <1>3, <1>4 DEF WriteCanonical, TypeInv, TypeOK, ArtifactsOK, artifacts, bounds, market

LEMMA ReadBackType == ASSUME TypeInv, ReadBack \/ Dies PROVE TypeInv'
<1>1. cmd \in Commands /\ \E clean \in BOOLEAN : End(clean)
  BY DEF ReadBack, Dies, TypeInv, JobInv
<1>2. ProcessOK' /\ JobInv'
  BY <1>1, EndType
<1>3. faults' \in 0..MaxFaults
  BY FaultType DEF ReadBack, Dies, bounds, TypeInv, TypeOK
<1> QED
  BY <1>2, <1>3 DEF ReadBack, Dies, TypeInv, TypeOK, ArtifactsOK, artifacts, bounds, market

LEMMA OthersType == ASSUME TypeInv, Correct \/ OtherWrites PROVE TypeInv'
<1>1. vendor' \in Vintages
  BY Bounds DEF Correct, OtherWrites, TypeInv, TypeOK, Vintages, market
<1>2. canonical' \in [Dates -> Canonical]
  <2>1. CASE Correct
    BY <2>1 DEF Correct, TypeInv, TypeOK
  <2>2. CASE OtherWrites
    <3>1. PICK k \in Keys : canonical' = [canonical EXCEPT ![k[2]][k[1]] = Other]
      BY <2>2 DEF OtherWrites
    <3>2. canonical \in [Dates -> [Codes -> OrNone(Rows) \cup {Other}]]
      BY DEF TypeInv, TypeOK, Canonical
    <3>3. canonical' \in [Dates -> [Codes -> OrNone(Rows) \cup {Other}]]
      BY <3>1, <3>2, Bounds
    <3> QED
      BY <3>3 DEF Canonical
  <2> QED
    BY <2>1, <2>2
<1>3. edits' \in 0..MaxEdits /\ faults' \in 0..MaxFaults
  BY Bounds DEF Correct, OtherWrites, Edit, bounds, TypeInv, TypeOK
<1>4. ArtifactsOK' /\ ProcessOK' /\ JobInv'
  BY DEF Correct, OtherWrites, TypeInv, TypeOK, ArtifactsOK, ProcessOK, JobInv, Items,
         artifacts, process
<1>5. fetches' \subseteq Vintages \X Vintages
  BY DEF Correct, OtherWrites, TypeInv, TypeOK, market
<1> QED
  BY <1>1, <1>2, <1>3, <1>4, <1>5 DEF TypeInv, TypeOK

LEMMA NextType == TypeInv /\ PromotedInv /\ [Next]_vars => TypeInv'
<1> SUFFICES ASSUME TypeInv, PromotedInv, [Next]_vars PROVE TypeInv'
  OBVIOUS
<1>1. CASE UNCHANGED vars
  BY <1>1 DEF vars, TypeInv, TypeOK, ArtifactsOK, ProcessOK, JobInv, Items, artifacts, process,
              bounds, market
<1>2. CASE Next
  BY <1>2, StartType, FetchType, RebuildType, WriteArtifactType, LoadType, ReadCanonicalType,
     WriteCanonicalType, ReadBackType, OthersType DEF Next, Fetching
<1> QED
  BY <1>1, <1>2

-----------------------------------------------------------------------------
(* What a fetch has in memory. *)

LEMMA StartFetched ==
    ASSUME TypeInv, NEW c \in Commands
    PROVE  Fetched(c.req.dates, NoAnswer(c), vendor)
<1> DEFINE got == NoAnswer(c)
<1>1. vendor \in Vintages /\ got.since = vendor /\ got.events = {} /\ got.calls = Calls(c)
  BY DEF NoAnswer, TypeInv, TypeOK
<1>2. \A i \in Named, d \in Dates, k \in Codes : got.rows[i][d][k] = 0
  BY DEF NoAnswer
<1>3. ASSUME NEW d \in c.req.dates PROVE \E call \in got.calls : call.of = 0 /\ d \in call.dates
  <2> DEFINE call == [of |-> 0, codes |-> Codes,
                      dates |-> IF c.goal13c THEN {d} ELSE c.req.dates]
  <2>1. call \in EventCalls(c) /\ call.of = 0 /\ d \in call.dates
    BY <1>3 DEF EventCalls
  <2> QED
    BY <1>1, <2>1 DEF Calls
<1> HIDE DEF got
<1>4. got.since <= vendor
  BY <1>1, Bounds
<1>5. QuotedRows(got.rows) /\ OnceEvents(got.events) /\ Timely(got, vendor)
  BY <1>1, <1>2 DEF QuotedRows, OnceEvents, Timely
<1>6. PriceFirst(got)
  BY <1>2, Bounds DEF PriceFirst
<1> QED
  BY <1>3, <1>4, <1>5, <1>6 DEF Fetched, Looked, got

\* A row call is due only while the events of every date are still to be asked, and the calls of
\* the price interface only while no other has been answered.
LEMMA RowsFetched ==
    ASSUME TypeInv, AnswerInv, pc = "fetch", NEW call \in Due, call.of # 0, NEW lost
    PROVE  Fetched(cmd.req.dates, RowsHeard(call, lost), vendor)
<1> DEFINE got == RowsHeard(call, lost)
<1>1. /\ answer \in Answers /\ call \in answer.calls /\ call \in CallTypes
      /\ call.of \in 1..Last /\ vendor \in Vintages /\ answer.since \in Vintages
  BY DueType, Turns DEF TypeInv, TypeOK, Answers
<1>2. /\ got \in Answers
      /\ got.since = answer.since /\ got.calls = answer.calls \ {call}
      /\ got.events = answer.events /\ got.failed = answer.failed
      /\ \A i \in Named, d \in Dates, c \in Codes :
            \/ got.rows[i][d][c] = answer.rows[i][d][c]
            \/ /\ i = Interfaces[call.of]
               /\ \/ got.rows[i][d][c] = 0
                  \/ got.rows[i][d][c] = vendor /\ <<c, d>> \in Quotes[vendor]
  BY RowsHeardIs
<1>3. Fetched(cmd.req.dates, answer, vendor)
  BY DEF AnswerInv
<1>4. \A i \in Named, d \in Dates, c \in Codes :
         got.rows[i][d][c] \in 0..MaxVintage /\ answer.rows[i][d][c] \in 0..MaxVintage
  BY <1>1, <1>2 DEF Answers, Frames
<1> HIDE DEF got
<1>5. QuotedRows(got.rows)
  BY <1>2, <1>3 DEF Fetched, QuotedRows
<1>6. Timely(got, vendor)
  <2>1. Timely(answer, vendor) /\ answer.since <= vendor /\ vendor <= vendor
    BY <1>1, <1>3, Bounds DEF Fetched
  <2>2. ASSUME NEW i \in Named, NEW d \in Dates, NEW c \in Codes, got.rows[i][d][c] # 0
        PROVE  got.rows[i][d][c] \in {answer.rows[i][d][c], vendor}
    BY <1>2, <2>2
  <2> QED
    BY <1>2, <2>1, <2>2 DEF Timely
<1>7. PriceFirst(got)
  <2>1. CASE call.of = 1
    <3>1. Interfaces[call.of] = Daily
      BY <2>1 DEF Daily
    <3>2. \A i \in Named \ {Daily}, d \in Dates, c \in Codes : answer.rows[i][d][c] = 0
      BY <1>1, <1>3, <2>1 DEF Fetched, PriceFirst
    <3>3. \A i \in Named \ {Daily}, d \in Dates, c \in Codes : got.rows[i][d][c] = 0
      <4>1. ASSUME NEW i \in Named \ {Daily}, NEW d \in Dates, NEW c \in Codes
            PROVE  got.rows[i][d][c] = answer.rows[i][d][c]
        BY <1>2, <3>1
      <4> QED
        BY <3>2, <4>1
    <3>4. ASSUME NEW i \in Named, NEW d \in Dates, NEW c \in Codes,
                 got.rows[Daily][d][c] # 0, got.rows[i][d][c] # 0
          PROVE  got.rows[Daily][d][c] <= got.rows[i][d][c]
      <4>1. i = Daily
        BY <3>3, <3>4
      <4> QED
        BY <1>4, <4>1
    <3> QED
      BY <3>3, <3>4 DEF PriceFirst
  <2>2. CASE call.of # 1
    <3>1. ASSUME NEW other \in got.calls, other.of = 1 PROVE FALSE
      <4>1. other \in answer.calls /\ other \in CallTypes
        BY <1>1, <1>2, <3>1 DEF Answers
      <4>2. Turn(call) <= Turn(other)
        BY <4>1 DEF Due
      <4>3. Turn(call) > 1 /\ Turn(other) = 1 /\ Turn(call) \in Int
        BY <1>1, <2>2, <3>1, <4>1, Turns
      <4> QED
        BY <4>2, <4>3
    <3>2. Interfaces[call.of] # Daily
      BY <1>1, <2>2, Bounds
    <3>3. \A d \in Dates, c \in Codes : got.rows[Daily][d][c] = answer.rows[Daily][d][c]
      BY <1>2, <3>2, Bounds
    <3>4. ASSUME NEW i \in Named, NEW d \in Dates, NEW c \in Codes,
                 got.rows[Daily][d][c] # 0, got.rows[i][d][c] # 0
          PROVE  got.rows[Daily][d][c] <= got.rows[i][d][c]
      <4>1. CASE got.rows[i][d][c] = answer.rows[i][d][c]
        BY <1>3, <3>3, <3>4, <4>1 DEF Fetched, PriceFirst
      <4>2. CASE got.rows[i][d][c] = vendor
        BY <1>3, <3>3, <3>4, <4>2, Bounds DEF Fetched, Timely
      <4> QED
        BY <1>2, <3>4, <4>1, <4>2
    <3> QED
      BY <3>1, <3>4 DEF PriceFirst
  <2> QED
    BY <2>1, <2>2
<1>8. ASSUME NEW d \in cmd.req.dates PROVE Looked(d, got, vendor)
  <2>1. PICK other \in answer.calls : other.of = 0 /\ d \in other.dates
    BY <1>1, <1>3 DEF Fetched, Looked
  <2> QED
    BY <1>2, <2>1 DEF Looked
<1> QED
  BY <1>2, <1>3, <1>5, <1>6, <1>7, <1>8 DEF Fetched, got

\* An event call is due only when no row is left to be asked.
LEMMA EventsFetched ==
    ASSUME TypeInv, AnswerInv, pc = "fetch", NEW call \in Due, call.of = 0,
           NEW got \in {EventsHeard(call), EventsMissed(call)}
    PROVE  Fetched(cmd.req.dates, got, vendor)
<1>1. /\ answer \in Answers /\ call \in answer.calls /\ call \in CallTypes
      /\ vendor \in Vintages
  BY DueType DEF TypeInv, TypeOK
<1>2. /\ got.since = answer.since /\ got.calls = answer.calls \ {call}
      /\ got.rows = answer.rows
      /\ \/ /\ got.events = answer.events \cup {k \in Paused[vendor] : k[2] \in call.dates}
            /\ got.failed = answer.failed
         \/ got.events = answer.events /\ got.failed = answer.failed \cup call.dates
  BY EventsHeardIs
<1>3. Fetched(cmd.req.dates, answer, vendor)
  BY DEF AnswerInv
<1>4. OnceEvents(got.events)
  BY <1>1, <1>2, <1>3 DEF Fetched, OnceEvents, OncePaused
<1>5. Timely(got, vendor) /\ PriceFirst(got)
  BY <1>2, <1>3 DEF Fetched, Timely, PriceFirst
<1>6. ASSUME NEW other \in answer.calls PROVE other.of = 0
  <2>1. other \in CallTypes /\ Turn(call) <= Turn(other)
    BY <1>1 DEF Due, Answers
  <2>2. Turn(call) = 2 * Last + 1 /\ (other.of # 0 => Turn(other) <= 2 * Last)
        /\ Turn(other) \in Int
    BY <1>1, <2>1, Turns
  <2> QED
    BY <2>1, <2>2, Bounds
<1>7. ASSUME NEW d \in cmd.req.dates PROVE Looked(d, got, vendor)
  <2>1. CASE d \notin call.dates /\ \E other \in answer.calls : other.of = 0 /\ d \in other.dates
    BY <1>2, <2>1 DEF Looked
  <2>2. CASE d \in call.dates
    <3>1. d \in Dates
      BY <1>1, <2>2 DEF CallTypes
    <3>2. CASE got.failed = answer.failed \cup call.dates
      BY <1>2, <1>6, <2>2, <3>2 DEF Looked
    <3>3. CASE got.events = answer.events \cup {k \in Paused[vendor] : k[2] \in call.dates}
      <4>1. \A i \in Named, c \in Codes : answer.rows[i][d][c] \in 0..MaxVintage
        BY <1>1, <3>1 DEF Answers, Frames
      <4>2. \A i \in Named, c \in Codes : got.rows[i][d][c] <= vendor
        BY <1>1, <1>2, <1>3, <3>1, <4>1, Bounds DEF Fetched, Timely
      <4>3. \A c \in Codes : <<c, d>> \in Paused[vendor] => <<c, d>> \in got.events
        BY <2>2, <3>3
      <4>4. NoneMissed(d, got, vendor) /\ vendor <= vendor
        BY <1>1, <4>2, <4>3, Bounds DEF NoneMissed
      <4> QED
        BY <1>1, <1>2, <1>6, <4>4 DEF Looked
    <3> QED
      BY <1>2, <3>2, <3>3
  <2>3. CASE d \in answer.failed
    BY <1>2, <1>6, <2>3 DEF Looked
  <2>4. ASSUME NEW w \in Vintages, w <= vendor, NoneMissed(d, answer, w)
        PROVE  Looked(d, got, vendor)
    <3>1. NoneMissed(d, got, w)
      BY <1>2, <2>4 DEF NoneMissed
    <3> QED
      BY <1>2, <1>6, <2>4, <3>1 DEF Looked
  <2> QED
    BY <1>3, <2>1, <2>2, <2>3, <2>4 DEF Fetched, Looked
<1> QED
  BY <1>2, <1>3, <1>4, <1>5, <1>7 DEF Fetched

LEMMA GotFetched ==
    ASSUME TypeInv, AnswerInv, pc = "fetch", NEW got, GotNext(got)
    PROVE  Fetched(cmd.req.dates, got, vendor)
  BY RowsFetched, EventsFetched DEF GotNext

\* What was got stays so when the vendor corrects its data.
LEMMA FetchedStays ==
    ASSUME NEW dates, NEW got \in Answers, NEW v \in Vintages, NEW w \in Vintages, v <= w,
           Fetched(dates, got, v)
    PROVE  Fetched(dates, got, w)
<1>1. got.since \in Vintages
      /\ \A i \in Named, d \in Dates, c \in Codes : got.rows[i][d][c] \in 0..MaxVintage
  BY DEF Answers, Frames
<1>2. got.since <= w /\ Timely(got, w)
  BY <1>1, Bounds DEF Fetched, Timely
<1>3. ASSUME NEW d \in dates PROVE Looked(d, got, w)
  <2>1. ASSUME NEW u \in Vintages, u <= v PROVE u <= w
    BY <2>1, Bounds
  <2> QED
    BY <2>1 DEF Fetched, Looked
<1> QED
  BY <1>2, <1>3 DEF Fetched

LEMMA NextAnswer == TypeInv /\ AnswerInv /\ [Next]_vars => AnswerInv'
<1> SUFFICES ASSUME TypeInv, AnswerInv, [Next]_vars, pc' = "fetch"
             PROVE  Fetched(cmd'.req.dates, answer', vendor')
  BY DEF AnswerInv
<1>1. CASE UNCHANGED vars
  BY <1>1 DEF vars, AnswerInv, market, process
<1>2. ASSUME NEW c \in Commands, Start(c) PROVE Fetched(cmd'.req.dates, answer', vendor')
  BY <1>2, StartFetched DEF Start, market
<1>3. CASE Fetching
  <2>1. pc = "fetch" /\ vendor' = vendor
    BY <1>3, FetchCases
  <2>2. ~BuildRefused
    BY DEF BuildRefused, End
  <2>3. PICK got : GotNext(got) /\ Heard(got)
    BY <1>3, <2>2, FetchCases
  <2>4. answer' = got /\ cmd' = cmd
    BY <2>2, <2>3 DEF Heard, BuildAccepted
  <2> QED
    BY <2>1, <2>3, <2>4, GotFetched
<1>4. CASE Correct
  <2>1. pc = "fetch" /\ UNCHANGED <<cmd, answer>> /\ vendor' = vendor + 1
    BY <1>4 DEF Correct, process
  <2>2. answer \in Answers /\ vendor \in Vintages /\ vendor' \in Vintages
    BY <1>4, <2>1, Bounds DEF Correct, TypeInv, TypeOK, ProcessOK, OrNone, Vintages
  <2>3. vendor <= vendor'
    BY <2>1, <2>2, Bounds
  <2> QED
    BY <2>1, <2>2, <2>3, FetchedStays DEF AnswerInv
<1>5. CASE OtherWrites
  BY <1>5 DEF OtherWrites, AnswerInv, market, process
<1>6. CASE Rebuild \/ WriteArtifact \/ Load \/ ReadCanonical \/ WriteCanonical \/ ReadBack \/ Dies
  BY <1>6 DEF Rebuild, BuildAccepted, BuildRefused, WriteArtifact, Load, ReadCanonical,
              WriteCanonical, ReadBack, Dies, End
<1> QED
  BY <1>1, <1>2, <1>3, <1>4, <1>5, <1>6 DEF Next, Fetching

-----------------------------------------------------------------------------
(* What is staged is what the vendor said. *)

LEMMA CandidateIs ==
    ASSUME NEW rows, NEW ev, NEW certain, NEW k \in Keys, Whole(Candidate(rows, ev, certain)[k])
    PROVE  LET row == Candidate(rows, ev, certain)[k] IN
           /\ k = <<k[1], k[2]>> /\ k[1] \in Codes /\ k[2] \in Dates
           /\ \A i \in Named : row.parts[i] = rows[i][k[2]][k[1]] /\ row.parts[i] # 0
           /\ \/ row.pause = "paused" /\ k \in ev
              \/ row.pause = "trading" /\ k \notin ev /\ k[2] \in certain
<1> DEFINE row == Candidate(rows, ev, certain)[k]
<1>1. row = [parts |-> [i \in Named |-> rows[i][k[2]][k[1]]],
             pause |-> IF k \in ev THEN "paused"
                       ELSE IF k[2] \in certain THEN "trading" ELSE "unknown"]
  BY DEF Whole, Candidate
<1>2. row.pause # "unknown" /\ \A i \in Named : row.parts[i] # 0
  BY DEF Whole
<1>3. k = <<k[1], k[2]>> /\ k[1] \in Codes /\ k[2] \in Dates
  BY Bounds
<1> HIDE DEF row
<1>4. \A i \in Named : row.parts[i] = rows[i][k[2]][k[1]]
  BY <1>1
<1>5. \/ row.pause = "paused" /\ k \in ev
      \/ row.pause = "trading" /\ k \notin ev /\ k[2] \in certain
  BY <1>1, <1>2
<1> QED
  BY <1>2, <1>3, <1>4, <1>5 DEF row

\* A row of a fetch that misses nothing was answered in that fetch.
LEMMA FetchTrue ==
    ASSUME TypeInv, pc = "fetch", NEW got \in Answers, got.calls = {},
           Fetched(cmd.req.dates, got, vendor), NEW windows, <<got.since, vendor>> \in windows
    PROVE  /\ QuotedRows(FetchBuilds(got).rows) /\ OnceEvents(FetchBuilds(got).events)
           /\ TrueTable(windows, FetchBuilds(got).candidate)
<1> DEFINE certain == CertainDates(cmd.req.dates, got.failed)
           table == Candidate(got.rows, got.events, certain)
<1>1. ASSUME NEW k \in Keys, Whole(table[k]) PROVE Attested(windows, k, table[k])
  <2> DEFINE row == table[k]
  <2>1. /\ k = <<k[1], k[2]>> /\ k[1] \in Codes /\ k[2] \in Dates
        /\ \A i \in Named : row.parts[i] = got.rows[i][k[2]][k[1]] /\ row.parts[i] # 0
        /\ \/ row.pause = "paused" /\ k \in got.events
           \/ row.pause = "trading" /\ k \notin got.events /\ k[2] \in certain
    BY <1>1, CandidateIs
  <2> HIDE DEF row, table
  <2>2. \A i \in Named : k \in Quotes[row.parts[i]]
    BY <2>1 DEF Fetched, QuotedRows
  <2>3. CASE row.pause = "paused"
    <3>1. OncePaused(k)
      BY <2>1, <2>3 DEF Fetched, OnceEvents
    <3> QED
      BY <2>2, <2>3, <3>1 DEF Attested, row
  <2>4. CASE row.pause = "trading"
    <3>1. k[2] \in cmd.req.dates /\ k[2] \notin got.failed /\ k \notin got.events
      BY <2>1, <2>4 DEF certain, CertainDates
    <3>2. PICK w \in Vintages : w <= vendor /\ NoneMissed(k[2], got, w)
      BY <3>1 DEF Fetched, Looked
    <3>3. k \notin Paused[w] /\ \A i \in Named : row.parts[i] <= w
      BY <2>1, <3>1, <3>2 DEF NoneMissed
    <3>4. got.since <= row.parts[Daily]
      BY <2>1, Bounds DEF Fetched, Timely
    <3>5. \A i \in Named : row.parts[Daily] <= row.parts[i]
      BY <2>1, Bounds DEF Fetched, PriceFirst
    <3>6. OneFetch(windows, k, row)
      <4> DEFINE window == <<got.since, vendor>>
      <4>1. window[1] = got.since /\ window[2] = vendor /\ window \in windows
        OBVIOUS
      <4> HIDE DEF window
      <4> QED
        BY <3>2, <3>3, <3>4, <3>5, <4>1 DEF OneFetch
    <3>7. row.pause # "paused"
      BY <2>4
    <3> QED
      BY <2>2, <3>6, <3>7 DEF Attested, row
  <2> QED
    BY <2>1, <2>3, <2>4 DEF row
<1>2. /\ FetchBuilds(got).candidate = table /\ FetchBuilds(got).rows = got.rows
      /\ FetchBuilds(got).events = got.events
  BY DEF FetchBuilds, Built
<1> HIDE DEF table
<1> QED
  BY <1>1, <1>2 DEF TrueTable, Fetched

\* A rebuild never says that a stock traded: only its pauses can be whole.
LEMMA RebuiltTrue ==
    ASSUME NEW codes, NEW dates, NEW cal, NEW rows, NEW ev, NEW windows,
           QuotedRows(rows), OnceEvents(ev)
    PROVE  LET build == Built(codes, dates, cal, rows, ev, CertainDates(dates, dates))
           IN  /\ QuotedRows(build.rows) /\ OnceEvents(build.events)
               /\ TrueTable(windows, build.candidate)
<1>1. CertainDates(dates, dates) = {}
  BY DEF CertainDates
<1>2. ASSUME NEW k \in Keys, Whole(Candidate(rows, ev, {})[k])
      PROVE  Attested(windows, k, Candidate(rows, ev, {})[k])
  <2> DEFINE row == Candidate(rows, ev, {})[k]
  <2>1. /\ k = <<k[1], k[2]>> /\ k[1] \in Codes /\ k[2] \in Dates
        /\ \A i \in Named : row.parts[i] = rows[i][k[2]][k[1]] /\ row.parts[i] # 0
        /\ row.pause = "paused" /\ k \in ev
    BY <1>2, CandidateIs
  <2> HIDE DEF row
  <2>2. Attested(windows, k, row)
    BY <2>1 DEF QuotedRows, OnceEvents, Attested
  <2> QED
    BY <2>2 DEF row
<1> QED
  BY <1>1, <1>2 DEF Built, TrueTable

LEMMA EndsElsewhere ==
    ASSUME NEW clean, End(clean)
    PROVE  pc' = "idle" /\ \A d \in Dates : merged'[d] = None
  BY DEF End

\* The fetches that were accepted stay known.
LEMMA FetchesGrow == TypeInv /\ [Next]_vars => fetches \subseteq fetches'
<1> SUFFICES ASSUME TypeInv, [Next]_vars PROVE fetches \subseteq fetches'
  OBVIOUS
<1>1. CASE Fetching
  <2>1. ASSUME NEW got, Heard(got) PROVE fetches \subseteq fetches'
    BY <2>1 DEF Heard
  <2> QED
    BY <1>1, <2>1, FetchCases
<1>2. CASE ~Fetching
  BY <1>2 DEF Next, vars, Fetching, Start, Rebuild, WriteArtifact, Load, ReadCanonical,
              WriteCanonical, ReadBack, Dies, Correct, OtherWrites, market
<1> QED
  BY <1>1, <1>2

LEMMA AttestedStays ==
    ASSUME NEW old, NEW new, old \subseteq new
    PROVE  /\ \A k, row : Attested(old, k, row) => Attested(new, k, row)
           /\ \A table : TrueTable(old, table) => TrueTable(new, table)
           /\ \A d, f : TrueFrame(old, d, f) => TrueFrame(new, d, f)
<1>1. \A k, row : OneFetch(old, k, row) => OneFetch(new, k, row)
  BY DEF OneFetch
<1>2. \A k, row : Attested(old, k, row) => Attested(new, k, row)
  BY <1>1 DEF Attested
<1> QED
  BY <1>2 DEF TrueTable, TrueFrame

LEMMA NextStaged == TypeInv /\ AnswerInv /\ StagedInv /\ [Next]_vars => StagedInv'
<1> SUFFICES ASSUME TypeInv, AnswerInv, StagedInv, [Next]_vars PROVE StagedInv'
  OBVIOUS
<1>1. candidate # None => TrueTable(fetches', candidate)
  BY FetchesGrow, AttestedStays DEF StagedInv
<1>2. pc = "write" => /\ QuotedRows(held.rows) /\ OnceEvents(held.events)
                      /\ TrueTable(fetches', held.candidate)
  BY FetchesGrow, AttestedStays DEF StagedInv
<1>3. ASSUME UNCHANGED <<staged, events, candidate>>, pc' # "write" \/ UNCHANGED <<pc, held>>
      PROVE  StagedInv'
  BY <1>1, <1>2, <1>3 DEF StagedInv, StagedRows
<1>4. CASE UNCHANGED vars
  BY <1>3, <1>4 DEF vars, artifacts, process
<1>5. CASE Fetching
  <2>1. UNCHANGED <<staged, events, candidate>> /\ pc = "fetch"
    BY <1>5, FetchCases DEF artifacts
  <2>2. CASE BuildRefused
    BY <1>3, <2>1, <2>2 DEF BuildRefused, End
  <2>3. ASSUME NEW got, GotNext(got), Heard(got), ~BuildRefused PROVE StagedInv'
    <3>1. got \in Answers /\ Fetched(cmd.req.dates, got, vendor)
      BY <2>1, <2>3, GotType, GotFetched
    <3>2. CASE got.calls # {}
      BY <1>3, <2>1, <2>3, <3>2 DEF Heard
    <3>3. CASE got.calls = {}
      <4>1. BuildAccepted(FetchBuilds(got)) /\ <<got.since, vendor>> \in fetches'
        BY <2>3, <3>3 DEF Heard
      <4>2. held' = FetchBuilds(got)
        BY <4>1 DEF BuildAccepted
      <4>3. /\ QuotedRows(FetchBuilds(got).rows) /\ OnceEvents(FetchBuilds(got).events)
            /\ TrueTable(fetches', FetchBuilds(got).candidate)
        BY <2>1, <3>1, <3>3, <4>1, FetchTrue
      <4> QED
        BY <1>1, <2>1, <4>2, <4>3 DEF StagedInv, StagedRows
    <3> QED
      BY <3>2, <3>3
  <2> QED
    BY <1>5, <2>2, <2>3, FetchCases
<1>6. CASE Rebuild
  <2>1. UNCHANGED <<staged, events, candidate>>
    BY <1>6 DEF Rebuild, artifacts
  <2>2. CASE BuildRefused
    BY <1>3, <2>1, <2>2, <1>6 DEF BuildRefused, End
  <2>3. CASE ~BuildRefused
    <3> DEFINE dates == IF calendar = None THEN {} ELSE calendar \cap cmd.req.dates
               rows == [i \in Named |-> [d \in Dates |-> [c \in Codes |->
                   IF c \in cmd.req.codes /\ d \in dates THEN staged[i][d][c] ELSE 0]]]
               build == Built(cmd.req.codes, dates, calendar, rows, {k \in events : k[2] \in dates},
                              CertainDates(dates, dates))
    <3>1. /\ events # None /\ \A i \in Named, d \in dates : staged[i][d] # None
          /\ BuildAccepted(build)
      BY <1>6, <2>3 DEF Rebuild
    <3>2. OnceEvents({k \in events : k[2] \in dates})
      BY <3>1 DEF StagedInv, OnceEvents
    <3>3. QuotedRows(rows)
      <4> HIDE DEF dates
      <4> QED
        BY <3>1 DEF StagedInv, StagedRows, QuotedRows
    <3>4. held' = build
      BY <3>1 DEF BuildAccepted
    <3> HIDE DEF dates, rows
    <3>5. /\ QuotedRows(build.rows) /\ OnceEvents(build.events)
          /\ TrueTable(fetches', build.candidate)
      BY <3>2, <3>3, RebuiltTrue
    <3> HIDE DEF build
    <3> QED
      BY <1>1, <2>1, <3>4, <3>5 DEF StagedInv, StagedRows
  <2> QED
    BY <2>2, <2>3
<1>7. CASE WriteArtifact
  <2>1. PICK item \in First(todo) : WriteItem(item)
    BY <1>7 DEF WriteArtifact
  <2>2. /\ pc = "write" /\ events' \in {held.events, events}
        /\ candidate' \in {held.candidate, candidate}
        /\ pc' # "write" \/ UNCHANGED <<pc, held>>
    BY <1>7 DEF WriteArtifact, WriteItem, End
  <2>3. held \in Builds /\ item \in Items(held)
    BY <2>1, <2>2, FirstIsOf DEF TypeInv, JobInv
  <2>4. StagedRows'
    <3> DEFINE n == item[1] - Last
    <3>1. staged' = IF n > 0 THEN staged
                    ELSE [staged EXCEPT ![Interfaces[item[1]]][item[2]] =
                              held.rows[Interfaces[item[1]]][item[2]]]
      BY <2>1 DEF WriteItem
    <3>2. CASE n > 0
      BY <3>1, <3>2 DEF StagedInv, StagedRows
    <3>3. CASE ~(n > 0)
      <4>1. Interfaces[item[1]] \in Named /\ item[2] \in Dates
        BY <2>3, <3>3, ItemTypes
      <4>2. staged \in [Named -> [Dates -> OrNone(Frames)]]
        BY DEF TypeInv, TypeOK, ArtifactsOK
      <4>3. \A i \in Named, d \in Dates : staged'[i][d] \in {staged[i][d], held.rows[i][d]}
        BY <3>1, <3>3, <4>1, <4>2
      <4> QED
        BY <1>2, <2>2, <4>3 DEF StagedInv, StagedRows, QuotedRows
    <3> QED
      BY <3>2, <3>3
  <2> QED
    BY <1>1, <1>2, <2>2, <2>4 DEF StagedInv
<1>8. CASE Next /\ ~(Fetching \/ Rebuild \/ WriteArtifact)
  <2>1. UNCHANGED <<staged, events, candidate>>
    BY <1>8 DEF Next, Fetching, Start, Load, ReadCanonical, WriteCanonical, ReadBack, Dies, Correct,
                OtherWrites, artifacts
  <2>2. pc' # "write" \/ UNCHANGED <<pc, held>>
    BY <1>8, EndsElsewhere DEF Next, Fetching, Start, Load, ReadCanonical, WriteCanonical, ReadBack,
                Dies, Correct, OtherWrites, process
  <2> QED
    BY <1>3, <2>1, <2>2
<1> QED
  BY <1>4, <1>5, <1>6, <1>7, <1>8

-----------------------------------------------------------------------------
(* What is promoted is what was staged. *)

\* A merged partition is as true as the candidate's rows of the scope and the partition before.
LEMMA MergeTrue ==
    ASSUME TypeInv, StagedInv, PromotedInv, pc = "read", NEW d \in Dates
    PROVE  TrueFrame(fetches, d, Merge(canonical[d], d))
<1> DEFINE old == canonical[d]
<1>1. TrueFrame(fetches, d, old) /\ TrueTable(fetches, candidate)
  BY DEF PromotedInv, StagedInv
<1>2. \A k \in InScope(cmd.req) : k \in Keys /\ Whole(candidate[k])
  <2>1. cmd.req.codes \subseteq Codes /\ cmd.req.dates \subseteq Dates
    BY CommandFields DEF TypeInv, JobInv
  <2> QED
    BY <2>1, Bounds DEF PromotedInv, InScope, Scope
<1>3. ASSUME NEW c \in Codes
      PROVE  Merge(old, d)[c] = IF <<c, d>> \in InScope(cmd.req) THEN candidate[<<c, d>>] ELSE old[c]
  BY DEF Merge
<1> HIDE DEF old
<1>4. ASSUME NEW c \in Codes, Merge(old, d)[c] \notin {None, Other}
      PROVE  Whole(Merge(old, d)[c]) /\ Attested(fetches, <<c, d>>, Merge(old, d)[c])
  <2>1. CASE <<c, d>> \in InScope(cmd.req)
    BY <1>1, <1>2, <1>3, <2>1 DEF TrueTable
  <2>2. CASE <<c, d>> \notin InScope(cmd.req)
    BY <1>1, <1>3, <1>4, <2>2 DEF TrueFrame
  <2> QED
    BY <2>1, <2>2
<1> QED
  BY <1>4 DEF TrueFrame, old

NothingPromoted ==
    /\ canonical' = canonical
    /\ merged' = merged \/ \A d \in Dates : merged'[d] = None
    /\ pc' # "read" \/ UNCHANGED <<pc, cmd, candidate>>

LEMMA OthersPromoteNothing ==
    /\ \A c \in Commands : Start(c) => NothingPromoted
    /\ Fetching \/ Rebuild \/ WriteArtifact \/ ReadBack \/ Dies \/ Correct => NothingPromoted
<1>1. ASSUME NEW c \in Commands, Start(c) PROVE NothingPromoted
  BY <1>1 DEF Start, NothingPromoted
<1>2. ASSUME NEW clean, End(clean), UNCHANGED canonical PROVE NothingPromoted
  BY <1>2, EndsElsewhere DEF NothingPromoted
<1>3. ASSUME BuildRefused, UNCHANGED canonical PROVE NothingPromoted
  BY <1>2, <1>3 DEF BuildRefused, NothingPromoted
<1>4. ASSUME NEW b, BuildAccepted(b), UNCHANGED canonical PROVE NothingPromoted
  BY <1>4 DEF BuildAccepted, NothingPromoted
<1>5. CASE Fetching
  <2>1. canonical' = canonical /\ pc = "fetch"
    BY <1>5, FetchCases
  <2>2. ASSUME NEW got, Heard(got) PROVE NothingPromoted
    BY <1>3, <1>4, <2>1, <2>2 DEF Heard, NothingPromoted
  <2> QED
    BY <1>3, <1>5, <2>1, <2>2, FetchCases
<1>6. CASE Rebuild
  BY <1>3, <1>4, <1>6 DEF Rebuild
<1>7. CASE WriteArtifact
  <2>1. canonical' = canonical
    BY <1>7 DEF WriteArtifact
  <2>2. CASE End(TRUE)
    BY <1>2, <2>1, <2>2
  <2>3. CASE ~End(TRUE)
    <3>1. merged' = merged /\ pc' # "read"
      BY <1>7, <2>3 DEF WriteArtifact
    <3> QED
      BY <2>1, <3>1 DEF NothingPromoted
  <2> QED
    BY <2>2, <2>3
<1>8. CASE ReadBack
  BY <1>2, <1>8 DEF ReadBack
<1>9. CASE Dies
  BY <1>2, <1>9 DEF Dies
<1>10. CASE Correct
  BY <1>10 DEF Correct, process, artifacts, NothingPromoted
<1> QED
  BY <1>1, <1>5, <1>6, <1>7, <1>8, <1>9, <1>10

\* The candidate that is promoted does not change while the partitions are read.
LEMMA NextPromoted == TypeInv /\ StagedInv /\ PromotedInv /\ [Next]_vars => PromotedInv'
<1> SUFFICES ASSUME TypeInv, StagedInv, PromotedInv, [Next]_vars PROVE PromotedInv'
  OBVIOUS
<1>1. /\ \A d \in Dates : merged[d] # None => TrueFrame(fetches', d, merged[d])
      /\ \A d \in Dates : TrueFrame(fetches', d, canonical[d])
  BY FetchesGrow, AttestedStays DEF PromotedInv
<1>2. CASE UNCHANGED vars
  BY <1>1, <1>2 DEF vars, PromotedInv, InScope, artifacts, process
<1>3. CASE Load
  <2>1. UNCHANGED <<candidate, canonical>>
    BY <1>3 DEF Load, artifacts
  <2>2. merged' = merged \/ \A d \in Dates : merged'[d] = None
    BY <1>3, EndsElsewhere DEF Load
  <2>3. pc' = "read" => cmd' = cmd /\ candidate # None /\ Validates(cmd.req)
    BY <1>3, EndsElsewhere DEF Load
  <2> QED
    BY <1>1, <2>1, <2>2, <2>3 DEF PromotedInv, Validates, InScope
<1>4. CASE ReadCanonical
  <2>1. PICK d \in Dates : merged' = [merged EXCEPT ![d] = Merge(canonical[d], d)]
    BY <1>4, ReadCases
  <2>2. merged \in [Dates -> OrNone(Canonical)]
    BY DEF TypeInv, TypeOK, ProcessOK
  <2>3. pc = "read" /\ UNCHANGED <<candidate, canonical, cmd>>
    BY <1>4 DEF ReadCanonical, artifacts
  <2>4. TrueFrame(fetches', d, Merge(canonical[d], d))
    BY <2>3, MergeTrue, FetchesGrow, AttestedStays
  <2>5. \A e \in Dates : merged'[e] # None => TrueFrame(fetches', e, merged'[e])
    BY <1>1, <2>1, <2>2, <2>4
  <2> QED
    BY <1>1, <2>3, <2>5 DEF PromotedInv, InScope
<1>5. CASE WriteCanonical
  <2>1. PICK item \in First(todo) : canonical' = [canonical EXCEPT ![item[1]] = merged[item[1]]]
    BY <1>5 DEF WriteCanonical
  <2>2. pc = "apply" /\ pc' # "read" /\ merged' = merged /\ item \in todo
    BY <1>5, <2>1, FirstIsOf DEF WriteCanonical
  <2>3. item[1] \in Dates /\ merged[item[1]] # None
    BY <2>2 DEF TypeInv, JobInv
  <2>4. canonical \in [Dates -> Canonical]
    BY DEF TypeInv, TypeOK
  <2> QED
    BY <1>1, <2>1, <2>2, <2>3, <2>4 DEF PromotedInv
<1>6. CASE OtherWrites
  <2>1. PICK k \in Keys : canonical' = [canonical EXCEPT ![k[2]][k[1]] = Other]
    BY <1>6 DEF OtherWrites
  <2>2. canonical \in [Dates -> [Codes -> OrNone(Rows) \cup {Other}]]
    BY DEF TypeInv, TypeOK, Canonical
  <2>3. \A d \in Dates, c \in Codes : canonical'[d][c] \in {canonical[d][c], Other}
    BY <2>1, <2>2
  <2>4. \A d \in Dates : TrueFrame(fetches', d, canonical'[d])
    BY <1>1, <2>3 DEF TrueFrame
  <2> QED
    BY <1>1, <1>6, <2>4 DEF OtherWrites, PromotedInv, InScope, artifacts, process
<1>7. CASE Next /\ ~(Load \/ ReadCanonical \/ WriteCanonical \/ OtherWrites)
  <2>1. NothingPromoted
    BY <1>7, OthersPromoteNothing DEF Next, Fetching
  <2> QED
    BY <1>1, <2>1 DEF NothingPromoted, PromotedInv, InScope
<1> QED
  BY <1>2, <1>3, <1>4, <1>5, <1>6, <1>7 DEF Next

-----------------------------------------------------------------------------
LEMMA InitInv == Init => IInv
<1> SUFFICES ASSUME Init PROVE IInv
  OBVIOUS
<1>1. ArtifactsOK
  <2>1. staged \in [Named -> [Dates -> OrNone(Frames)]]
    BY DEF Init, OrNone
  <2>2. calendar = None /\ events = None /\ candidate = None /\ suspension = FALSE
        /\ preflight = None /\ manifest = None
    BY DEF Init
  <2> QED
    BY <2>1, <2>2 DEF ArtifactsOK, OrNone
<1>2. ProcessOK /\ JobInv
  <2>1. merged \in [Dates -> OrNone(Canonical)]
    BY DEF Init, OrNone
  <2>2. pc = "idle" /\ cmd = None /\ blocked = FALSE /\ held = None /\ todo = {} /\ verdict = None
        /\ answer = None
    BY DEF Init
  <2>3. ProcessOK
    BY <2>1, <2>2 DEF ProcessOK, OrNone
  <2>4. JobInv
    BY <2>2 DEF JobInv
  <2> QED
    BY <2>3, <2>4
<1>3. canonical \in [Dates -> Canonical] /\ vendor \in Vintages /\ fetches = {}
      /\ edits \in 0..MaxEdits /\ faults \in 0..MaxFaults
  <2>1. canonical \in [Dates -> Canonical]
    BY DEF Init, Canonical, OrNone
  <2>2. 1 \in Vintages
    BY Bounds, PriceLandingAssumption DEF Vintages
  <2> QED
    BY <2>1, <2>2, Bounds DEF Init
<1>4. AnswerInv /\ StagedInv /\ PromotedInv
  BY DEF Init, AnswerInv, StagedInv, StagedRows, PromotedInv, TrueFrame
<1> QED
  BY <1>1, <1>2, <1>3, <1>4 DEF IInv, TypeInv, TypeOK

LEMMA Inductive == IInv /\ [Next]_vars => IInv'
  BY NextType, NextAnswer, NextStaged, NextPromoted DEF IInv

LEMMA Invariance == Spec => []IInv
  BY InitInv, Inductive, PTL DEF Spec

\* Every state is of the stated types: a command writes only artifacts of its own build, and a
\* partition is written only with what was merged for it.
THEOREM TypeCorrect == Spec => []TypeOK
<1>1. IInv => TypeOK
  BY DEF IInv, TypeInv
<1> QED
  BY <1>1, Invariance, PTL

\* run_promotion writes no price row that misses a value or has one the vendor never quoted; a row
\* it marks as trading was answered in one fetch, the price first and its events no earlier than
\* any of its values, whatever died between the artifacts of a batch, whatever staging was reused
\* and however often the vendor corrected its data, between the calls of a fetch too.
THEOREM PromotedTrue == Spec => []PromotedIsTrue
<1>1. IInv => PromotedIsTrue
  BY DEF IInv, PromotedInv, TrueFrame, Attested, PromotedIsTrue
<1> QED
  BY <1>1, Invariance, PTL
====
