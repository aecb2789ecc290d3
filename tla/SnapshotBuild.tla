--------------------------- MODULE SnapshotBuild ---------------------------
(***************************************************************************)
(* From the rows of one scan to the public snapshot (publicprofile/build.go *)
(* and what it calls), the reuse of an account observation when its API     *)
(* failed (retain.go), and the checks of a snapshot (validate.go).          *)
(*                                                                         *)
(* An input is [rows, turns, today, offline, errors]: errors gives each     *)
(* source "", "auth" or "api".  A snapshot has the fields PublicationPolicy *)
(* reads of it, with the periods and the wall they come from.               *)
(***************************************************************************)
EXTENDS UsageMetrics, PublicationPolicy

CONSTANTS
    Cloud,         \* agents whose usage is read from an account API
    Narrated,      \* the one whose fresh reading is dated by the lookback
    Other,         \* the row that stands for the smallest agents
    MaxBreakdown,
    MaxSeries,
    Noon           \* instants from the local midnight of a day to noon UTC of
                   \* the same date: of the next local day east of UTC+12

ASSUME SnapshotAssumption ==
    /\ Narrated \in Cloud /\ Other \notin Cloud
    /\ MaxBreakdown \in Nat \ {0} /\ MaxSeries \in Nat \ {0} /\ Noon \in Nat

AccountRow == {"provider_api", "retained_api"}

tokensUnavailable(slice) == Total(slice) <= 0 /\ slice.quality # "authoritative"

tokenStatusOf(slice) ==
    IF tokensUnavailable(slice) THEN "unavailable"
    ELSE IF slice.quality \in {"degraded", "estimated"} THEN "partial" ELSE "available"

Used(slice) == Total(slice) # 0 \/ slice.requests # 0 \/ slice.turns # 0

dataStatus(sum) ==
    LET slices == {sum.all} \cup {sum.bySource[s] : s \in DOMAIN sum.bySource}
    IN IF ~Used(sum.all) THEN "unavailable"
       ELSE IF \E s \in slices : Used(s) /\ s.quality \in {"degraded", "estimated"}
            THEN "partial" ELSE "available"

-----------------------------------------------------------------------------
(* Coverage of one agent.                                                    *)

RowsOf(id, in) == {r \in ToSet(in.rows) : r.src = id}
hasFreshAccountAPI(id, in) == \E r \in RowsOf(id, in) : r.deriv = "provider_api"
hasRetainedAccount(id, in) == \E r \in RowsOf(id, in) : r.deriv = "retained_api"
SourceError(id, in) == IF id \in DOMAIN in.errors THEN in.errors[id] ELSE ""

tokenSourceOf(id, in) ==
    LET kinds == {r.deriv : r \in RowsOf(id, in)}
        account == kinds \cap AccountRow # {}
        local == kinds \ (AccountRow \cup {"derived"}) # {}
    IN CASE account -> "account_api"
         [] ~account /\ ~local /\ "derived" \in kinds -> "derived"
         [] ~account /\ local -> "local"
         [] OTHER -> "unknown"

\* The label of a window that is read off the rows, not off the lookback.
DatedByRows(id, in) ==
    /\ ~(/\ id = Narrated /\ hasFreshAccountAPI(id, in) /\ ~hasRetainedAccount(id, in)
         /\ SourceError(id, in) = "")
    /\ \E r \in RowsOf(id, in) : r.deriv \in AccountRow /\ r.at # NoTime

\* Mutant: an error always names the row, even one that was read before.
tokenReason_ErrorFirst(id, in) ==
    IF SourceError(id, in) = "auth" THEN "auth_missing"
    ELSE IF SourceError(id, in) # "" THEN "api_failed"
    ELSE IF id \in Cloud THEN "account_api_skipped" ELSE "local_tokens_missing"

tokenReason(id, in) ==
    LET fresh == hasFreshAccountAPI(id, in)
    IN IF hasRetainedAccount(id, in) /\ ~fresh THEN ""
       ELSE IF fresh /\ SourceError(id, in) # "" THEN ""
       ELSE IF in.offline /\ id \in Cloud THEN "account_api_skipped"
       ELSE IF SourceError(id, in) = "auth" THEN "auth_missing"
       ELSE IF SourceError(id, in) # "" THEN "api_failed"
       ELSE IF id \in Cloud THEN "account_api_skipped" ELSE "local_tokens_missing"

FailureReasons == {"api_failed", "auth_missing", "account_api_skipped"}

\* A row of the breakdown with its coverage.
BreakdownRow(id, slice, in) ==
    LET status == tokenStatusOf(slice)
        reason == IF status = "available" THEN "" ELSE tokenReason(id, in)
    IN [total |-> IF status = "unavailable" THEN None ELSE Total(slice),
        tok |-> slice.tok,
        requests |-> slice.requests,
        tokens |-> status,
        status |-> status,
        failed |-> reason \in FailureReasons,
        held |-> tokenSourceOf(id, in) = "account_api" /\ reason = "" /\ DatedByRows(id, in)]

\* What is folded keeps its sums and no quality.
FoldRest(slices) ==
    LET AddSlice(s, t) == [s EXCEPT !.tok = AddTokens(@, t.tok), !.requests = satAdd(@, t.requests)]
    IN FoldLeft(AddSlice, NoSlice, slices)

\* The largest agents, and every cloud agent, by name; the rest is one row.
Breakdown(bySource, named, rest, in) ==
    LET folded == IF Total(rest) > 0 \/ rest.requests > 0 THEN {Other} ELSE {}
    IN [id \in named \cup folded |-> BreakdownRow(id, IF id \in named THEN bySource[id] ELSE rest, in)]
NamedOf(list) == {list[i] : i \in {j \in DOMAIN list : j <= MaxBreakdown \/ list[j] \in Cloud}}
SplitBreakdown(bySource, list, in) ==
    LET rest == FoldRest([i \in DOMAIN list |->
                  IF list[i] \in NamedOf(list) THEN NoSlice ELSE bySource[list[i]]])
    IN Breakdown(bySource, NamedOf(list), rest, in)
Kept(bySource) == {s \in DOMAIN bySource : Total(bySource[s]) # 0 \/ bySource[s].requests # 0}
projectBreakdown(bySource, in) ==
    SplitBreakdown(bySource, SortSeq(SetToSeq(Kept(bySource)),
                                     LAMBDA s, t : Total(bySource[s]) > Total(bySource[t])), in)

-----------------------------------------------------------------------------
(* The wall: whole weeks up to the end of the current one.                   *)

WallDates(today) == WindowFrom(today)..(WeekStart(today) + WeekLength - 1)

\* A cell is active, empty, unknown or in the future; the last three are 0.
CellState(counts, day, today, unavailable) ==
    CASE day > today -> "future"
      [] day <= today /\ unavailable -> "unknown"
      [] day <= today /\ ~unavailable /\ UsedOn(counts, day) > 0 -> "active"
      [] OTHER -> "empty"

SeriesFromCounts(counts, today, unavailable) ==
    [d \in WallDates(today) |->
        IF CellState(counts, d, today, unavailable) = "active" THEN counts[d] ELSE 0]

VisibleSum(counts, today) ==
    FoldFunctionOnSet(satAdd, 0, counts, DOMAIN counts \cap (WindowFrom(today)..today))

\* The shades of a series come from its visible cells alone.
levelsFromVisible(values) ==
    LET lit == {d \in DOMAIN values : values[d] > 0}
        sorted == SortSeq([i \in 1..Cardinality(lit) |-> values[SetToSeq(lit)[i]]], <)
    IN [d \in DOMAIN values |-> intensityLevel(values[d], sorted, 5)]

\* The series of the agents with the most usage on the wall.
AgentSeries(sum, today, unavailable) ==
    LET shown == {s \in DOMAIN sum.daysBySource :
                    ~tokensUnavailable(sum.bySource[s]) /\ VisibleSum(sum.daysBySource[s], today) # 0}
        list == SortSeq(SetToSeq(shown), LAMBDA s, t :
                    VisibleSum(sum.daysBySource[s], today) > VisibleSum(sum.daysBySource[t], today))
        first == {list[i] : i \in {j \in DOMAIN list : j <= MaxSeries}}
    IN [s \in first |-> SeriesFromCounts(sum.daysBySource[s], today, unavailable)]

-----------------------------------------------------------------------------
PeriodWindows(today) ==
    [all |-> AllTime, today |-> LastDays(1, today), week |-> LastDays(WeekLength, today),
     wall |-> [from |-> StartOf(WindowFrom(today)), to |-> StartOf(today + 1)]]

PeriodOf(sum, in, unavailable) ==
    LET status == tokenStatusOf(sum.all)
        hidden == unavailable \/ status = "unavailable"
    IN [total |-> IF hidden THEN None ELSE Total(sum.all),
        tok |-> IF hidden THEN NoTokens ELSE sum.all.tok,
        status |-> IF hidden THEN "unavailable" ELSE status,
        requests |-> IF unavailable THEN 0 ELSE sum.all.requests,
        turns |-> IF unavailable THEN 0 ELSE sum.all.turns,
        active |-> IF unavailable THEN 0 ELSE Cardinality({d \in DOMAIN sum.days : d <= in.today}),
        peak |-> IF unavailable THEN 0 ELSE PeakDay(sum.days),
        agents |-> IF unavailable THEN <<>> ELSE projectBreakdown(sum.bySource, in)]
projectPeriod(window, in, unavailable) ==
    PeriodOf(AggregateAt(filterWindow(in.rows, window), filterWindow(in.turns, window)), in, unavailable)

\* Build merges once, before any window is taken.
Canonical(in) == [in EXCEPT !.rows = mergeByRequest(@)]

Periods(in, unavailable) ==
    LET windows == PeriodWindows(in.today)
    IN [p \in DOMAIN windows |-> projectPeriod(windows[p], in, unavailable)]
Snapshot(in, sum, periods, status) ==
    LET unavailable == status = "unavailable"
    IN [date |-> in.today,
        dataStatus |-> status,
        total |-> periods.all.total,
        agents |-> periods.all.agents,
        periods |-> periods,
        wall |-> SeriesFromCounts(sum.days, in.today, unavailable),
        series |-> AgentSeries(sum, in.today, unavailable)]
BuildFrom(in, sum) == Snapshot(in, sum, Periods(in, dataStatus(sum) = "unavailable"), dataStatus(sum))
Build(raw) == LET in == Canonical(raw) IN BuildFrom(in, AggregateAt(in.rows, in.turns))

-----------------------------------------------------------------------------
(* validate.go: what a snapshot must satisfy to be sent or stored.           *)

checkTotals(period) == period.total # None => Tally(period.tok) = period.total

reconcile(period) ==
    LET known == {id \in DOMAIN period.agents : period.agents[id].total # None}
    IN period.total # None =>
         /\ FoldFunctionOnSet(LAMBDA row, n : satAdd(row.total, n), 0, period.agents, known) <= period.total
         /\ \A id \in DOMAIN period.agents :
              LET row == period.agents[id]
              IN row.tokens = row.status /\ (row.tokens = "unavailable" <=> row.total = None)

Validate(snap) ==
    /\ \A p \in DOMAIN snap.periods : checkTotals(snap.periods[p]) /\ reconcile(snap.periods[p])
    /\ \A s \in DOMAIN snap.series : DOMAIN snap.series[s] = DOMAIN snap.wall

-----------------------------------------------------------------------------
(* retain.go: an account observation stands in for a fetch that failed.      *)

AccountFetchFailed(rows, errors, src) ==
    /\ \A i \in DOMAIN rows : ~(rows[i].src = src /\ rows[i].deriv = "provider_api")
    /\ src \in DOMAIN errors /\ errors[src] # ""

RetainedRow(src, day, tok) ==
    [src |-> src, req |-> <<"retained", day>>, session |-> NoId, at |-> StartOf(day) + Noon, tok |-> tok,
     quality |-> "degraded", deriv |-> "retained_api", skip |-> TRUE]

\* Mutant: local tokens of the source stay beside its observation.
StripLocal_Kept(row) == row

StripLocal(row) == [row EXCEPT !.tok = NoTokens, !.quality = "", !.deriv = ""]

ApplyRetainedEvents(rows, retained) ==
    LET sources == {retained[i].src : i \in DOMAIN retained}
    IN [i \in DOMAIN rows |-> IF rows[i].src \in sources /\ rows[i].deriv # "retained_api"
                              THEN StripLocal(rows[i]) ELSE rows[i]] \o retained

\* Mutant: what the rounding leaves is lost.
DayShare_Floor(left, weight, order) == [c \in Components |-> (left[c] * weight) \div Tally(left)]

Spread(floor, left, weight, rank) ==
    LET open == {c \in Components : floor[c] < left[c]}
        place(c) == Cardinality({d \in open : rank[d] < rank[c]})
    IN [c \in Components |->
          IF c \in open /\ place(c) < weight - Tally(floor) THEN floor[c] + 1 ELSE floor[c]]

\* A day takes its share of what is left of each component, rounded down; the
\* largest remainders take what the rounding left, in the order of components.
DayShare(left, weight, order) ==
    LET whole == Tally(left)
        rem == [c \in Components |-> (left[c] * weight) % whole]
    IN Spread([c \in Components |-> (left[c] * weight) \div whole], left, weight,
              [c \in Components |-> Cardinality({d \in Components :
                  rem[d] > rem[c] \/ (rem[d] = rem[c] /\ order[d] < order[c])})])

\* The last day receives the remaining pool; NoSplit when a day cannot be filled.
NoSplit == <<>>
Given(acc, w, share) ==
    IF Tally(share) # w THEN [acc EXCEPT !.left = NoSplit]
    ELSE [left |-> [c \in Components |-> acc.left[c] - share[c]], out |-> Append(acc.out, share)]
allocateComponents(weights, comps, order) ==
    LET Step(acc, w) ==
          IF acc.left = NoSplit THEN acc
          ELSE Given(acc, w, IF Len(acc.out) = Len(weights) - 1 THEN acc.left ELSE DayShare(acc.left, w, order))
        end == FoldLeft(Step, [left |-> comps, out |-> <<>>], weights)
    IN IF weights = <<>> \/ FoldSeq(+, 0, weights) # Tally(comps) \/ end.left = NoSplit
       THEN NoSplit ELSE end.out

\* One agent's days of a verified snapshot; no day when they are not its total.
SplitDays(series, lit, tok, order) ==
    LET split == allocateComponents([i \in DOMAIN lit |-> series[lit[i]]], tok, order)
    IN IF split = NoSplit THEN <<>> ELSE [i \in DOMAIN lit |-> [day |-> lit[i], tok |-> split[i]]]
DaysFromSnapshot(snap, src, order) ==
    IF src \notin DOMAIN snap.agents \/ src \notin DOMAIN snap.series THEN <<>>
    ELSE LET row == snap.agents[src]
             series == snap.series[src]
         IN IF ~measuredAgent(row) THEN <<>>
            ELSE SplitDays(series, SetToSortSeq({d \in DOMAIN series : series[d] > 0}, <), row.tok, order)

EventsFromDays(src, days) == [i \in DOMAIN days |-> RetainedRow(src, days[i].day, days[i].tok)]
=============================================================================
