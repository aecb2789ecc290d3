---------------------------- MODULE UsageMetrics ----------------------------
(***************************************************************************)
(* From usage rows to figures (internal/metric): stream rows of a request   *)
(* are merged, the merged rows are summed by agent, by day and by session,  *)
(* and a window keeps the rows of some days.  Every function here is pure.  *)
(*                                                                         *)
(* An instant is a number, DayLength of them make a local day, and NoTime   *)
(* is the zero time.  A week has WeekLength days and day 1 is a Monday.     *)
(***************************************************************************)
EXTENDS Integers, SequencesExt

CONSTANTS
    Components,  \* miss, cache read, cache create and output
    MaxInt64,
    DayLength,
    WeekLength,
    WallWeeks,   \* whole weeks of the calendar before the current one
    MaxDrill     \* rows of a session table

ASSUME MetricsAssumption ==
    /\ MaxInt64 \in Nat /\ DayLength \in Nat \ {0} /\ MaxDrill \in Nat \ {0}
    /\ WeekLength \in Nat \ {0} /\ WallWeeks \in Nat /\ IsFiniteSet(Components)

NoTime == 0
DayOf(at) == (at + DayLength - 1) \div DayLength
StartOf(day) == (day - 1) * DayLength + 1

satAdd(x, y) ==
    IF x + y > MaxInt64 THEN MaxInt64 ELSE IF x + y < -MaxInt64 - 1 THEN -MaxInt64 - 1 ELSE x + y

NoTokens == [c \in Components |-> 0]
Tally(tok) == FoldFunction(satAdd, 0, tok)
AddTokens(s, t) == [c \in Components |-> satAdd(s[c], t[c])]

qualityRank(q) ==
    CASE q = "degraded" -> 3 [] q = "estimated" -> 2 [] q = "authoritative" -> 1 [] OTHER -> 0

WorseQuality(p, q) == IF qualityRank(q) > qualityRank(p) THEN q ELSE p

-----------------------------------------------------------------------------
(* Rows: [src, req, session, at, tok, quality, deriv, skip].  A request or a *)
(* session id is a tuple, NoId when it is missing.  A row without a request  *)
(* id never merges; skip keeps a row out of the request count.               *)

NoId == <<>>

usableTokens(row) == \A c \in Components : row.tok[c] >= 0

\* The latest row dates the request, and each component keeps its maximum.
maxEvent(a, b) ==
    [a EXCEPT !.tok = [c \in Components |-> IF b.tok[c] > a.tok[c] THEN b.tok[c] ELSE a.tok[c]],
              !.quality = WorseQuality(@, b.quality),
              !.at = IF b.at > @ THEN b.at ELSE @]

\* The rows of out that have the request of row: one at most.
SameRequest(out, row) ==
    {i \in DOMAIN out : row.req # NoId /\ out[i].src = row.src /\ out[i].req = row.req}

MergeRow(out, row) ==
    LET same == SameRequest(out, row)
    IN IF ~usableTokens(row) THEN out
       ELSE IF same = {} THEN Append(out, row)
       ELSE [i \in DOMAIN out |-> IF i \in same THEN maxEvent(out[i], row) ELSE out[i]]

mergeByRequest(rows) == FoldLeft(MergeRow, <<>>, rows)

-----------------------------------------------------------------------------
NoSlice == [tok |-> NoTokens, requests |-> 0, turns |-> 0, records |-> 0, quality |-> ""]
Total(slice) == Tally(slice.tok)

addSlice(slice, row) ==
    [slice EXCEPT !.tok = AddTokens(@, row.tok),
                  !.requests = IF row.skip THEN @ ELSE @ + 1,
                  !.records = @ + 1,
                  !.quality = WorseQuality(@, row.quality)]

\* Turns: [src, session, at].  They count for all, and for their agent.
SliceOf(rows, turns) == [FoldLeft(addSlice, NoSlice, rows) EXCEPT !.turns = Len(turns)]

\* The rows that pass a test, in their order (a fold, which proofs can follow).
Keeping(rows, Test(_)) == FoldLeft(LAMBDA out, r : IF Test(r) THEN Append(out, r) ELSE out, <<>>, rows)

OfSource(rows, src) == Keeping(rows, LAMBDA r : r.src = src)
SourcesOf(rows) == {r.src : r \in ToSet(rows)}

\* A row without a session stands under its request.
SessionId(row) == IF row.session # NoId THEN row.session ELSE row.req

Sessions(rows) == {SessionId(r) : r \in ToSet(rows)}

\* A turn is counted for a session that some row names.
SessionSlice(rows, turns, session) ==
    [SliceOf(SelectSeq(rows, LAMBDA r : SessionId(r) = session),
             SelectSeq(turns, LAMBDA t : t.session # NoId /\ t.session = session))
       EXCEPT !.records = 0]

\* Mutant: the table is cut, nothing stands for the rest.
foldSessions_Cut(table) == IF Len(table) <= MaxDrill THEN table ELSE SubSeq(table, 1, MaxDrill - 1)

\* The smallest sessions of a long table become one row.
foldSessions(table) ==
    LET AddRow(s, t) == [s EXCEPT !.tok = AddTokens(@, t.tok), !.requests = satAdd(@, t.requests),
                                  !.turns = satAdd(@, t.turns)]
    IN IF Len(table) <= MaxDrill THEN table
       ELSE Append(SubSeq(table, 1, MaxDrill - 1),
                   FoldLeft(AddRow, NoSlice, SubSeq(table, MaxDrill, Len(table))))

\* The session table, largest first.
buildDrill(rows, turns) ==
    LET ids == SetToSeq(Sessions(rows))
    IN foldSessions(SortSeq([i \in DOMAIN ids |-> SessionSlice(rows, turns, ids[i])],
                            LAMBDA s, t : Total(s) > Total(t)))

-----------------------------------------------------------------------------
(* The calendar: tokens by day, of the rows that have a time.                *)

UsedOn(days, d) == IF d \in DOMAIN days THEN days[d] ELSE 0

bucketDays(rows) ==
    LET With(days, d, n) == [e \in DOMAIN days \cup {d} |-> IF e = d THEN n ELSE days[e]]
        AddDay(days, r) ==
          IF r.at = NoTime \/ Tally(r.tok) = 0 THEN days
          ELSE With(days, DayOf(r.at), satAdd(UsedOn(days, DayOf(r.at)), Tally(r.tok)))
    IN FoldLeft(AddDay, <<>>, rows)

\* Mutant: a day without usage so far ends the streak at once.
currentStreak_FromToday(days, today) ==
    Max({n \in 0..today : \A i \in 0..(n - 1) : UsedOn(days, today - i) > 0})

\* A streak that reaches yesterday is not broken by a day that is not over.
currentStreak(days, today) ==
    LET anchor == IF UsedOn(days, today) = 0 THEN today - 1 ELSE today
    IN Max({n \in 0..today : \A i \in 0..(n - 1) : UsedOn(days, anchor - i) > 0})

\* A day after today is not reached.
longestStreak(days, today) ==
    Max({0} \cup {p[2] - p[1] + 1 : p \in {q \in (1..today) \X (1..today) :
                    q[1] <= q[2] /\ \A f \in q[1]..q[2] : UsedOn(days, f) > 0}})

\* The largest day, the later of two equal ones; 0 when nothing was used.
PeakDay(days) ==
    Max({0} \cup {d \in DOMAIN days : \A e \in DOMAIN days : days[e] <= days[d]})

computeStats(days, today) ==
    [peak |-> PeakDay(days), today |-> UsedOn(days, today),
     current |-> currentStreak(days, today), longest |-> longestStreak(days, today)]

WeekStart(today) == today - ((today - 1) % WeekLength)

\* The calendar starts on a Monday.
WindowFrom(today) == WeekStart(today) - WallWeeks * WeekLength

\* Nearest rank: the quantile k/n of an ascending sequence.
quantileNearest(sorted, k, n) == sorted[Max({1, (Len(sorted) * k + n - 1) \div n})]

\* The shade of a day among n quantiles; one shade when all days are equal.
intensityLevel(total, sorted, n) ==
    IF total <= 0 \/ sorted = <<>> THEN 0
    ELSE IF quantileNearest(sorted, 1, n) = sorted[Len(sorted)] THEN (n + 1) \div 2
    ELSE Min({n} \cup {k \in 1..(n - 1) : total <= quantileNearest(sorted, k, n)})

-----------------------------------------------------------------------------
(* Windows: [from, to) over instants, each side open when it is NoTime.      *)

AllTime == [from |-> NoTime, to |-> NoTime]

\* ParseWindow: today, or the last n days with today.
LastDays(n, today) == [from |-> StartOf(today - n + 1), to |-> StartOf(today + 1)]

\* An undated row is in no window but the open one.
Within(window, at) ==
    \/ window = AllTime
    \/ /\ at # NoTime
       /\ window.from # NoTime => at >= window.from
       /\ window.to # NoTime => at < window.to

\* The window of the same length that ends where this one starts.
Previous(window) == [from |-> window.from - (window.to - window.from), to |-> window.from]

filterWindow(rows, window) == Keeping(rows, LAMBDA r : Within(window, r.at))

(* A summary is what is derived from the merged rows.                        *)
Summary(merged, turns) ==
    [all |-> SliceOf(merged, turns),
     bySource |-> [s \in SourcesOf(merged) \cup SourcesOf(turns) |->
                     SliceOf(OfSource(merged, s), OfSource(turns, s))],
     days |-> bucketDays(merged),
     daysBySource |-> [s \in SourcesOf(merged) |-> bucketDays(OfSource(merged, s))]]

AggregateAt(rows, turns) == Summary(mergeByRequest(rows), turns)

\* The terminal report: one calendar of whole requests, then the window.
ReportSummary(rows, turns, window) ==
    AggregateAt(filterWindow(mergeByRequest(rows), window), filterWindow(turns, window))

\* The dashboard and the JSON: the window keeps stream rows, then they merge.
ApplyWindow(rows, turns, window) ==
    AggregateAt(filterWindow(rows, window), filterWindow(turns, window))

\* Both windows of a comparison, agents of either side.
Compared(cur, prev) ==
    LET Of(sum, s) == IF s \in DOMAIN sum.bySource THEN Total(sum.bySource[s]) ELSE 0
    IN [s \in DOMAIN cur.bySource \cup DOMAIN prev.bySource |-> <<Of(cur, s), Of(prev, s)>>]
CompareWindows(rows, turns, window) ==
    Compared(ApplyWindow(rows, turns, window), ApplyWindow(rows, turns, Previous(window)))
-----------------------------------------------------------------------------
(* The hosted dashboard of one device: the device sums its lines by day      *)
(* (internal/syncagg/batch.go), the server sums the days that it keeps       *)
(* (internal/hosted/dashboard.go).  Vendor and model are left out, and so    *)
(* are rows of an account API (module UsageSync has both kinds).             *)

\* Here the first line dates the request, and not the latest one.
syncMaxEvent(a, b) == [maxEvent(a, b) EXCEPT !.at = a.at, !.skip = a.skip \/ b.skip,
                                             !.quality = IF a.quality = "" THEN b.quality ELSE a.quality]

syncMergeRow(out, row) ==
    LET same == SameRequest(out, row)
    IN IF same = {} THEN Append(out, row)
       ELSE [i \in DOMAIN out |-> IF i \in same THEN syncMaxEvent(out[i], row) ELSE out[i]]

syncMergeByRequest(rows) == FoldLeft(syncMergeRow, <<>>, rows)

AddPlain(tok, row) == [c \in Components |-> tok[c] + row.tok[c]]
\* syncagg.Build: model-days under <<agent, day>>; an undated line is left out,
\* and so are the turns of a day without usage.
DayQuality(list) ==
    IF \E r \in ToSet(list) : r.quality = "authoritative" THEN "authoritative" ELSE Head(list).quality
ModelDays(dated, turns) ==
    LET On(k) == SelectSeq(dated, LAMBDA r : r.src = k[1] /\ DayOf(r.at) = k[2])
    IN [k \in {<<r.src, DayOf(r.at)>> : r \in ToSet(dated)} |->
          [tok |-> FoldLeft(AddPlain, NoTokens, On(k)), quality |-> DayQuality(On(k)),
           requests |-> Len(SelectSeq(On(k), LAMBDA r : ~r.skip)),
           turns |-> Len(SelectSeq(turns, LAMBDA t : t.at # NoTime /\ t.src = k[1] /\ DayOf(t.at) = k[2]))]]
DailyModelUsage(rows, turns) ==
    ModelDays(SelectSeq(syncMergeByRequest(rows), LAMBDA r : r.at # NoTime), turns)

ListUsage(daily, from, to) == [k \in {j \in DOMAIN daily : j[2] \in from..to} |-> daily[k]]

\* A model-day becomes one row at the noon of its day that counts no request;
\* the requests are then summed beside.
AtNoon(k) == StartOf(k[2]) + DayLength \div 2
DayRows(daily, keys) ==
    [i \in DOMAIN keys |->
       [src |-> keys[i][1], req |-> NoId, session |-> NoId, at |-> AtNoon(keys[i]), tok |-> daily[keys[i]].tok,
        quality |-> daily[keys[i]].quality, deriv |-> "", skip |-> TRUE]]
DayTurns(daily, keys) ==
    LET Turns(list, k) == list \o [i \in 1..daily[k].turns |-> [src |-> k[1], session |-> NoId, at |-> AtNoon(k)]]
    IN FoldLeft(Turns, <<>>, keys)
RequestsOf(daily, S) == FoldFunctionOnSet(LAMBDA row, n : n + row.requests, 0, daily, S)
WithRequests(sum, daily) ==
    [sum EXCEPT !.all.requests = RequestsOf(daily, DOMAIN daily),
                !.bySource = [s \in DOMAIN @ |->
                    [@[s] EXCEPT !.requests = RequestsOf(daily, {k \in DOMAIN daily : k[1] = s})]]]
aggregateRows(daily) ==
    LET keys == SetToSeq(DOMAIN daily)
    IN WithRequests(AggregateAt(DayRows(daily, keys), DayTurns(daily, keys)), daily)

\* getDashboard: the days of the window, or every day that is not after today.
getDashboard(daily, window, today) ==
    aggregateRows(IF window = AllTime THEN ListUsage(daily, 0, today)
                  ELSE ListUsage(daily, DayOf(window.from), DayOf(window.to - 1)))
=============================================================================
