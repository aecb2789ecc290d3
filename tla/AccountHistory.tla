-------------------------- MODULE AccountHistory --------------------------
(***************************************************************************)
(* The Cursor account behind one machine: which UTC months a scan asks the  *)
(* account API for (adapter/cursor/api.go), what the ledger remembers of    *)
(* the answers (ledger/observe.go, ledger.go), whose history it is          *)
(* (scan.go prepareCursor, cursor_link.go, cursor_cmd.go), and which days    *)
(* a report and a public refresh show (run.go, profile_refresh.go).         *)
(*                                                                         *)
(* A day is a number, MonthLength of them make a UTC month; the usage of a  *)
(* day is one number.  An observation is [ns, kind, from, to, days, at,     *)
(* stamp]: ns is the ledger source, Chain or an account's own namespace;    *)
(* kind is "window" (a finished request), "complete" (NoteAPI) or           *)
(* "snapshot" (a verified public snapshot); at orders the table.            *)
(***************************************************************************)
EXTENDS Integers, SequencesExt, FiniteSetsExt

CONSTANTS
    Subjects,     \* accounts that may be signed in
    Nameless,     \* those whose session names no subject
    Nobody,       \* no subject in a meta value
    Chain,        \* the ledger source "cursor"
    MonthLength,
    Lookback,     \* days before today that are asked for (53 weeks)
    RecheckDays,  \* first days of a month in which the last one is read again
    FirstDay,     \* today in the initial state
    OldDays,      \* the days of a history from before accounts were bound
    MaxDay, MaxUse, MaxReads    \* bounds

ASSUME HistoryAssumption ==
    /\ Nameless \subseteq Subjects /\ Nobody \notin Subjects /\ Chain \notin Subjects
    /\ MonthLength \in Nat \ {0} /\ Lookback \in Nat /\ MonthLength <= Lookback /\ RecheckDays \in Nat
    /\ MaxDay \in Nat /\ FirstDay \in 1..MaxDay /\ MaxUse \in Nat /\ MaxReads \in Nat
    /\ OldDays \in SUBSET (1..FirstDay)

VARIABLES
    today,
    usage,        \* what each account has really used on each day
    signed,       \* the account signed in to Cursor
    obs,          \* api_observations with their days, ordered
    meta,         \* [subject, decision, who]: the account subject and the answer
    read,         \* the last scan or refresh, until the world moves on
    reads         \* bound
historyVars == <<today, usage, signed, obs, meta, read, reads>>

NoDay == 0
Days == 1..MaxDay
Sub(s) == IF s \in Nameless THEN Nobody ELSE s
Sum2(f, S) == FoldFunctionOnSet(+, 0, f, S)

NoRead == [kind |-> "none", rows |-> {}, error |-> "", asked |-> {}, protect |-> NoDay]

-----------------------------------------------------------------------------
(* Windows: the UTC months of the lookback, the last one open.               *)

MonthOf(d) == (d + MonthLength - 1) \div MonthLength
FirstOf(m) == (m - 1) * MonthLength + 1
DayOfMonth(d) == d - FirstOf(MonthOf(d)) + 1

allUsageWindows(now) ==
    LET earliest == Max({1, now - Lookback})
    IN [i \in 1..(MonthOf(now) - MonthOf(earliest) + 1) |->
          LET m == MonthOf(earliest) + i - 1
          IN [from |-> Max({earliest, FirstOf(m)}), to |-> Min({now, FirstOf(m + 1) - 1})]]

windowCovered(w, covered) == \E c \in covered : c.from <= w.from /\ c.to >= w.to

\* Mutant: a month that was read once is never read again.
Asked_NotCovered(now, covered, protect) ==
    SelectSeq(allUsageWindows(now), LAMBDA w : ~windowCovered(w, covered))

\* The open month is always asked for, the one before it too unless a linked
\* snapshot protects the history and the month is no longer new.
Asked(now, covered, protect) ==
    LET all == allUsageWindows(now)
        Safe(w) == IF protect # NoDay /\ w.from < protect /\ protect <= w.to
                   THEN [w EXCEPT !.from = protect] ELSE w
        Recheck(i) == i = Len(all) - 1 /\ (protect = NoDay \/ DayOfMonth(now) <= RecheckDays)
        Chosen(i) == i = Len(all) \/ Recheck(i) \/ ~windowCovered(Safe(all[i]), covered)
    IN FoldLeft(LAMBDA out, i : IF Chosen(i) THEN Append(out, all[i]) ELSE out, <<>>,
                [i \in DOMAIN all |-> i])

-----------------------------------------------------------------------------
(* The ledger.                                                               *)

InChain(o) == o.ns = Chain
HasObservation == \E i \in DOMAIN obs : InChain(obs[i])
Windows(table, ns) == {[from |-> o.from, to |-> o.to] :
                         o \in {p \in ToSet(table) : p.ns = ns /\ p.kind = "window"}}

\* The same payload twice is one row.
Stored(table, o) ==
    \E i \in DOMAIN table :
        /\ table[i].ns = o.ns /\ table[i].days = o.days
        /\ (table[i].kind = "window") = (o.kind = "window")
        /\ o.kind = "window" => table[i].from = o.from /\ table[i].to = o.to
        /\ o.kind # "window" => table[i].stamp = o.stamp

insertObservation(table, o) ==
    IF Stored(table, o) THEN table
    ELSE LET before == Cardinality({i \in DOMAIN table : table[i].at <= o.at})
         IN InsertAt(table, before + 1, o)

\* A later observation replaces the days of its own window; other days stay.
Replaced(map, o) ==
    LET kept == {d \in DOMAIN map : ~(o.from <= d /\ d <= o.to)}
    IN [d \in kept \cup DOMAIN o.days |-> IF d \in DOMAIN o.days THEN o.days[d] ELSE map[d]]

\* The days of a source, from its observations, oldest first, but for some.
DayMapWithout(table, ns, exclude) ==
    FoldLeft(LAMBDA map, o : IF o.ns # ns \/ o \in exclude THEN map ELSE Replaced(map, o), <<>>, table)
chainDayMap(table, ns) == DayMapWithout(table, ns, {})

Inside(d, ranges) == \E r \in ranges : r.from <= d /\ d <= r.to

DayRow(d, n, kind) == [day |-> d, n |-> n, kind |-> kind]
DaysOf(rows) == {r.day : r \in rows}

\* Mutant: days that were just fetched are added from the ledger as well.
AccountSupplement_All(table, ns, lookback, fetched, rows) ==
    LET map == chainDayMap(table, ns)
    IN {DayRow(d, map[d], "retained") : d \in DOMAIN map}

\* Days a scan did not ask for: totals of the account if they stand in a
\* finished window of the lookback, old observations otherwise.
AccountSupplement(table, ns, lookback, fetched, rows) ==
    LET map == chainDayMap(table, ns)
    IN {DayRow(d, map[d], IF lookback.from <= d /\ d <= lookback.to /\ Inside(d, Windows(table, ns))
                       THEN "cached" ELSE "retained") :
          d \in {e \in DOMAIN map : e \notin DaysOf(rows) /\ ~Inside(e, fetched)}}

ChainedRetained(table, ns) ==
    LET map == chainDayMap(table, ns) IN {DayRow(d, map[d], "retained") : d \in DOMAIN map}

AccountRows(rows) == {r \in rows : r.kind \in {"fresh", "cached"}}

\* Stored days of the chain that lie before everything that was fetched; the
\* payload that NoteAPI has just stored is not one of them.
SupplementNarrowWindow(table, rows, noted) ==
    LET map == DayMapWithout(table, Chain, noted)
        first == Min(DaysOf(AccountRows(rows)))
    IN IF AccountRows(rows) = {} THEN rows
       ELSE rows \cup {DayRow(d, map[d], "retained") : d \in {e \in DOMAIN map : e < first /\ e \notin DaysOf(rows)}}

-----------------------------------------------------------------------------
(* One scan.  An outcome is [net, answers, billing, cleared, total]: answers  *)
(* gives each requested month "ok", "missing" or "fail"; billing says that   *)
(* the old endpoint has changed its schema; cleared that the session expired *)
(* on the way and the second attempt got nothing; total that the aggregate   *)
(* endpoint still answers.                                                   *)

ProtectedThrough ==
    IF meta.subject = Nobody THEN NoDay
    ELSE Max({NoDay} \cup UNION {DOMAIN o.days : o \in {p \in ToSet(obs) : InChain(p) /\ p.kind = "snapshot"}})

\* The first day that a linked snapshot does not speak for.
Protect == IF ProtectedThrough = NoDay THEN NoDay ELSE ProtectedThrough + 1

\* A declined account keeps finished windows of its own.
CoverageSource ==
    IF meta.subject = Nobody /\ meta.decision = "declined" /\ meta.who # Nobody THEN meta.who ELSE Chain

Accepted(ns, subject) == [error |-> "", ns |-> ns, subject |-> subject]
Refused(error) == [error |-> error, ns |-> Chain, subject |-> meta.subject]

WindowsToAsk == Asked(today, Windows(obs, CoverageSource), Protect)

\* Whose session may read, and into which namespace.
AcceptSubject(sub) ==
    IF meta.subject # Nobody
    THEN IF sub \in {Nobody, meta.subject} THEN Accepted(Chain, meta.subject) ELSE Refused("mismatch")
    ELSE IF ~HasObservation THEN Accepted(Chain, sub)
    ELSE IF meta.decision = "declined" /\ meta.who # Nobody /\ meta.who = sub THEN Accepted(sub, Nobody)
    ELSE Refused("unbound")

\* A month is read in full; the new endpoint confirms it only by its rows.
Confirms(outcome, i, spent) == outcome.answers[i] = "ok" /\ (outcome.billing => spent # {})

\* fetchUsageWithToken: the windows in order, until one fails.
Fetch(asked, protect, outcome) ==
    LET Step(acc, i) ==
          LET w == asked[i]
              v == IF outcome.billing /\ w.from < protect THEN [w EXCEPT !.from = protect] ELSE w
              spent == {d \in v.from..v.to : usage[signed][d] > 0}
          IN IF acc.failed \/ (outcome.billing /\ w.to < protect) THEN acc
             ELSE IF outcome.answers[i] = "fail" THEN [acc EXCEPT !.failed = TRUE]
             ELSE IF ~Confirms(outcome, i, spent) THEN [acc EXCEPT !.missing = @ + 1]
             ELSE [acc EXCEPT !.windows = Append(@, v), !.days = @ \cup spent]
    IN FoldLeft(Step, [windows |-> <<>>, days |-> {}, missing |-> 0, failed |-> FALSE],
                [i \in DOMAIN asked |-> i])

FreshRow(d, n) == DayRow(d, n, "fresh")

\* What the adapter returns: rows, the windows it confirmed, and an error.
AccountUsage(asked, protect, outcome) ==
    LET got == Fetch(asked, protect, outcome)
        rows == {FreshRow(d, usage[signed][d]) : d \in got.days}
        span == UNION {w.from..w.to : w \in ToSet(asked)}
        allMissing == ~outcome.billing /\ ~got.failed /\ got.missing = Len(asked)
    IN IF allMissing
       THEN IF outcome.total /\ Sum2(usage[signed], span) > 0
            THEN [rows |-> {FreshRow(today, Sum2(usage[signed], span))}, windows |-> <<>>, error |-> ""]
            ELSE [rows |-> {}, windows |-> <<>>, error |-> "missing"]
       ELSE [rows |-> IF ~got.failed /\ got.days = {} /\ Len(got.windows) = Len(asked)
                      THEN {FreshRow(today, 0)} ELSE rows,
             windows |-> IF got.failed /\ outcome.cleared THEN <<>> ELSE got.windows,
             error |-> IF got.failed \/ got.missing > 0 THEN "failed" ELSE ""]

\* The days of a window that have tokens, and the row of the window: a window
\* without any is kept as one that was measured empty.
DaysIn(rows, from, to) ==
    LET spent == {r \in rows : from <= r.day /\ r.day <= to /\ r.n > 0}
    IN [d \in DaysOf(spent) |-> (CHOOSE r \in spent : r.day = d).n]

NoteCoveredWindow(table, ns, w, rows) ==
    insertObservation(table, [ns |-> ns, kind |-> "window", from |-> w.from, to |-> w.to, at |-> reads,
                              days |-> DaysIn(rows, w.from, w.to), stamp |-> 0])

\* What the scan stores and the rows it emits.  A window is noted with its rows;
\* an answer without windows becomes one observation of the source "cursor".
ScanOf(outcome) ==
    LET protect == Protect
        asked == WindowsToAsk
        lookback == [from |-> Max({1, today - Lookback}), to |-> today]
        who == AcceptSubject(Sub(signed))
        got == IF outcome.net /\ who.error = "" THEN AccountUsage(asked, protect, outcome)
               ELSE [rows |-> {}, windows |-> <<>>, error |-> IF outcome.net THEN who.error ELSE ""]
        note == [ns |-> Chain, kind |-> "complete", from |-> Min(DaysOf(got.rows)), to |-> Max(DaysOf(got.rows)),
                 at |-> reads, days |-> DaysIn(got.rows, 1, MaxDay),
                 stamp |-> IF got.error = "" THEN reads ELSE 0]
        noted == FoldLeft(LAMBDA table, w : NoteCoveredWindow(table, who.ns, w, got.rows), obs, got.windows)
    IN [net |-> outcome.net,
        asked |-> IF outcome.net /\ who.error = "" THEN ToSet(got.windows) ELSE {},
        protect |-> protect,
        error |-> got.error,
        subject |-> IF outcome.net THEN who.subject ELSE meta.subject,
        note |-> IF got.windows = <<>> /\ got.rows # {} THEN {note} ELSE {},
        table |-> IF got.windows # <<>> THEN noted
                  ELSE IF got.rows # {} THEN insertObservation(obs, note) ELSE obs,
        rows |-> IF got.windows = <<>> THEN got.rows
                 ELSE got.rows \cup AccountSupplement(noted, who.ns, lookback, ToSet(got.windows), got.rows)]

Offline == [net |-> FALSE, answers |-> <<>>, billing |-> FALSE, cleared |-> FALSE, total |-> FALSE]

Online(answers, billing, cleared, total) ==
    [net |-> TRUE, answers |-> answers, billing |-> billing, cleared |-> cleared, total |-> total]

\* The outcomes of n requests; what follows the first failure is not asked.
OutcomesFor(n) ==
    LET Answers == {f \in [1..n -> {"ok", "missing", "fail"}] :
                      \A i \in 1..n : f[i] = "fail" => \A j \in (i + 1)..n : f[j] = "ok"}
        Broken == {f \in Answers : \E i \in 1..n : f[i] = "fail"}
    IN {Offline, Online([i \in 1..n |-> "missing"], FALSE, FALSE, TRUE)}
       \cup {Online(f, billing, FALSE, FALSE) : f \in Answers, billing \in BOOLEAN}
       \cup {Online(f, billing, TRUE, FALSE) : f \in Broken, billing \in BOOLEAN}

\* A day is in one window, so no scan asks for more of them than days.
AllOutcomes == [n \in 0..MaxDay |-> OutcomesFor(n)]
Outcomes == AllOutcomes[Len(WindowsToAsk)]

\* restoreBoundCursorHistoryForReport: only a confirmed history is shown.
ReportRows(scan) ==
    IF AccountRows(scan.rows) = {} /\ (scan.error # "" \/ ~scan.net)
         /\ meta.subject # Nobody /\ meta.decision = "confirmed"
    THEN scan.rows \cup ChainedRetained(scan.table, Chain) ELSE scan.rows

\* retainAccountObservations: older days beside a fetch, the chain without one.
RefreshRows(scan) ==
    LET wide == SupplementNarrowWindow(scan.table, scan.rows, scan.note)
    IN IF scan.error # "" /\ AccountRows(wide) = {} THEN wide \cup ChainedRetained(scan.table, Chain) ELSE wide

\* Rows of one request id are one row, with the larger count: a day has one id as
\* a cached day and one as a retained one.
CanonicalRows(rows) ==
    {DayRow(r.day, Max({q.n : q \in {p \in rows : p.day = r.day /\ p.kind = r.kind}}), r.kind) : r \in rows}

-----------------------------------------------------------------------------
\* The days of a verified public snapshot, dated by its own generation, before
\* any reading of this machine.
Seed == [ns |-> Chain, kind |-> "snapshot", from |-> Min(OldDays), to |-> Max(OldDays), at |-> 0,
         days |-> [d \in OldDays |-> 1], stamp |-> 0]

HistoryInit ==
    /\ today = FirstDay
    /\ usage = [s \in Subjects |-> [d \in Days |-> IF d \in OldDays THEN 1 ELSE 0]]
    /\ signed \in Subjects
    /\ obs \in {<<>>} \cup
         {<<[Seed EXCEPT !.kind = kind]>> : kind \in {"snapshot", "complete"}}
    /\ meta = [subject |-> Nobody, decision |-> "", who |-> Nobody]
    /\ read = NoRead /\ reads = 1

Spend ==
    /\ usage[signed][today] < MaxUse
    /\ usage' = [usage EXCEPT ![signed][today] = @ + 1]
    /\ read' = NoRead
    /\ UNCHANGED <<today, signed, obs, meta, reads>>

NextDay ==
    /\ today < MaxDay
    /\ today' = today + 1
    /\ read' = NoRead
    /\ UNCHANGED <<usage, signed, obs, meta, reads>>

SignIn(s) ==
    /\ s # signed
    /\ signed' = s /\ read' = NoRead
    /\ UNCHANGED <<today, usage, obs, meta, reads>>

ReadRows(kind, rows, scan) ==
    /\ obs' = scan.table
    /\ meta' = [meta EXCEPT !.subject = scan.subject]
    /\ read' = [kind |-> kind, rows |-> CanonicalRows(rows), error |-> scan.error, asked |-> scan.asked, protect |-> scan.protect]
    /\ reads' = reads + 1
    /\ UNCHANGED <<today, usage, signed>>

Report(scan) == ReadRows("report", ReportRows(scan), scan)

\* A refresh does not run offline.  When there is nothing to hold and the wall
\* refuses, the days of the remote snapshot may fill the empty chain.
Refresh(scan) ==
    /\ scan.net
    /\ LET rows == RefreshRows(scan)
           empty == scan.error # "" /\ AccountRows(rows) = {} /\ chainDayMap(scan.table, Chain) = <<>>
           seeded == insertObservation(scan.table, Seed)
       IN \/ ReadRows("refresh", rows, scan)
          \/ /\ empty /\ OldDays # {}
             /\ ReadRows("refresh", rows \cup ChainedRetained(seeded, Chain), [scan EXCEPT !.table = seeded])

Scan ==
    /\ reads <= MaxReads
    /\ \E scan \in {ScanOf(outcome) : outcome \in Outcomes} : Report(scan) \/ Refresh(scan)

\* Mutant: a second account may confirm.
Link_Any(sub, decision) ==
    IF decision = "confirmed" THEN [subject |-> sub, decision |-> "confirmed", who |-> sub]
    ELSE [meta EXCEPT !.decision = "declined", !.who = sub]

\* CommitCursorLink: the meta row an answer leaves.
Link(sub, decision) ==
    LET held == meta.decision = "declined" /\ meta.who # Nobody /\ meta.who # sub
    IN IF meta.subject \notin {Nobody, sub} \/ held \/ meta.decision = "confirmed" THEN meta
       ELSE IF decision = "confirmed" THEN [subject |-> sub, decision |-> "confirmed", who |-> sub]
       ELSE IF meta.subject # Nobody THEN meta
       ELSE [meta EXCEPT !.decision = "declined", !.who = sub]

\* cursor connect: the question is asked once, of a history that has days.
Connect(decision) ==
    /\ HasObservation /\ Sub(signed) # Nobody /\ chainDayMap(obs, Chain) # <<>>
    /\ meta.subject = Nobody
    /\ ~(meta.decision = "declined" /\ meta.who = signed)
    /\ meta' = Link(Sub(signed), decision)
    /\ read' = NoRead
    /\ UNCHANGED <<today, usage, signed, obs, reads>>

HistoryNext ==
    \/ Spend
    \/ NextDay
    \/ \E s \in Subjects : SignIn(s)
    \/ Scan
    \/ \E decision \in {"confirmed", "declined"} : Connect(decision)

HistorySpec == HistoryInit /\ [][HistoryNext]_historyVars
-----------------------------------------------------------------------------
(* Properties.                                                               *)

\* A day a scan shows is fetched, cached or retained, never two of them: the rows
\* of a fetch, the ledger's supplement and the days held for a failed fetch are
\* added to one another, and only rows of one request id are merged.
NoDayTwice == \A r, q \in read.rows : r.day = q.day => r = q

\* The account of a history and the answer about it never change hands, by
\* whatever order of scans, sign-ins and connects.
LinkIsKept ==
    [][/\ meta.subject # Nobody => meta'.subject = meta.subject
       /\ meta.decision # "" => meta'.who = meta.who
       /\ meta.decision = "confirmed" => meta'.decision = "confirmed"]_historyVars

Shown(d) == Sum2([r \in read.rows |-> r.n], {r \in read.rows : r.day = d})
Whole == read.kind # "none" /\ read.error = "" /\ read.asked # {}

\* A scan without an error shows the open month of a history whose account is
\* known as it is, however old the remembered reading of it.
OpenMonthIsExact ==
    Whole /\ meta.subject # Nobody =>
      \A d \in FirstOf(MonthOf(today))..today : d >= read.protect => Shown(d) = usage[signed][d]

\* Days that are held for an account that declined the history are days of its own
\* namespace: "Unbound or declined legacy history is never silently attributed to a new
\* account" (CHANGELOG.md:17).
DeclinedStaysApart ==
    Whole /\ meta.subject = Nobody /\ meta.decision = "declined" =>
      \A r \in read.rows : r.kind = "retained" => r.day \in DOMAIN chainDayMap(obs, meta.who)

=============================================================================
