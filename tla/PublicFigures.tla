--------------------------- MODULE PublicFigures ---------------------------
(***************************************************************************)
(* The figures of a public profile over time: agents write usage on this    *)
(* machine, one account is used elsewhere too, and a refresh builds a       *)
(* snapshot from what it could read (cli/profile_refresh.go), which takes   *)
(* the place of the wall when the gate lets it.                             *)
(***************************************************************************)
EXTENDS SnapshotBuild

CONSTANTS
    Agents,      \* agents whose logs are on this machine
    QualityOf,   \* the quality of an agent's rows
    Chunks,      \* the token vectors of one log line
    OrderOf,     \* the order of Components
    FigureDays, MaxRows, MaxRefreshes    \* bounds

ASSUME FiguresAssumption ==
    /\ Cloud = {Narrated} /\ Other \notin Agents
    /\ QualityOf \in [Agents -> {"authoritative", "degraded"}]
    /\ Chunks \subseteq [Components -> Nat] /\ OrderOf \in [Components -> Nat]
    /\ FigureDays \in Nat \ {0} /\ MaxRows \in Nat /\ MaxRefreshes \in Nat

VARIABLES
    day,      \* today
    rows,     \* the log lines of this machine
    account,  \* the days of the account, as its API knows them
    held,     \* the days of the account observations of the ledger
    wall,     \* the snapshot that was accepted last
    refresh,  \* the refresh underway, and the last one until the world moves on
    refreshes \* bound
figureVars == <<day, rows, account, held, wall, refresh, refreshes>>

NoRefresh == [kind |-> "none", snap |-> NoSnap, before |-> NoSnap, applied |-> TRUE]

\* Nothing the world does between the two steps of a refresh changes either.
Underway == ~refresh.applied

FiguresInit ==
    /\ day = 1 /\ rows = <<>> /\ account = <<>> /\ held = <<>>
    /\ wall = NoSnap /\ refresh = NoRefresh /\ refreshes = 0

\* Agents append lines: of a request of their own, or one more of the last one.
Line(agent, req, tok) ==
    [src |-> agent, req |-> req, session |-> NoId, at |-> StartOf(day), tok |-> tok,
     quality |-> QualityOf[agent], deriv |-> "", skip |-> FALSE]

Write ==
    /\ Len(rows) < MaxRows /\ ~Underway
    /\ \E agent \in Agents, tok \in Chunks, new \in BOOLEAN :
         /\ ~new => rows # <<>> /\ Last(rows).src = agent
         /\ rows' = Append(rows, Line(agent, IF new THEN <<Len(rows) + 1>> ELSE Last(rows).req, tok))
    /\ refresh' = NoRefresh
    /\ UNCHANGED <<day, account, held, wall, refreshes>>

UseAccount ==
    /\ ~Underway
    /\ \E tok \in Chunks :
         /\ day \notin DOMAIN account
         /\ account' = [d \in DOMAIN account \cup {day} |-> IF d = day THEN tok ELSE account[d]]
    /\ refresh' = NoRefresh
    /\ UNCHANGED <<day, rows, held, wall, refreshes>>

Midnight ==
    /\ day < FigureDays /\ ~Underway
    /\ day' = day + 1
    /\ refresh' = NoRefresh
    /\ UNCHANGED <<rows, account, held, wall, refreshes>>

\* The rows of the account API: days from the first one of the request on, in
\* some order.
FreshRows(from) ==
    LET days == SetToSeq({d \in DOMAIN account : d >= from})
    IN [i \in DOMAIN days |->
          [src |-> Narrated, req |-> <<"account", days[i]>>, session |-> NoId, at |-> StartOf(days[i]),
           tok |-> account[days[i]], quality |-> "authoritative", deriv |-> "provider_api", skip |-> FALSE]]

HeldRows(days) ==
    LET list == SetToSeq(days)
    IN [i \in DOMAIN list |-> RetainedRow(Narrated, list[i], held[list[i]])]

\* What a successful fetch leaves of the local rows of its agent.
BesideFetch(fresh) ==
    [i \in DOMAIN rows |-> IF rows[i].src = Narrated /\ fresh # <<>> THEN StripLocal(rows[i]) ELSE rows[i]] \o fresh

Input(kind) ==
    LET in(all, errors) == [rows |-> all, turns |-> <<>>, today |-> day, offline |-> FALSE, errors |-> errors]
        failed == [s \in {Narrated} |-> "api"]
    IN CASE kind = "fresh"  -> in(BesideFetch(FreshRows(1)), <<>>)
         [] kind = "beside" -> in(BesideFetch(FreshRows(day)) \o HeldRows({d \in DOMAIN held : d < day}), <<>>)
         [] kind = "failed" -> in(IF held = <<>> \/ ~AccountFetchFailed(rows, failed, Narrated) THEN rows
                                  ELSE ApplyRetainedEvents(rows, HeldRows(DOMAIN held)), failed)

\* A refresh reads the account in full ("fresh"), reads only its last days and
\* has older ones in the ledger ("beside"), or cannot read it ("failed"); what
\* it read is in the ledger before the snapshot is built.
Read(kind) ==
    /\ refreshes < MaxRefreshes /\ ~Underway
    /\ kind = "beside" => day \in DOMAIN account
    /\ refresh' = [kind |-> kind, snap |-> Build(Input(kind)), before |-> wall, applied |-> FALSE]
    /\ held' = CASE kind = "fresh" -> account
                 [] kind = "beside" -> [d \in DOMAIN held \cup {day} |-> IF d = day THEN account[d] ELSE held[d]]
                 [] kind = "failed" -> held
    /\ refreshes' = refreshes + 1
    /\ UNCHANGED <<day, rows, account, wall>>

\* The gate of a projection, after the checks of the document.
Apply ==
    /\ Underway
    /\ LET snap == refresh.snap
       IN wall' = IF snap.dataStatus # "unavailable" /\ Validate(snap) /\ ShouldReplaceProjection(wall, snap)
                  THEN snap ELSE wall
    /\ refresh' = [refresh EXCEPT !.applied = TRUE]
    /\ UNCHANGED <<day, rows, account, held, refreshes>>

FiguresNext ==
    \/ Write
    \/ UseAccount
    \/ Midnight
    \/ \E kind \in {"fresh", "beside", "failed"} : Read(kind)
    \/ Apply

FiguresSpec == FiguresInit /\ [][FiguresNext]_figureVars

-----------------------------------------------------------------------------
SumOf(table, S) == FoldFunctionOnSet(+, 0, table, S)
\* A failed account fetch with an observation of the days the wall shows does
\* not stop the rest of the wall, unless an agent has left the table.
HeldObservationIsPublished ==
    LET prev == refresh.before
    IN /\ refresh.kind = "failed" /\ refresh.applied /\ prev # NoSnap
       /\ DOMAIN prev.agents \subseteq DOMAIN refresh.snap.agents
       /\ Narrated \in DOMAIN prev.agents => prev.agents[Narrated].total <=
            SumOf([d \in DOMAIN held |-> Tally(held[d])], DOMAIN held)
       => wall = refresh.snap

\* An observation of the account is its figure: what the logs of this machine
\* say of the same agent is not counted on top of it ("The observation is not
\* added on top of them", profile_refresh.go).
AccountIsItsObservation ==
    LET known == IF refresh.kind = "fresh" THEN account ELSE held
    IN /\ refresh.kind # "none" /\ known # <<>> /\ Narrated \in DOMAIN refresh.snap.agents
       => refresh.snap.agents[Narrated].total = SumOf([d \in DOMAIN known |-> Tally(known[d])], DOMAIN known)

BuiltFromDays(days) ==
    Build([rows |-> EventsFromDays(Narrated, days), turns |-> <<>>, today |-> wall.date,
           offline |-> FALSE, errors |-> [s \in {Narrated} |-> "api"]])
ShowsAgain(snap) ==
    /\ Narrated \in DOMAIN snap.agents
    /\ snap.agents[Narrated].tok = wall.agents[Narrated].tok
    /\ snap.series[Narrated] = wall.series[Narrated]

\* The days read back from a wall that measured the account show that wall's
\* account again: its total, its components and its cells.
SeedShowsTheWall ==
    LET row == wall.agents[Narrated]
    IN /\ refresh.kind # "none" /\ refresh.applied /\ wall = refresh.snap /\ Narrated \in DOMAIN wall.agents
       /\ measuredAgent(row) /\ SumOf(wall.series[Narrated], DOMAIN wall.series[Narrated]) = row.total
       => ShowsAgain(BuiltFromDays(DaysFromSnapshot(wall, Narrated, OrderOf)))

\* A day without usage so far does not end a streak: the report after midnight
\* shows the same one, and it is never longer than the longest.  (The log lines
\* alone decide: the states before the first refresh stand for all.)
StreakSurvivesMidnight ==
    refreshes = 0 /\ rows # <<>> =>
      LET days == bucketDays(mergeByRequest(rows))
          before == computeStats(days, day)
          after == computeStats(days, day + 1)
      IN /\ before.today > 0 => after.current = before.current
         /\ after.current <= after.longest

\* A window that keeps one line of a request and not another: the dashboard then
\* counts a part of the request (scan.go ApplyWindow), the report all or nothing.
Cuts(window) ==
    \E i, j \in DOMAIN rows : /\ rows[i].src = rows[j].src /\ rows[i].req = rows[j].req
                              /\ Within(window, rows[i].at) # Within(window, rows[j].at)

HostedAgrees(reported, hosted) ==
    /\ Total(hosted.all) = Total(reported.all) /\ hosted.all.requests = reported.all.requests
    /\ \A s \in DOMAIN hosted.bySource \cup DOMAIN reported.bySource :
         /\ Total(hosted.bySource[s]) = Total(reported.bySource[s])
         /\ hosted.bySource[s].requests = reported.bySource[s].requests

DashboardAgrees(used, window) ==
    LET table == buildDrill(mergeByRequest(filterWindow(rows, window)), <<>>)
        compared == CompareWindows(rows, <<>>, window)
    IN /\ Total(ApplyWindow(rows, <<>>, window).all) = used
       /\ FoldLeft(LAMBDA n, s : n + Total(s), 0, table) = used
       /\ window # AllTime => SumOf([s \in DOMAIN compared |-> compared[s][1]], DOMAIN compared) = used

ShadesRise(cells) ==
    LET shades == levelsFromVisible(cells)
    IN \A d, e \in DOMAIN cells : cells[d] <= cells[e] => shades[d] <= shades[e]

\* Otherwise every view of the logs shows the same usage of a window: the terminal
\* report, the dashboard, its session table, also when it is cut, the current side
\* of its comparison, and the hosted dashboard, which has the days of the rows of
\* a sync only; and no cell is darker than one that stands for more.
ViewsAgree ==
    refreshes = 0 /\ rows # <<>> =>
      /\ \A window \in {AllTime} \cup {LastDays(n, day) : n \in 1..day} :
           ~Cuts(window) =>
             LET reported == ReportSummary(rows, <<>>, window) IN
               /\ HostedAgrees(reported, getDashboard(DailyModelUsage(rows, <<>>), window, day))
               /\ DashboardAgrees(Total(reported.all), window)
      /\ ShadesRise(bucketDays(mergeByRequest(rows)))
=============================================================================
