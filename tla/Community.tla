------------------------------ MODULE Community ------------------------------
(* Community Rank: the rank service (internal/community/store.go, http.go,    *)
(* rank.go), its client (client.go, config.go, resolve.go), the dashboard     *)
(* that keeps one client (internal/httpapi/community.go) and the commands     *)
(* that make one per run (internal/cli/community.go).                         *)
(*                                                                            *)
(* One machine takes part among a crowd.  Ids are not guessed, the service is *)
(* configured and nothing is offline; the metric is tokens, the one clients   *)
(* ask for; the throttle by address is one of the ways a call can fail.       *)
EXTENDS Naturals, FiniteSets, FiniteSetsExt

CONSTANTS
  Me, Crowd,                \* participant ids
  CrowdRow,                 \* what each of the crowd uploaded, by day
  DefaultMinParticipants,   \* the floor a client applies
  StoreMin,                 \* Store.minN
  Periods,                  \* days
  MaxHits,                  \* uploads of an id in an hour
  Absent,                   \* no view, no upload
  MaxTokens, MaxOrders, MaxLapses   \* bounds: tokens of a day, runs of each kind, calls that fail

ASSUME CommunityAssumption ==
  /\ Me \notin Crowd /\ IsFiniteSet(Crowd)
  /\ DefaultMinParticipants \in Nat \ {0} /\ StoreMin \in Nat \ {0}
  /\ Periods \subseteq Nat /\ 1 \in Periods

VARIABLES
  store,      \* the service: [days, hits]
  config,     \* community.json: "none", "on" or "off"
  local,      \* LocalAgg: [day, tokens]
  client,     \* s.comm: [made, enabled, cache]
  commMu,     \* who holds it: "scan", "post" or "none"
  dash,       \* the scan of the dashboard: [at, agg, today]
  post,       \* POST /api/community: [at, on]
  shown,      \* s.last.Community, or Absent
  command,    \* a report or `community on|off`: [at, agg]
  late,       \* uploads that reach the service after their client gave up
  left,       \* the dashboard opted out
  stray,      \* uploads of other processes and late ones, since the service confirmed it
  orders, lapses  \* counters of MaxOrders and MaxLapses

communityVars == <<store, config, local, client, commMu, dash, post, shown, command, late, left, stray, orders, lapses>>

Ids == {Me} \cup Crowd
NoDays == [d \in Periods |-> 0]
Fresh == [made |-> FALSE, enabled |-> FALSE, cache |-> Absent]
Quiet == [at |-> "idle", agg |-> Absent, today |-> Absent]

CommunityInit ==
  /\ store = [days |-> [p \in Ids |-> IF p = Me THEN NoDays ELSE CrowdRow[p]],
              hits |-> [p \in Ids |-> IF p = Me THEN 0 ELSE 1]]
  /\ config \in {"none", "on", "off"}
  /\ local = [day |-> 1, tokens |-> 1]
  /\ client = Fresh /\ commMu = "none"
  /\ dash = Quiet /\ post = [at |-> "idle", on |-> FALSE] /\ command = Quiet
  /\ shown = Absent /\ late = {} /\ left = FALSE /\ stray = {}
  /\ orders = [scan |-> 0, post |-> 0, command |-> 0] /\ lapses = 0

-----------------------------------------------------------------------------
(* The service.  A message is an upload of a day, or a leave. *)

UploadOf(agg) == [kind |-> "usage", day |-> agg.day, tokens |-> agg.tokens]
Goodbye == [kind |-> "leave", day |-> 0, tokens |-> 0]

\* Put: the row of a day is replaced; the stamp of an upload within two seconds
\* of the last one is not kept.  At the limit nothing is stored.
PutUsage(s, u) ==
  IF s.hits[Me] >= MaxHits THEN {s}
  ELSE {[days |-> [s.days EXCEPT ![Me][u.day] = u.tokens], hits |-> [s.hits EXCEPT ![Me] = h]] :
          h \in {s.hits[Me] + 1} \cup ({s.hits[Me]} \ {0})}

\* Leave: the rows and the stamps go, and nothing marks that they were there.
LeaveStore(s) == [days |-> [s.days EXCEPT ![Me] = NoDays], hits |-> [s.hits EXCEPT ![Me] = 0]]

Deliver(s, m) == IF m.kind = "leave" THEN {LeaveStore(s)} ELSE PutUsage(s, m)

AllTime == 0
scoreOf(p, period) ==
  IF period = AllTime THEN MapThenSumSet(LAMBDA d : store.days[p][d], Periods) ELSE store.days[p][period]

Standing(status, rank, n) == [status |-> status, rank |-> rank, participants |-> n]
Rank(period) ==
  LET ranked == {p \in Ids : scoreOf(p, period) > 0}
      n == Cardinality(ranked)
      better == {p \in ranked : scoreOf(p, period) > scoreOf(Me, period)}
  IN  CASE n < StoreMin -> Standing("insufficient_participants", 0, n)
        [] n >= StoreMin /\ Me \notin ranked -> Standing("not_ranked", 0, n)
        [] OTHER -> Standing("ok", Cardinality(better) + 1, n)

-----------------------------------------------------------------------------
(* The client. *)

View(enabled, today, all) == [enabled |-> enabled, today |-> today, all |-> all]
EmptyView(status) == View(status # "opted_out", Standing(status, 0, 0), Standing(status, 0, 0))

\* SanitizeStanding: a crowd under the floor has no ranks, whatever the service says.
SanitizeStanding(st) ==
  IF st.participants \in 1..(DefaultMinParticipants - 1)
  THEN [st EXCEPT !.status = "insufficient_participants", !.rank = 0] ELSE st

\* postJSON: what a call does to the service and whether the client hears that
\* it did.  A call that fails may have been served, or be served later.
Calls(m) ==
  {[store |-> s, late |-> late, ok |-> m.kind = "leave" \/ store.hits[Me] < MaxHits, lapse |-> 0] : s \in Deliver(store, m)}
  \cup IF lapses = MaxLapses THEN {}
       ELSE {[store |-> s, late |-> late, ok |-> FALSE, lapse |-> 1] : s \in Deliver(store, m) \cup {store}}
            \cup {[store |-> store, late |-> late \cup {m}, ok |-> FALSE, lapse |-> 1]}
Call(m, c) ==
  /\ c \in Calls(m)
  /\ store' = c.store /\ late' = c.late /\ lapses' = lapses + c.lapse

\* get: a standing, or a network error.
Heard(period) ==
  {[st |-> SanitizeStanding(Rank(period)), lapse |-> 0]}
  \cup {[st |-> Standing("network_error", 0, 0), lapse |-> 1] : x \in IF lapses < MaxLapses THEN {1} ELSE {}}

\* The service has confirmed a leave of the dashboard.
Leaving == left \/ (post.at = "write" /\ ~post.on)

Arrives(m) ==
  /\ m \in late
  /\ late' = late \ {m}
  /\ store' \in Deliver(store, m)
  /\ stray' = IF Leaving THEN stray \cup {m} ELSE stray
  /\ UNCHANGED <<config, local, client, commMu, dash, post, shown, command, left, orders, lapses>>

\* ensureClient: the client of the process, made from the file once.  LoadOrCreate
\* makes a file that takes part.
LoadOrCreate == IF config = "none" THEN "on" ELSE config
EnsureClient ==
  /\ config' = IF client.made THEN config ELSE LoadOrCreate
  /\ client' = IF client.made THEN client
               ELSE [made |-> TRUE, enabled |-> LoadOrCreate = "on", cache |-> Absent]

Ordered(kind) == orders[kind] < MaxOrders[kind] /\ orders' = [orders EXCEPT ![kind] = @ + 1]

-----------------------------------------------------------------------------
(* postScan and attachCommunity. *)

DashScan ==
  /\ dash.at = "idle" /\ Ordered("scan")
  /\ EnsureClient
  /\ dash' = [Quiet EXCEPT !.at = "wait", !.agg = local]
  /\ UNCHANGED <<store, local, commMu, post, shown, command, late, left, stray, lapses>>

ShowNext(view) == dash' = [dash EXCEPT !.at = "show", !.today = view] /\ commMu' = "none"

\* SyncAgg up to the upload: the answer of the last five minutes may serve again.
SyncAgg ==
  /\ dash.at = "wait" /\ commMu = "none"
  /\ \/ ~client.enabled /\ ShowNext(EmptyView("opted_out"))
     \/ /\ client.enabled /\ client.cache # Absent /\ client.cache.agg = dash.agg
        /\ ShowNext(client.cache.view)
     \/ /\ client.enabled
        /\ dash' = [dash EXCEPT !.at = IF dash.agg.tokens > 0 THEN "put" ELSE "today"]
        /\ commMu' = "scan"
  /\ UNCHANGED <<store, config, local, client, post, shown, command, late, left, stray, orders, lapses>>

DashPut ==
  /\ dash.at = "put"
  /\ \E c \in Calls(UploadOf(dash.agg)) :
       /\ Call(UploadOf(dash.agg), c)
       /\ IF c.ok THEN dash' = [dash EXCEPT !.at = "today"] /\ UNCHANGED commMu
          ELSE ShowNext(View(TRUE, Standing("network_error", 0, 0), Standing("network_error", 0, 0)))
  /\ UNCHANGED <<config, local, client, post, shown, command, left, stray, orders>>

DashToday ==
  /\ dash.at = "today"
  /\ \E h \in Heard(dash.agg.day) :
       /\ dash' = [dash EXCEPT !.at = "all", !.today = h.st]
       /\ lapses' = lapses + h.lapse
  /\ UNCHANGED <<store, config, local, client, commMu, post, shown, command, late, left, stray, orders>>

DashAll ==
  /\ dash.at = "all"
  /\ \E h \in Heard(AllTime) :
       LET view == View(TRUE, dash.today, h.st)
       IN  /\ ShowNext(view)
           /\ client' = [client EXCEPT !.cache = [agg |-> dash.agg, view |-> view]]
           /\ lapses' = lapses + h.lapse
  /\ UNCHANGED <<store, config, local, post, shown, command, late, left, stray, orders>>

DashShow ==
  /\ dash.at = "show"
  /\ shown' = dash.today /\ dash' = Quiet
  /\ UNCHANGED <<store, config, local, client, commMu, post, command, late, left, stray, orders, lapses>>

-----------------------------------------------------------------------------
(* postCommunity. *)

PostCommunity(on) ==
  /\ post.at = "idle" /\ Ordered("post")
  /\ on \/ config # "none"
  /\ EnsureClient
  /\ post' = [at |-> "wait", on |-> on]
  /\ UNCHANGED <<store, local, commMu, dash, shown, command, late, left, stray, lapses>>

PostLock ==
  /\ post.at = "wait" /\ commMu = "none"
  /\ commMu' = "post"
  /\ post' = [post EXCEPT !.at = IF post.on THEN "write" ELSE "leave"]
  /\ client' = IF post.on THEN client ELSE [client EXCEPT !.cache = Absent]
  /\ UNCHANGED <<store, config, local, dash, shown, command, late, left, stray, orders, lapses>>

\* A leave that is not heard keeps the switch on.
LeaveHeard_Anyway(c) == post' = [post EXCEPT !.at = "write"] /\ UNCHANGED commMu
LeaveHeard(c) ==
  IF c.ok THEN post' = [post EXCEPT !.at = "write"] /\ UNCHANGED commMu
  ELSE post' = [post EXCEPT !.at = "idle"] /\ commMu' = "none"
PostLeave ==
  /\ post.at = "leave"
  /\ \E c \in Calls(Goodbye) : Call(Goodbye, c) /\ LeaveHeard(c) /\ stray' = IF c.ok THEN {} ELSE stray
  /\ UNCHANGED <<config, local, client, dash, shown, command, left, orders>>

PostWrite ==
  /\ post.at = "write"
  /\ client' = [client EXCEPT !.enabled = post.on]
  /\ config' = IF post.on THEN "on" ELSE "off"
  /\ post' = [post EXCEPT !.at = "show"] /\ commMu' = "none"
  /\ left' = ~post.on
  /\ UNCHANGED <<store, local, dash, shown, command, late, stray, orders, lapses>>

PostShow ==
  /\ post.at = "show"
  /\ post' = [post EXCEPT !.at = "idle"]
  /\ shown' = CASE shown = Absent -> Absent
                [] shown # Absent /\ post.on -> EmptyView("unavailable")
                [] OTHER -> EmptyView("opted_out")
  /\ UNCHANGED <<store, config, local, client, commMu, dash, command, late, left, stray, orders, lapses>>

-----------------------------------------------------------------------------
(* Other processes: a report (Resolve) and `community on` or `off`.  What a   *)
(* report prints of its standings changes nothing.                            *)

Orders(what) ==
  /\ command.at = "idle" /\ Ordered("command")
  /\ config' = LoadOrCreate
  /\ command' = IF what = "put" /\ (LoadOrCreate = "off" \/ local.tokens = 0) THEN Quiet
                ELSE [Quiet EXCEPT !.at = what, !.agg = local]
  /\ UNCHANGED <<store, local, client, commMu, dash, post, shown, late, left, stray, lapses>>

ReportPut ==
  /\ command.at = "put"
  /\ \E c \in Calls(UploadOf(command.agg)) : Call(UploadOf(command.agg), c)
  /\ command' = Quiet /\ stray' = IF Leaving THEN stray \cup {UploadOf(command.agg)} ELSE stray
  /\ UNCHANGED <<config, local, client, commMu, dash, post, shown, left, orders>>

OffLeaves ==
  /\ command.at = "leave"
  /\ \E c \in Calls(Goodbye) :
       /\ Call(Goodbye, c)
       /\ command' = IF c.ok THEN [command EXCEPT !.at = "off"] ELSE Quiet
  /\ UNCHANGED <<config, local, client, commMu, dash, post, shown, left, stray, orders>>

SetEnabled(on) ==
  /\ command.at = IF on THEN "on" ELSE "off"
  /\ config' = command.at /\ command' = Quiet
  /\ left' = (left /\ ~on)
  /\ UNCHANGED <<store, local, client, commMu, dash, post, shown, late, stray, orders, lapses>>

-----------------------------------------------------------------------------
(* Days, tokens, and processes that end. *)

UseTokensToday ==
  /\ local.tokens < MaxTokens
  /\ local' = [local EXCEPT !.tokens = @ + 1]
  /\ UNCHANGED <<store, config, client, commMu, dash, post, shown, command, late, left, stray, orders, lapses>>
NextDay ==
  /\ local.day + 1 \in Periods
  /\ local' = [day |-> local.day + 1, tokens |-> 0]
  /\ UNCHANGED <<store, config, client, commMu, dash, post, shown, command, late, left, stray, orders, lapses>>
HourPasses ==
  /\ store.hits[Me] > 0
  /\ store' = [store EXCEPT !.hits[Me] = 0]
  /\ UNCHANGED <<config, local, client, commMu, dash, post, shown, command, late, left, stray, orders, lapses>>

ServeEnds ==
  /\ lapses < MaxLapses /\ lapses' = lapses + 1
  /\ client' = Fresh /\ commMu' = "none" /\ dash' = Quiet /\ shown' = Absent
  /\ post' = [at |-> "idle", on |-> FALSE]
  /\ late' \in {late} \cup {late \cup {UploadOf(dash.agg)} : x \in {dash.at} \cap {"put"}}
  /\ UNCHANGED <<store, config, local, command, left, stray, orders>>
ServiceEnds ==
  /\ lapses < MaxLapses /\ lapses' = lapses + 1
  /\ store' = [days |-> [p \in Ids |-> NoDays], hits |-> [p \in Ids |-> 0]]
  /\ UNCHANGED <<config, local, client, commMu, dash, post, shown, command, late, left, stray, orders>>

CommunityNext ==
  \/ DashScan \/ SyncAgg \/ DashPut \/ DashToday \/ DashAll \/ DashShow
  \/ \E on \in BOOLEAN : PostCommunity(on) \/ SetEnabled(on)
  \/ PostLock \/ PostLeave \/ PostWrite \/ PostShow
  \/ \E what \in {"put", "leave", "on"} : Orders(what)
  \/ ReportPut \/ OffLeaves
  \/ \E m \in late : Arrives(m)
  \/ UseTokensToday \/ NextDay \/ HourPasses \/ ServeEnds \/ ServiceEnds

CommunitySpec == CommunityInit /\ [][CommunityNext]_communityVars

-----------------------------------------------------------------------------
OnlyStrays ==
  \A d \in Periods :
    store.days[Me][d] # 0 => \E u \in stray : u.day = d /\ u.tokens = store.days[Me][d]

\* When the dashboard has opted out, a row of this machine that the service
\* holds is one that another process uploaded since, or one that was given up
\* and served late: its own scans, failed leaves and restarts leave none.
LeftIsForgotten == left => OnlyStrays

=============================================================================
