# A TLA+ verification of whereToken

whereToken adds up the tokens that AI coding agents spend on a machine. It reads
the agents' own files and one vendor's account API, keeps what it read in an index
and a ledger, shows it in a terminal and in a local web page, and - if its owner
wants - takes part in an anonymous ranking, sends aggregated rows to a hosted
service, and keeps a public activity wall in the owner's GitHub profile README. This
directory models the parts in which several actors touch the same state, or one
figure is computed in several ways, checks the models with TLC and proves theorems
about them with TLAPS. Paths below are relative to the repository; `hosted/` stands
for `internal/hosted/`, `publicprofile/` for `internal/publicprofile/`, and so on.

    tlc -workers 2 -config wall_sequential.cfg MCHostedWall.tla    # a run
    tlapm PublisherProofs.tla                                      # a proof

Contents: [the system](#1-the-system), [the modules](#2-the-modules),
[the runs](#3-the-runs), [disagreements](#4-where-the-code-disagrees-with-its-documents),
[the proofs](#5-the-proofs), [what is left out](#6-what-is-left-out),
[the plan](#7-the-plan).

## 1. The system

### Inventory

| Component (code) | State it keeps | Operations | Modelled in |
|---|---|---|---|
| Publication policy (`publicprofile/keep.go`, `publish_policy.go`, `live.go`) | none: pure functions | `ShouldReplaceProjection`, `TokenRegressed`, `DecidePublication` | `PublicationPolicy`, `PublicWall` |
| Hosted public wall (`hosted/public_profile_http.go`, `publish_job.go`, `public_profile_store.go`) | rows `public_projections`, `public_presentations`, publish jobs; `publishMu`; three files on GitHub | `PUT /sync/public-profile`, palette publish, job retry, start-up backfill | `HostedWall` |
| Maintenance worker (`hosted/http.go` `maintainReadmes`) | none of its own | ticks, calls `retryFailedReadmes` | `HostedWall` |
| GitHub contents client (`hosted/githubapp.go`) | installation token cache | `GetFile`, `PutFile` with the blob SHA | outcomes only, in `HostedWall` |
| Usage sync (`syncagg/`, `cli/sync.go`, `hosted/sync.go`, `hosted/store.go`) | `usage_daily_model`, `sync_revisions`, `devices.revoked_at` | scan, build, send; `SyncBatch`, `ApplyUsage`, `DeleteUsage`, `RevokeDevice` | `UsageSync` |
| Accounts, sessions, pairing (`hosted/auth.go`, `pair.go`, `account.go`, `cli/login.go`) | users, sessions, devices, challenges, exchange codes; an in-memory map of pending device tokens | OAuth login, start/confirm/deny/poll a pairing, exchange, revoke, log out, delete | `Accounts` |
| Client refresh (`publicprofile/refresh_*.go`, `cli/profile_refresh*.go`, `cli/profile_launchd.go`) | refresh state file, switch file, two launchd jobs | `DecideRefresh`, upload, read back; on, off, repair, watch | `ClientRefresh`, `RefreshAgent` |
| Scan index (`index/`) | SQLite: file identity, offset, parsed lines | stat, decide, parse, checkpoint, replay, wipe | `ScanIndex` |
| Fact ledger (`ledger/`) | SQLite: maximum per fact, omissions, corrections, permit; observations, account link | commit, note complete, correct, revert; observe, link | `FactLedger`, `AccountHistory` |
| Scan run and scan lock (`scan/`, `proclock/`, `httpapi/`) | lock file across processes; `scanning` flag of the local server | begin, run and end a scan | `ScanIndex`, `AccountHistory`, `UsageMetrics` |
| Local publisher (`publicprofile/publish_run.go`, `publish.go`, `bundle.go`, `httpapi/publish.go`) | tickets, one run at a time; the checkout | preflight, approve, write, commit, push, wait, README, retry | `LocalPublish` |
| Snapshot building (`publicprofile/build.go`, `coverage.go`, `retain.go`, `validate.go`) | none | events to snapshot, held observations, checks | `SnapshotBuild`, `PublicFigures` |
| Metrics and reports (`metric/`, `report/`, `hosted/dashboard.go`) | none | merge, sum, calendar, window | `UsageMetrics`, `PublicFigures` |
| Community rank (`community/`, `httpapi/community.go`, `cli/community.go`) | rows and stamps in memory; the client's switch file and cache | upload, leave, rank; opt in and out | `Community` |
| Agent adapters (`adapter/*`) | none | parse about fifteen agents' formats and two vendor APIs | windows and incremental reading, in `AccountHistory`, `ScanIndex` |
| Schema and migration (`hosted/migrate.go`) | DDL, backfills | migrate | what it leaves, in `HostedWall` (`LegacyStart`) |
| Credential store (`credstore/`) | secrets in a file or keychain | get, set, delete | not modelled |
| CLI and web shell (`cli/`, `web/`, `webembed/`) | flags | commands and pages | not modelled |

### How they interact

A device scans: adapters parse files through the index into facts, and the ledger
keeps the largest value of each (`ScanIndex` over `FactLedger`). Months of a Cursor
account are asked from its API and kept as observations (`AccountHistory`). The
rows of a scan are folded into the figures of the terminal, the dashboard, a sync
batch and a public snapshot (`UsageMetrics`, `SnapshotBuild`).

The batch goes to `PUT /api/v1/sync/batch` (`UsageSync`) with a device token that
pairing gave out (`Accounts`). The snapshot goes to `PUT /api/v1/sync/public-profile`
(`ClientRefresh` is the client's side, kept alive by `RefreshAgent`), whose handler
compares it with the stored one, saves it, decides whether to publish, and publishes
*within the request*: it takes `publishMu` and a lease row, reads three files from
GitHub, writes what differs, reads them back, promotes the palette, stamps the
verified snapshot and releases the lease (`HostedWall`). A palette request of the
owner and the ticker of `maintainReadmes` enter the same publisher. Server processes
share nothing but MySQL and GitHub. Independently, an owner may publish from a
checkout of his own (`LocalPublish`), and a machine may take part in the community
ranking (`Community`).

### What is hard

* **Interleaving.** PUTs of two devices, an owner's palette request and the worker
  run at once; so do two logins of one identity, a deletion and the requests that
  began before it, a dashboard's scan and its opt-out, `off` and the health job, a
  publication and the owner's own git. Agents write their logs while a scan reads them.
* **Stale reads.** The stored snapshot, the palette, the desired id and the row to
  publish are read before a wait and used after; so are a file's size and its
  content, the README and its blob, what Pages serves, the ledger's coverage.
* **Partial failure.** Three GitHub writes, three verifications and three SQL
  statements, each of which can fail; an account API that answers some months.
* **Restart.** A process stops between any two statements; leases lapse, requests
  and the tokens in memory are gone, launchd starts what failed and not what ended.
* **Retry.** Status, desired id, due time and reason decide whether the worker looks
  at a row again; a refresh whose answer was lost asks once whether it arrived.
* **Delivery.** Batches repeat, overlap and overtake one another; a request may
  reach a server after its sender has given up.
* **Clocks and zones.** Revisions are the seconds of a device's clock; days are days
  of a device's zone; publications wait for the owner's midnight; observations of
  days stand in for reads that failed.
* **Several sums of one thing.** Report, dashboard, session table, comparison, hosted
  dashboard and public snapshot each fold the same rows in their own order.

`PROJECT.json` lists each hazard at its line with the properties aimed at it.

### What makes each part correct

* *Policy*: a chain of uploads, each acceptable beside the last, never loses a
  measured agent, never shrinks the total, never goes back a day; a change held
  for midnight is published with the first snapshot of the new day.
* *Hosted wall*: what is stamped is on GitHub; "applied" names the verified
  snapshot; GitHub's total never falls; the owner's README edits and palette
  survive; whatever is half done is retried without a new PUT; handlers end.
* *Usage sync*: no usage is counted twice; a remembered key stands for stored
  rows; a device's stored usage never shrinks.
* *Accounts*: a refused pairing never yields a token; a new account is empty
  whatever requests of a deleted one still write.
* *Client refresh*: what it says of a snapshot is true of the server; the wall
  catches up once the owner stops; `off` stays off; an enabled watch comes back.
* *Index and ledger*: what is on disk is reported, however the index read it; what
  it has parsed is durable; what was reported stays, unless a complete reread did
  not find it; a count never falls except by a recorded correction.
* *Account history*: a day has one row; the open month is read anew; a history
  belongs to the account that was confirmed for it.
* *Figures*: every view of a window has the same sum; an observation replaces the
  local rows of its agent and is not added to them; a failed read with an
  observation does not stop the wall; a midnight does not end a streak.
* *Local publisher*: the README names only pictures Pages has served, and keeps the
  owner's text.
* *Community*: a machine that left through its dashboard is forgotten.

## 2. The modules

| Module | What it is |
|---|---|
| `PublicationPolicy` | the pure gates, as operators named as in the Go code |
| `PublicWall` | abstract specification: two registers, `accepted` and `shown` |
| `HostedWall` | the handlers, the publisher, the worker and their environment |
| `WallProperties` | type invariant and properties of `HostedWall`, and the refinement mapping to `PublicWall` |
| `UsageSync` | devices and server of the usage sync |
| `Accounts` | sign-in, sessions, pairing and deletion, with the CLI that polls |
| `FactLedger` | the durable maxima of one machine, with corrections |
| `ScanIndex` | a scan over changing files, composed with `FactLedger` |
| `AccountHistory` | account windows, observations and the account link |
| `UsageMetrics` | rows to figures: merge, sum, calendar, windows, hosted dashboard |
| `SnapshotBuild` | rows to a public snapshot, held observations, `Validate` (over `UsageMetrics`, `PublicationPolicy`) |
| `PublicFigures` | refreshes over days, composed of the two above |
| `ClientRefresh` | one refresh and the sync beside it, against a server that keeps `PublicWall`'s gates |
| `RefreshAgent` | the switch, the launchd jobs and the commands that change them |
| `LocalPublish` | publication from the owner's checkout |
| `Community` | rank service, client, dashboard and commands |
| `MCAccount`, `MCHostedWall`, `MCLocal`, `MCHistory`, `MCRefresh` | small instances for TLC |
| `PublicWallProofs`, `UsageSyncProofs`, `HostedWallProofs`, `PublisherProofs` | theorems about the modules they are named for; the last two are both about `HostedWall` |
| `ServicesProofs` | theorems about `Accounts` and `Community` |
| `LocalProofs` | theorems about `FactLedger`, `ScanIndex` and `LocalPublish` |
| `HistoryProofs` | theorems about `AccountHistory` and `PublicFigures`, with the lemmas on folds and sums they rest on |
| `RefreshProofs` | theorems about `ClientRefresh` and `RefreshAgent` |

An operator whose name ends in `_Something` and whose comment says "Mutant" is a
plausible bug in the definition after it. `PROJECT.json` says which property each
one breaks; no specification uses them.

The instances `MCAccount`, `MCLocal`, `MCHistory` and `MCRefresh` hold specifications
that share no state (two parts of `MCAccount` are the same one at different bounds). A variable `part` is chosen in the initial state and says which
of them takes steps in a behaviour; the others rest in one initial state, so every
behaviour is one of the specification alone.

### PublicationPolicy and PublicWall

A snapshot is `[total, date, dataStatus, agents]`, an agent
`[total, tokens, status, failed, held]`: what the gates read of a
`publicprofile.Snapshot` and of its providers. Activity grids, handles and
rendering are left out. `None` is a missing total. The thresholds `MinDelta`,
`MinDeltaB` and `Billion` are constants, so that an instance can cross them with
small numbers. `DecidePublication` keeps the order of the code's early
returns, which is what decides when two reasons apply at once.

`PublicWall` has two actions. `Accept` replaces the stored snapshot if the gates of
`putPublicProjection` allow it; `Show` makes GitHub show it if
`DecidePublication` says so for *some* hour, pending intent and caller. It is the
promise of `docs/architecture/public-profile-control-plane.md`, without handlers.

### HostedWall

`proc[h]` is the program counter and the locals of a request or worker pass.
One step is one SQL statement or one GitHub call; local computation belongs to
the step that read its last input.

| Variable | Code |
|---|---|
| `projection` | the `public_projections` row: stored snapshot, desired id, status, reason (with the palette of `theme:<palette>`), due time, retry count |
| `lease` | `publish_lease_token`, `publish_lease_until` |
| `presentation` | the `public_presentations` row: palette, asset revision, verified id; `known` is whether verified totals are stored |
| `repo` | README and the two previews on GitHub; a file stands for the snapshot and palette it shows, the README also for the number of owner commits it contains |
| `retryable_jobs` | palettes of jobs in `partial_failure` or `conflict` |
| `mutex` | `publishMu` of each process |
| `device`, `day`, `budget` | devices' position in their feed, owner's calendar, bounds |

| Actions | Code |
|---|---|
| `ReceivePut`, `PutRead`, `PutSave`, `ReadWall`, `Decide`, `ApplySame`, `CoalesceRead`, `WriteIntent`, `PickPalette`, `Announce`, `Unconfigured` | `putPublicProjection` and `considerPublication` |
| `Lock`, `ReadRow`, `AcquirePublishLease`, `GetReadme`, `GetPreviews`, `PutLight`, `PutDark`, `PutReadme`, `Verify*`, `SavePresentation`, `MarkReadmeVerified`, `SetReadmeApplied`, `Release` | `publishPalette`, in its order |
| `NoteRow`, `NotePublishFailure` | `notePublishFailure`, its read and its write |
| `ReceiveTheme`, `ThemeRow`, `ThemeDecide`, `ReceiveRetry` | the owner's publish and retry |
| `WorkerTick`, `WorkRow` | `DuePublicationUserIDs` and `retryFailedReadmes` |
| `ReadFault`, `WriteFault`, `VerifyFault`, `StoreFault`, `LateStoreFault` | the error path of each call; a write whose answer is lost may have been applied |
| `ReadMiss`, `WriteMiss` | an SQL statement that fails and whose error the code drops: a failed read is taken for a row that is not there, a failed write for done |
| `ClientGone`, `Restart` | a cancelled request context; a stopped process and the backfill at its start |
| `Scan`, `OwnerCommit`, `LastFourHours`, `Midnight`, `DueReached`, `LeaseLapse` | devices, the owner, time |

Steps that are merged although the code could be interrupted between them: the
two preview reads are one step, a job's row belongs to the step beside it, and
the retry count is read and written in one step (only the first retry differs
from the later ones). `publishPalette` drops the error of reading the presentation
(166), which only forgoes the `ALREADY_PUBLISHED` shortcut, and of releasing the lease
(141), which leaves it to lapse as `ClientGone` does; neither is a step of its own. Time is reduced to what is compared: the calendar day,
its last four hours, whether a due instant has passed (`none`, `later`,
`midnight`, `now`) and whether a lease has lapsed. The user's id is left out:
all rows of the module belong to one account.

GitHub is modelled from its use in `githubapp.go`: a write names the blob SHA
it replaces and conflicts if the file has changed since; a read returns the
current file. A file the publisher already finds as it wants it is not
written, as in the code.

### UsageSync

A usage event stands for its tokens, and a row of `usage_daily_model` is a sum that says
*how often* each event is in it: an event that a write adds to a row that had it, or that
stands in two rows, counts twice, and a row shrinks if an event leaves it. Vendor and model are left out of a row's key.
Events of Cursor's account API belong to the account (device 0) and are sent by
every device. A client scans (`doScan`; the account's events may be missing
because the API could not be read), builds a batch with the second of its clock
as revision, and sends it; a device may have several clients (`cli/sync.go:70`: the lock is
that of the scan). The server is split where the code lets another
request in, and requests of all devices and the owner's deletions interleave freely:

| Actions | Code |
|---|---|
| `Receive` | device authentication and key lookup (`putSyncBatch`, `SyncBatch`), together one step |
| `ReadRows` | the reads of `ApplyUsage`, one MVCC snapshot of MySQL's default isolation |
| `WriteRows` | its inserts and updates and the commit |
| `Record` | the insert into `sync_revisions`, after the commit |
| `Cut` | a failed statement, a cancelled request or a stop, at any point |
| `DeleteUsage`, `RevokeDevice` | the owner's requests |

Three things are remembered only for the properties: `by`, the batch that wrote a row;
`since`, how many batches had been built when a scan was made; and `overtaken`, the rows
for which one of two races of the code has happened: a request wrote over a row that had
changed since it read it, or a deletion came between the commit of a request and its key
(`store.go:284`, `297`). The properties name these two races and the newer batch from an
older scan as the only ways in which the promise fails; no step is left out.

Abstracted: the device's time zone as stored and the source states, which the same call
stores and no rule reads.

### Accounts

A request is used once, and one step is one SQL statement or several between which
nothing can come to a different end. Codes, tokens and cookies are named by what
created them. `db` holds the tables, `pending` the in-memory map of each process.

| Actions | Code |
|---|---|
| `ReadState`, `DropState`, `FindUser`, `UpsertGitHubUser`, `CreateSession` | `callbackGitHub`: `TakeOAuthState` is a read and a delete; the user is looked for and then inserted or updated |
| `ReadCode`, `ConsumeCode`, `CreateProfileSession` | `exchangeProfileSession` |
| `PairStart`, `ReadChallenge`, `Refuse`, `InsertDevice`, `ConsumePair`, `PutPending`, `Poll`, `GiveUp`, `ExpireChallenge` | pairing on both sides; `ConsumePair` does not look at the rows it changed |
| `BeginSync`, `SyncBatch` | the device is read, then the batch applied for the user that was read |
| `Revoke`, `Logout`, `DeleteSession`, `DeleteUsageRows`, `DeleteAccount`, `Restart` | what ends a device, a session, an account or a process |

A user id is `AUTO_INCREMENT`: it is never given out twice, which is what makes the
rows that a late request writes for a deleted account harmless.

### FactLedger and ScanIndex

Every operation of the ledger is one SQLite transaction under one mutex, so one
action. The counts of a fact are a function from parts; a hash of a payload stands
for its counts. `Upsert` takes a payload that is larger in every part and ignores
any other; `Correct`, `Revert` and the permit are the exceptions.

`ScanIndex` adds files, the index and one scan at a time (`scan.lock`). A file is a
sequence of lines of which the last may lack its newline; sizes count half lines. A file
keeps its inode when it is moved, and a new one never has the inode of another. A
scan remembers the paths it has visited (`visited`, as the Codex adapter's map does), and a
rollout that it visited is not one the disk has lost, whatever is at its path later.
`emitted` is what a scan has to report; of that, lines without tokens count turns and
leave no fact in the ledger.

| Actions | Code |
|---|---|
| `WriteLine`, `FinishLine`, `Move` | agents append, finish, delete, rewrite, archive or overwrite a log, at any time |
| `Begin` | lock, open, import of an index older than the ledger |
| `Visit` | stat, `decide`: unchanged, grown, replaced |
| `Parse`, `CommitFacts`, `Checkpoint` | open and read; facts into the ledger; then size, offset and lines into the index, under the size seen *before* the parse |
| `Replay` | rollouts the index knows and the disk has lost; `CommitUsage` of all events |
| `Finish` | `NoteComplete` of roots without an error, `Unseen`, the report |
| `Crash`, `Wipe` | a kill between any two steps; `rebuild`, which does not wait for the lock |

### AccountHistory

A month is a few days, a day's usage one number. A row of `api_observations` is
`[ns, kind, from, to, days, at]`. `Asked` is
the choice of windows, `Fetch` the requests until one fails, `ScanOf` what is stored and
emitted, `ReportRows` and `RefreshRows` what a report or a refresh adds from the
ledger, `CanonicalRows` what is left of that after requests with one id were merged, which
is where an answer emitted by the scan replaces the stored one. `Connect` is the question whose history it is. One scan or refresh is one
action: it holds the scan lock, and nothing it reads is written by others.

### UsageMetrics, SnapshotBuild, PublicFigures

The first two have no state: they are the functions of `metric/`,
`publicprofile/build.go`, `coverage.go`, `retain.go` and `validate.go`, named as there,
on rows `[src, req, session, at, tok, quality, deriv, skip]`. Folds stand for the
loops. `syncMergeByRequest`, `DailyModelUsage` and `getDashboard` follow the same
rows through a sync batch to the hosted dashboard. `PublicFigures` gives them inputs a
machine can have: agents append log lines, an account is used elsewhere, a refresh
reads it in full, in part or not at all, its snapshot replaces the wall through the
gates, a midnight passes.

### ClientRefresh and RefreshAgent

`ClientRefresh` extends `PublicWall`'s gates by the intent of the stored snapshot. A
refresh holds the scan lock through `Begin`, `Fetch`, `Put` and, after a lost answer
(`GiveUp`), `Check`; a sync (`SyncScan`, `SyncUpload`) uploads without it. `wire` holds
requests nobody waits for, which `Arrive` later or never. The server answers and
publishes in one step: what two handlers do to each other is `HostedWall`'s subject.
A watcher remembers what was refused (`rejected`).

`RefreshAgent` has a queue of single calls for the user's command and for the health
job: read the switch, write or remove a definition, boot out, bootstrap. Between any
two calls the other may act, the user may interrupt, launchd may refuse, a login or an
upgrade may happen. Booting out the health job from its own repair ends the repair.

### LocalPublish

The bundle in the checkout, a line of commits with the branches `head`, `origin` and
`known` (as last fetched), what Pages serves and deploys, and the README. Each job
goes through `ReadReadme`, `Look` (the plan), `writeBundle`, `commitBundle`, `push`,
`waitPages`, `CheckLive`, `updateReadme`, `PutReadme`; the owner applies palettes,
builds, commits, stages, discards and pulls, others push, and Pages ends runs between
any two steps. The dashboard runs one job at a time; a command knows nothing of it.

### Community

One machine among a fixed crowd. `Calls(m)` gives what a call may do: be served and
heard, be served and not heard, not be served, or be served late. `DashScan` to `DashShow`
is a dashboard scan with `commMu` held over its calls; `PostCommunity` to `PostShow` is
the opt-in or opt-out; reports and `community on|off` are other processes.

## 3. The runs

Each run asks one question; what it leaves out is another run's or is named here.

| Run | Question and answer | Bounds, and why they are enough |
|---|---|---|
| `wall_sequential` | One request or worker pass at a time, with a failed call, an abandoned request and a restart: does `HostedWall` implement `PublicWall`, and is anything left behind? It implements it, and everything is pursued. | Three PUTs of four snapshots, one of which lost an agent, over two days. A retry needs a failure, a tick and a success; each fault can hit any call. |
| `wall_worker_and_put` | A PUT and the worker interleave in one process while the owner edits the README, from a fresh wall or one of an older release: does the total on GitHub fall, do publishers overlap, is an edit lost? No. | Two PUTs, one fault, one edit: two publishers and a writer outside suffice for every order of two publishes around an edit. |
| `wall_two_servers` | Two processes publish, one for a PUT or the owner, one for the worker, and a third without GitHub settings may get the PUT: is what they stamp on GitHub? Yes, if no publish outlives its lease (`SlowPublish = FALSE`). Also checks the type invariant. | One publisher in each process, one PUT, one palette request, one reported fault, which can leave files half-written for the other, and one dropped SQL error (`MaxMisses`), which no other run has. |
| `wall_live` | Under fairness, with PUTs, the owner's palettes and retries and the worker one at a time: does every handler end, does the worker alone bring a failed publish to GitHub, and does the palette change by itself? Yes, yes, no. | Two days, so that a publish can be held over midnight; two palettes and two requests of the owner, one fault of any kind: a failed theme, a second request and the worker's retry. Liveness is not checked with two handlers: with a PUT running against the worker a stale announcement can repeat, see below. |
| `account` | *wall*: do the gates, applied upload by upload, keep the promise over any chain? They do. *desk*, *both*: a CLI and "serve" on one desk, and the desk beside a phone in another zone, sync at once, with overlapping and repeated requests, requests cut short, a deletion between any two statements and a revocation: does usage count twice, shrink, or a key promise what is not there? Only by the races and the two zones that the properties name. | Two agents with six quality rows each, two days, both data statuses: 144 uploads. The six rows are the classes the gates tell apart; totals 1 to 4 cross both thresholds, the fourth being the "billion". *desk*: two events (with and without uncached input), two clients, two seconds. *both*: an event of the desk and one of the account that falls on two days, one client each, clocks a second apart. Two batches and one repetition or deletion in both: the races are between two batches, or a batch and a deletion, but for the lost update, which takes three and is `v_lost_sync`'s. |
| `local` | *scan*: is what is on disk reported, is what was parsed durable, does what was reported stay? *ledger*: does a count fall without a record? *publish*: does the README name pictures that were never served, or lose the owner's text? *community*: is a machine that left still on the board? Yes, no, no, only by uploads of other processes or ones served late. | Two logs (one read from an offset, one whole and archivable), three lines, two scans, two upsets: an upset in the first scan and one between or in the second is every shape of "cached, then changed". Three corrections: a rise, a drop and a revert. Two palettes, two jobs, one fault, one act of the owner in any place. Snapshots of one picture (`MCDrawn`), the hardest case for the asset check. A crowd of two at a floor of two and three, two days, one upload an hour, two scans. |
| `accounts` | *account*: has a day two rows, is the open month stale, does a history change hands? *figures*: do all views agree, does an observation replace its agent, does a seed show the wall it came from, does a streak survive midnight? *hosted*: does a refused pairing yield a token, is a new account ever not empty? No to the first three, yes to the next four, no to the last two. | Two subjects, months of two days over five days, two reads, a lookback of two days so that the first month asked for is cut: a stored window, a newer answer for part of it, and a third month. One agent with logs and one account with log lines, two rows, two refreshes, two days; chunks that differ in both components so that a maximum mixes two lines. Three requests at two processes, one challenge, one lost answer, failed call or restart: a confirmation, a refusal and a poll; a deletion, a login and a late write. |
| `refresh` | Under fairness. *wall*: is what a refresh says true, and does the wall catch up? *agent*: does anything begin after `off`, and does an enabled watch come back? | One watcher, one command, one sync, two days, one trouble of any kind: one lost request that arrives late suffices to put an older snapshot after a newer one. Two programs, two commands, two mishaps. |
| `v_two_devices` | Finds the total on GitHub falling, see section 4. | Two PUTs in one process. |
| `v_lost_sync` | Finds a row put back to an older revision, see section 4. | One device, three batches, no fault. |
| `v_off_leaves_watch` | Finds the watch job loaded after `off` ended, see section 4. | One program, two commands, no mishap. |
| `v_declined_history` | Finds the declined history of a machine published for another account, see section 4. | Two subjects, old days before the account's own. |

`CHECK_DEADLOCK FALSE` is set for `account`, `local`, `accounts`, `refresh`, `v_lost_sync`,
`v_declined_history` and `v_off_leaves_watch`, where the system may stop: everything that could happen within the bounds
has happened. In `HostedWall` waiting is the explicit action `Rest`, enabled only when
every handler is idle, so that a handler that is stuck is a deadlock TLC reports.

**Symmetry** is used in one run, `accounts`, which checks no liveness: over the subjects,
who are also the identities, the requests and the processes. No definition tells the
members of these sets apart. The runs of `HostedWall` use none: the
handlers of an instance differ in their role.

**Fairness** (`wall_live`). The steps of a handler are weakly fair: a goroutine that
can run does run, and each call returns, with an answer or an error: the GitHub
client has a timeout of 15 s, and MySQL is assumed to answer. `Lock` is strongly fair: a Go mutex hands
itself to a waiter that has starved for a millisecond. The worker's tick is
weakly fair: `maintainReadmes` is a ticker loop that ends only with the process.
Time passes: midnight comes, due instants are reached, leases lapse. Nothing
is assumed of PUTs, scans, faults, drops or restarts; the bound on faults says
that GitHub fails finitely often, without which nothing can be promised.

**Fairness** (`refresh`). `ClientFairness`: the watch wakes every hour, and finds the
lock free again and again (`SF` on `Begin`: others hold it for a scan at a time); an
answer comes or the client gives up after its timeout; a request leaves the wire; the
worker considers a due wall, and GitHub takes a write again and again (`SF` on
`Maintain`). `WallCatchesUp` also assumes what it says: that in the end it is not the
owner's last hours and the server does not refuse the snapshot. `AgentFairness`: launchd
runs the hourly job it has loaded, and a process that runs goes on. No command, login
or upgrade is assumed to happen, and none of the faults to end but by its bound.


## 4. Where the code disagrees with its documents

Four runs show a property violated that the repository states.

**`v_two_devices`: the wall's total can fall.** `putPublicProjection` compares the
upload with the stored snapshot (`hosted/public_profile_http.go:91`), saves it
(106) and publishes what is stored then. Two devices PUT 130 and 115 against a
stored 100: both pass, 130 is saved and published, 115 is saved after it, and the
publisher, whose decision was made earlier, publishes 115. The control-plane document
(`docs/architecture/public-profile-control-plane.md`) says "A smaller total is
blocked." Two servers meet in the same window, through the row that is read before
the lease (`publish_job.go:125`).

**`v_lost_sync`: an older batch can win.** `ApplyUsage` reads the revision of a row with a plain
`SELECT` (`hosted/store.go:233`), compares it in Go and updates the row without looking at
its revision again (256). Of three syncs of one device the second and the third read the
row of the first before either writes; the third commits, and the second puts the row back to its
own, older revision. `docs/architecture/hosted-web-v070.md:242` says "Out-of-order
destructive updates are refused." Two inserts of one row do not have this race: the
second fails on the key.

**`v_off_leaves_watch`: `off` can leave the watch running.** The health job's repair reads
the switch once and works through the launchd calls one by one, without a lock that
`off` would take. If `off` boots the watch out and the repair, which read "on", loads it
again before `off` removes its definition (`cli/profile_launchd.go:217`), `off` says
that the scheduler is stopped and the watch stays loaded. A later `off` passes over it, because
there is no definition left to boot out (230). The control-plane document (line 35)
says "`off` disables the switch and uninstalls the agent." What holds nevertheless is
`OffStaysOff`: the switch is off, and no wake *decides* on an attempt. An attempt that
was decided on before may still begin after `off`, which is why the property is about decisions.

**`v_declined_history`: a declined history is shown for another account.** An account that
declines the history of the machine reads into a namespace of its own
(`scan/scan.go:391-394`), but the rows it fetches carry the source "cursor" all the same, and
a refresh hands them to `SupplementNarrowWindow` (`ledger/observe.go:339`) with it. The days it adds
before the first fetched one are those of the source "cursor", which is the declined
history, and they are published as usage of the new account. `CHANGELOG.md:17` says
"Unbound or declined legacy history is never silently attributed to a new account."

Four further disagreements are in the models. The passing runs keep them out by the bounds
or allow for them in the properties named here:

* *A half-written wall is forgotten* (`hosted/public_profile_store.go:104`).
  `SetPublicationIntent` writes the id its decision was made for. A worker pass that read
  the row before a PUT announces the *older* id after it; if that id is the verified
  one and the PUT's publish then fails between two files, no status, id and reason are
  left that `DuePublicationUserIDs` selects. The control-plane document (line 96) says
  "The hosted process retries a failed README without a new client PUT." To see it, check
  `BrokenWallIsPursued` under the constants of `wall_worker_and_put.cfg`.
* *A rate limit does not delay the retry.* A rate-limit error of a write passes through
  `finish` (`hosted/publish_job.go:295`), which keeps its text and drops its type, so
  `notePublishFailure` does not see Retry-After; the comment at
  `public_profile_http.go:250` says the wait is decided from it. To see it, check
  `RateLimitWaits` of `WallProperties` under the constants of `wall_live.cfg`.
* *Account usage counts twice across time zones.* The day of an account-wide row is
  taken in the zone of the sending device (`syncagg/batch.go:124`) and is part of the
  row's key, so two devices in two zones store one event under two days.
  `hosted/store_test.go:142` and `docs/architecture/hosted-web-v070.md:597` say such rows
  replace each other. `account` has two zones, and `NothingCountedTwice` allows an event
  two rows in this case alone.
* *Lines of a grown file are parsed twice.* A parse reads to the end of the file, but
  `index/store.go:392` cuts the offset it returns back to the size of the stat before it
  (140-142 say only newly appended bytes are parsed). The next pass reads the lines in
  between again; the ledger's one row per fact is what keeps them from counting twice.
  `local` has this step and checks what is reported in spite of it.

A pairing that is confirmed twice (`hosted/pair.go:184`) makes two devices, of which one
is never heard of again, although `docs/architecture/hosted-web-v070.md:154` calls the
challenge single-use: `ConsumePair` does not look at the rows it changed.
`RefusedGetsNoToken` holds all the same.

### Met while modelling: the hosted wall and the sync

* A failed SQL read of the stored row (`public_profile_http.go:91`) skips both gates, so a
  smaller snapshot can replace the stored one, although the comment at 99 says the
  previous projection is kept "before any save". A failed read of the presentation makes
  the wall look unproven (270), and the next publish is not held back. The runs that
  check totals therefore have `MaxMisses = 0`.
* The worker retries a failed theme without `DecidePublication`
  (`public_profile_http.go:335`), so that publish may show an earlier day.
* `SavePresentation` (`publish_job.go:251`) does not check the lease that the comment
  at 216 describes; only the stamp after it does.
* A usage publish takes its palette before it waits for `publishMu` (198) and can put
  the previous palette back after a theme change verified a new one.
* A repeated PUT of the stored snapshot, after a failed theme, overwrites the theme's intent.
* An owner who closes the page during a publish cancels the request's context: the
  publish stops and nothing is left pending; the lease lapses by itself.
* A worker that always loses to a PUT may announce the older id again and again.
* `UpdateJob` failing after GitHub was verified (`publish_job.go:261`) reports the
  publish as failed; the next tick repairs it.
* A deletion of the usage that comes between the commit of a batch (`hosted/store.go:284`)
  and its key (297) leaves a key without rows: the same batch, delivered again, is answered
  as applied, and nothing is stored. `DeleteUsage` (546-565) takes no lock, so this needs no
  second request. `RecordedIsStored` excepts the rows of such a batch, and no others.
* Two batches of one second are compared by uncached input only (`hosted/store.go:250`); the
  document (`hosted-web-v070.md:241`) says an equal revision with other measures is refused.
* The revision is stamped after the scan lock is released (`cli/sync.go:70`): of two clients
  of a device the one that scanned first may stamp last, and its older usage replaces the newer.
* Signing in again does not drop the previous session, as `hosted-web-v070.md:121` says it does.

### Met while modelling: figures and history

* `syncagg.maxEvent` dates a request by its first line, `metric.maxEvent` by its latest:
  a request across midnight stands under different days in the hosted and the local
  dashboard. A batch row is "authoritative" if any line is, where a report takes the worst
  quality. The batch drops requests without a time and turns of days without usage.
* A window that cuts a request counts the part inside it in the dashboard, whole or not
  at all elsewhere (`scan.go:521`; `docs/token-accounting.md:268-273`). `ViewsAgree` is about
  windows that cut none.
* The folded "other" row of the project breakdown (`build.go:365-432`) has no quality.
* Retained observations are placed at noon UTC (`retain.go:29-32`, `ledger/observe.go:748-751`):
  in zones from UTC+12 on that is the next day.
* An account source without rows and without an error is reported as
  `account_api_skipped` (`coverage.go:185`), also when it was asked.
* `profile_refresh.go:331-381` adds an account's aggregate without asking whose account it
  is, and `NoteAPI` stores that of an account the owner declined (`CHANGELOG.md:17`); what a
  refresh adds to it from the declined history is `v_declined_history`.
* `insertObservation` ignores what it has seen: of the answers A, B, A it keeps B on top.
* A month whose request failed between two that succeeded is not asked again
  (`cursor/api.go:29-53`); `windowCovered` compares dates only (110-112), so the first window,
  which starts in the middle of a day, covers that whole day. The aggregate is fetched twice.
* `allocateComponents` overflows from about 2e10 tokens; `DaysFromSnapshot` refuses days
  before its window.
* Codex rollouts: counters that fall and rise are counted again, `last` lines between
  `total` lines are counted twice. Their parser is not modelled.
* A rollout that was read under `sessions/`, archived and read again under
  `archived_sessions/`, then deleted, leaves two rows in the index. `replayDeletedRollouts`
  (`adapter/codex/codex.go:76-116`) replays both, and their request ids contain the path, so
  `mergeByRequest` (`metric/summary.go:327`) keeps both: its tokens are counted twice until the index is
  rebuilt, where `docs/token-accounting.md:67` speaks of one fact. `ScanIndex` names a request
  by the ledger's key, which leaves the path out, so the ledger's side of it holds and this is not seen there.

### Met while modelling: client refresh and its jobs

* While a retry is pending, newer growth is not uploaded. `decisionAfterPut` turns
  "coalesced" and "blocked" into `BLOCKED_DATA`; `stored()` reports PUBLISHED without
  looking at the wall; BUSY overwrites the last code.
* A snapshot's id leaves out when it was generated and includes its day. The second
  `ApplyRefresh` of a seeded refresh is not compared with `rejected`.
* `off` does not stop a PUT in flight. `on` and `off` at once can leave the switch on
  with the jobs removed. The
  health job's repair with a new stable command boots itself out
  (`profile_launchd.go:202-215`, `profile_refresh_repair.go:84`; control-plane document, line 35).
  Uninstalling leaves the switch on.
* `doScanOpt` without the lock returns an empty result and an error line, and `rebuild`
  wipes the index without taking it (`cli/run.go:248-257`).
* A streamed scan clears the flag early (`httpapi/httpapi.go:223`) and once more when it
  returns, which may clear the flag of a scan begun in between; the lock still
  serialises the two.

### Met while modelling: ledger, community, local publisher

* A correction permit is called the net drop of the corrections (`ledger/ledger.go:654`), but a
  rise without a permit is not remembered: a rise of 5 and then a drop of 5 permit 5.
* A scan that ends after the dashboard's opt-out puts the enabled view back
  (`httpapi/community.go:217-226`, `httpapi.go:211-215`). Another process that read the
  client's file before the opt-out, or an upload served late, brings the rows back:
  `LeftIsForgotten` says that only these do (`stray`).
* `serve` caches the client (`httpapi/community.go:86-109`): after `community off` in another
  process ("no upload", `cli/community.go:111`, `docs/community.md:32-40`) the dashboard
  goes on uploading. Two first starts at once mint two ids. A restarted rank service has
  lost its rows while clients trust a cache of five minutes.
* `RetryReadme` compares palette and asset, not the snapshot (`publish_run.go:512-515`), and
  the asset's revision leaves out `profile.json`: a retry after a newer push may name a
  snapshot that is not live yet, which is why `ReadmeNamesWhatWasLive` is about the asset.
* `CacheKey` of a ticket is never compared; a commit made between plan and push is
  published unseen; a stop after `writeBundle`, and `Apply`, leave files that block later
  preflights; commits that touch no Pages path get no run, so `waitPages` times out although
  the push went through; fetch errors are dropped in `gitView`; a command and the dashboard do
  not exclude one another; "verified" at once never looks at the live asset.

## 5. The proofs

TLC checks instances; the theorems hold for every value of the constants that
satisfies the modules' named assumptions. Those only type the constants,
except where a theorem's own `ASSUME` says more.

| Theorem | What it says | Argument |
|---|---|---|
| `PublicWallProofs!PublishedNeverRegresses` | `DecidePublication` answers PUBLISH_NOW only for a snapshot that is neither older nor smaller than the wall | case analysis of the gate |
| `...!StoredIsNeverBehind`, `TotalNeverFalls`, `MeasuredAgentsStay`, `DateNeverFalls` | the promises of `PublicWall` over any set of uploads | `ShownIsBehind` with `Registers` is inductive; the action properties follow from it, since `Show` copies `accepted`, and the last from the gate |
| `PublicWallProofs!HeldIsPublished`, `HeldIsNotPublishedAlone` | a change held for midnight is in the first snapshot of the new day that keeps its total, and is published with it at whatever hour; the worker that wakes at midnight finds nothing to publish by itself | case analysis of the gate over any snapshot and wall with natural totals; `UploadsAssumption` types the snapshots, which is all it needs |
| `HostedWallProofs!TypeCorrect` | `Spec => []TypeOK` | `TypeOK` is inductive because `HandlerOK` ties locals to the program counter: a publisher has a row, and whatever is written as a theme has a palette |
| `PublisherProofs!PublishersExclude` | publishers of one process never overlap | `LockHeld`: whoever is between `Lock` and `Release` is the one `mutex` names |
| `PublisherProofs!PromotedIsShown` | what is stamped and promoted is on GitHub, for any number of processes and handlers, any faults, drops, restarts and owner edits. Assumes `~SlowPublish` | `LeaseHeld`: a publisher that may still write holds an unlapsed lease. `Proven`: what it has verified so far is still there, because only a lease holder writes files and the owner changes only the README's text. Neither is inductive alone: `Proven` needs that no one else writes |
| `PublisherProofs!WallIsImplemented` | the registers of the database move as `PublicWall` says: the hosted handlers implement it, step by step. Assumes `OneAtATime` throughout, `Owners = {}`, `MaxMisses = 0`, `~LegacyWall` | `InTurn`: the locals of the one handler at work describe the rows (`Faithful`). Between the decision and the stamp its snapshot is the stored one and some permitted input publishes it (`MayShow`); a request about to save has passed both gates; an intent about to be written names the stored snapshot and is not "applied". The desired id is the stored one's, a stamped total is known |
| `...!AppliedMeansVerified` | "applied" is said of what is stamped. Same hypotheses | from `InTurn` and the same case analysis of the steps |
| `PublisherProofs!VerifiedFallsOnlyWithTheRow` | in one process the total of the verified wall falls only if that of the stored row did, whatever requests, passes and publishes of the owner overlap, fail, are dropped or restart. Assumes one process and totals that are integers or unknown; that the stored total does not fall is the premise, which `v_two_devices` shows overlapping PUTs to break | `RowsInOrder`: the row a publisher has read is not behind what is verified nor ahead of what is stored, because it is read under `publishMu` (`LockHeld`) and not when the publish was decided on. `NotBehind` is transitive, so a stamp raises the verified wall and a save the stored row |
| `PublisherProofs!PaletteSticks` | only an owner's request changes the palette of the wall. Assumes `MaxMisses = 0` and, of the processes with GitHub settings, no two publishes that have chosen a palette at once (`OnePublishes`) | `PaletteHeld`: a usage publish under way holds the palette that is stored. A promotion by anyone else would break it |
| `PublisherProofs!EditsSurvive` | no publisher discards an owner's commit to the README; no hypothesis | a README is written only over the version that was read (its SHA), and keeps the text around the block |
| `PublisherProofs!BrokenIsPursued` | a wall that GitHub shows half of, or that differs from the stored presentation, has an intent the worker selects, for any number of handlers, any faults, drops, restarts and lapsed leases. Assumes `OneAtATime` and `NeverBack` throughout, `Owners = {}`, `MaxMisses = 0`, `~LegacyWall`, `SoundSnapshots` | `Prepared`: a wall that is broken, at rest or under way, is one whose row can be repaired (`Repairable`: an intent that is awaited, and a stored snapshot that the gate lets follow the verified one); a handler that could leave files behind has announced its intent first (`Ahead`). With `InTurn` and `Proven`, which say what the locals and the files are |
| `UsageSyncProofs!UsageCountsOnce` | no row adds an event twice or one that has not happened, and an event is in two rows only if it is the account's and two devices place it on different days; for any devices, clients, zones, clocks, overlaps and deletions. No hypothesis | `Sound`: every event of a scan has happened, a batch has it once, in the row its device puts it into, and so has a stored row. `NothingCountedTwice` alone says nothing of the batches a write takes its rows from |
| `UsageSyncProofs!RecordedStands` | every batch the server has on record, and would answer as applied, stands in the table or under something newer, through lost answers, stops, overlaps, deletions and revocations, except for rows in `overtaken`. No hypothesis | `Recording`: a request that is about to write has read nothing newer, and what it has committed stands before it is recorded. So a write either meets the rows it read and puts nothing older there, or marks the rows it overtakes. The property alone says nothing of requests in service |
| `UsageSyncProofs!OwnUsageStays` | unless the owner deletes it, the stored usage of a device shrinks only by a request that read the row before its last change, or by a newer batch from an older scan. No hypothesis | `Numbered`: the batches of a device are stamped in the order in which they are built. `Contained`: a batch contains every earlier one of its device that was built before its scan, and a stored row likewise |
| `UsageSyncProofs!SyncTypeCorrect` | rows, batches, keys and answers are well formed | inductive as it stands |
| `ServicesProofs!RefusedStaysOut` | a refused challenge never yields a token to the CLI that asked, for any requests, processes, restarts and lost answers | `Paired`: a CLI that holds a token asked with a challenge that was consumed, and no challenge is both consumed and denied. The second half is what a late confirmation of a refused challenge would break |
| `ServicesProofs!NewAccountsStartEmpty` | no row names a user that has just been created, whatever late requests write | `AccountsInv`: every user id that is stored or remembered by a request has been given out (the types are indexed by the last id), and the last id only grows |
| `ServicesProofs!LeaversAreForgotten` | after the dashboard left and until it joins again, what the service holds of the machine is an upload of another process since, or one given up and served late | `CommunityInv`: `Locked` (the dashboard's calls hold `commMu`), `SwitchedOff` (whoever still has the client enabled has not left), `Forgotten`: as the property, from the moment the service has served the leave |
| `LocalProofs!LedgerTypeCorrect`, `StoredCountsOnlyRise` | no stored count falls and no fact is lost without a recorded correction, for any batches | `Upsert` ignores what is not larger in every part; a maximum of a finite, non-empty set of naturals exists, which is proved over the well-founded order of the naturals |
| `LocalProofs!ScanTypeCorrect`, `CacheIsBacked`, `ReportsKeep` | the tokens of every line the index can replay are in the ledger; a request a report has counted is in every later one, unless a complete reread omitted it; through crashes, failed commits and rebuilds | `Durable`: facts of a running scan are stored before its row is (`at = "checkpoint"`) and before its report (`at = "finish"`). Without these two clauses the next step breaks either property |
| `LocalProofs!NothingOnDiskIsMissed` | what is on disk throughout a scan that reads its root without an error is in the report, for any paths, any number of scans, and any appends, rewrites, moves, archivings and deletions in between | `Covered`: a row of the index, and the file a scan is reading, hold every line that had ended within the size and begun before the offset they name, for as long as the file with their inode is at their path (`RowHolds`), sizes of a file only grow while it keeps its inode (`StatHolds`), no two files share an inode, an archived file was never anywhere else under that path. The property names only what a finished scan reports; all the rest is about what scans have left behind |
| `LocalProofs!ReadmeIsServed` | the README names only pictures Pages has served | `Seen`: a job past `CheckLive` has seen its own pictures served, and what was served stays on record. The property alone says nothing of a job that is about to write |
| `LocalProofs!OwnerKeepsTheText` | no publication undoes an edit of the owner's text | a job writes the text it read, and only against the blob it read, so an edit in between is a conflict |
| `HistoryProofs!LinkStands` | the account of a history and the answer about it never change hands, for any accounts and order of scans, sign-ins and connects | `Answer`: an answer is empty, or names the account that gave it; a declined history is never without one |
| `HistoryProofs!DaysOnce` | no day of an account is shown twice, for any calendar, lookback, outcome of the requests and content of the ledger | before they are merged the rows of a day are of one kind (`Emitted`): what comes from the ledger are days outside those fetched, and `CanonicalRows` keeps one row of each kind |
| `HistoryProofs!MonthIsExact` | after a scan without an error, a report or a refresh shows every day of the open month as the account used it, from the first day of the remembered reading on, for any calendar, lookback, outcomes of the requests and order of scans, sign-ins and connects. Assumes that every session names its account (`Nameless = {}`) | `HistoryInv`: a day that a row of the account's namespace shows is one on which the account that owns the history had used it, unless every window that reaches past that day was noted after the row (`LedgerOK` and `Explained`, indexed by the days the owner used, the last instant and today). A scan reads the open month to today, its answer is the newest in the ledger (`WindowsNoted`, `MapDays`), and the rows that a report merges are one per day (`DaysOnce`). The property alone says nothing of the ledger it is read from |
| `HistoryProofs!StreakStands` | a day without usage so far does not end a streak, and the current one is never longer than the longest, for any log lines of any days and any tokens | `LinesOK`: the lines are of days up to today; what is folded over them is a table of those days (`MergedLines`, `BucketedDays`), and for any such table the runs of used days that end today and tomorrow are compared |
| `HistoryProofs!AccountStandsAlone` | what a snapshot shows of the account is what the days of its observation sum to, whether they were fetched, kept in the ledger or some of each, whatever the machine's own logs say of the same agent, for any agents, quantities, orders of the rows, and sizes of the breakdown. Assumes that no day of the account is empty (`Spent`) and that its sum stays below `MaxInt64` (`Fits`) | `Shows`: a list of rows tells the tokens of its requests and names each day. Stripping and appending establish it, merging, the open window and the selection of one agent keep it (`MergedShows`, `KeptShows`, `OwnShows`). The slices' saturated sums are then compared with the sum over days component by component (`SumsExchange`, `RowsAreDays`). `AccountOK` types the account and the ledger, and the property itself is the rest of the invariant: the world's steps put the last refresh away, the gate keeps it |
| `RefreshProofs!RefreshTellsTheTruth` | a refresh that ends with "stored" or "verified" is right about the server at that moment, for any lost, late and overtaking requests | `Decided`: between its decision and its end a refresh keeps its code, and no code of an upload claims that GitHub shows it |
| `RefreshProofs!OffStays` | from the end of `off` until a command turns the switch on, the switch is off and no wake decides on an attempt, for any repairs, jobs, logins, upgrades and interruptions | `Quiet`: nothing that is queued in the health job ever turns the switch on or says that it is off, and a command that will say so has turned it off first (`OffFirst`) |

`SlowPublish` stands for a publish that takes longer than its two-minute lease. The
code bounds each GitHub call but not their sum, so the assumption can fail; it
is what lets the lease do its work.

The theorems on `UsageSync` have no hypothesis: each property names the cases in which the code
does not keep the promise, and each of them is needed. A request that writes over a row that
has changed since it read it (`v_lost_sync`); a deletion between a commit and its key; of two
clients of one device the one that scanned first stamps last; two zones. Without any one of these
exceptions TLC finds the property violated.

The three theorems under `OneAtATime`, `WallIsImplemented`, `AppliedMeansVerified` and
`BrokenIsPursued`, say how far the promise of the wall reaches, and each
hypothesis is one the code does not ensure. Two requests that overlap break it
(`v_two_devices`): the comparison, the save and the publication are separate statements without
a lock between them. The retry of a failed theme by its owner or by the worker publishes
without a decision (`Owners = {}` excludes both). A read that fails is taken for an empty row
(`MaxMisses`), and a wall of an older release has no known total (`LegacyWall`); either lets a
total be published that nothing was compared with. Faults that are reported, dropped clients,
restarts, lapsed leases, servers without settings and the worker are all allowed.
`wall_sequential` checks the same properties on one handler. For `PaletteSticks` the palette is
chosen before `publishMu` is taken (`PickPalette`, then `Lock`), so a second publish may promote
another palette in between and see it put back; in `wall_live` one handler serves every request,
which is an instance of the hypothesis.

`BrokenIsPursued` needs one hypothesis more. `NeverBack` says that no upload brings the
verified snapshot back once another one is stored, and without it the property is false: a
snapshot A is verified; a snapshot B of the next day with an equal total is stored, and its
publish is abandoned when one preview shows it; then another device uploads A again, from
before. A is neither older nor smaller than what the gate compares it with, and equals the
verified wall, so the PUT ends as "NO_CHANGE" (`public_profile_http.go:164-165`), which sets the status
"applied" without a look at GitHub. The preview keeps showing B and no pass repairs it,
although the control-plane document says "A failed publish remains pending and retries about
hourly." No feed of the runs goes back in this way. `SoundSnapshots` is what
`validate.go:46` and `build.go:176` ensure: dates and totals are numbers, and a snapshot that measured
something is not "unavailable". TLC found the inductive invariant to hold on
`wall_sequential`, and on two handlers and two devices whose steps are restricted to the
hypotheses, before it was proved.

`Nameless = {}` in `MonthIsExact` is needed too. A session that names no subject reads into
whatever history it finds; of two accounts whose sessions are both nameless the answers
alternate in one chain, an answer that was seen before is stored once, at its old place
(`insertObservation`), and the other account's days stand above it. TLC finds this with one
nameless account.

`Spent` leaves out one case of `AccountStandsAlone`: an account whose days are all empty
(`cursor/api.go:719` keeps a day that names a model and no tokens) is shown as unavailable when it
comes from the ledger, because its rows are "degraded", and not as 0. `Fits` leaves out
sums of 2^63 tokens, which `satAdd` cuts.

Attempts to prove something also corrected the models:

* A refresh asked the ledger for the days before the first fetched one by the account's own
  namespace. The code asks by the source of the rows, which is the chain's, and that is the
  finding `v_declined_history`.
* The oldest day of the lookback and the first of its month were assumed to lie in some
  order that no constant ensured: `HistoryAssumption` now says that a lookback is not
  shorter than a month.
* The rows of a reading were put in the order of their days, and rows were selected with
  `SelectSeq`. The code's order is that of a map or of an answer, and nothing depends on it, so `FreshRows` and
  `HeldRows` are now "in some order", and `Keeping` is the fold the loop is.

* `AccountHistory` merged nothing and its rows carried the account that had used them, so
  that a day had two rows only if they were of one account. The code merges by request id, without
  an account (`CanonicalRows`, `metric/summary.go:327`). With it the theorem needs no
  relation between the lookback and a month.
* A line without tokens leaves no fact in the ledger, so what "is in the ledger" speaks of
  the lines that have tokens (`Keyed`).
* A scan that asks the index for lost rollouts must leave out the paths it visited
  (`visited`): a file that is rewritten under a visited path is otherwise replayed
  on top of what was read.
* `OnDiskIsReported` needs that no two files have one inode at a path, ever: inodes are
  pairs of path and number. A disk does give the number of a deleted file out again, and `decide`
  cannot tell a new file with an old number that has grown (`index/store.go:8` calls the
  identity a "best-effort cache key"); that case is left out.
* The gates' theorems need totals to be naturals, which `Validate` ensures and the
  assumption on the uploads now says.

Only model-checked, on the instances of section 3:

* liveness under fairness, which the prover does not reach: `HandlersFinish`,
  `FailedIsPublished`, `WallCatchesUp`, `EnabledIsWatched`;
* `DesiredIsNewest`: with one handler at a time it is the last clause of `InTurn`, and proves nothing
  that the run does not show; with two, a stale announcement breaks it (section 4), and no
  hypothesis that the code ensures rules that out;
* `ViewsAgree` and `SeedShowsTheWall`: they compare tables that are sorted and then cut, and
  `SortSeq` and `SelectSeq` are primitives of which the prover knows nothing;
* `HeldObservationIsPublished`: whether `Validate` and the gates accept the snapshot depends on
  the whole breakdown, its sorted rows and the folded "other" row among them.

The library's induction theorems take an operator as a parameter, which the prover's backends
cannot instantiate. What folds compute is proved all the same: a fold over a finite set is a
function on its subsets (`FoldExists`, `FoldTyped`), and what holds of every step is shown by
looking at the least number of steps for which it fails (`CountUp`, `SubsetsUp`, `FoldTrace`).
That is how `TallyFold`, `MergedList`, `SliceTokens`, `MapDays` and `SumStep` are obtained; nothing is
assumed about a fold.

`RECURSIVE` operators are not used anywhere in the modules. Definitions of
`WallProperties` that no run checks (`FirstWallIsPursued`, `RateLimitWaits`) are kept for
readers who want to vary a run; `HeldChangeIsNotPublishedAlone` of `PublicWall` is only proved.

## 6. What is left out

* Rendering, HTTP plumbing, cookies, token hashes, CSRF, rate limits, encodings: data, not
  control. The public GET handlers only read.
* `correction.go` (permits for a smaller total): the hosted route never attaches one.
* Publishing under more than one account: rows, lease and files are per account;
  `publishMu` is shared by all, which only serialises more than the model does.
* The contents of `source_states`, zones, prices and vendors in the usage rows.
* The parsers of some fifteen agents' files, Codex's rollout counters among them; prices,
  tables and cards: formats, arithmetic and layout.
* The credential store, the CLI shell and the Vue pages: they keep or show what others decide.
* DDL and the steps of a migration; what an older release left behind is `LegacyStart`.
* The streamed scan of the local server and its progress messages.
* `Backup` and `Restore` of the ledger, which nothing outside the tests calls.
* Configuration, rights and the production check of the local publisher, taken to be in order.

## 7. The plan

Done, most important behaviour first: `PublicationPolicy`, `PublicWall`, `HostedWall`,
`UsageSync`; then `FactLedger` and `ScanIndex`, `Accounts`, `ClientRefresh` and
`RefreshAgent`, `UsageMetrics`, `SnapshotBuild`, `AccountHistory` and `PublicFigures`,
`Community`, `LocalPublish`; and the proofs of section 5.

Next:

1. The streamed scan: its flag (`httpapi/httpapi.go:223`) over the lock of `ScanIndex`.
2. Codex rollouts: counters, their resets and the request ids, as operators beside
   `UsageMetrics`.
3. `ClientRefresh` against the handlers of `HostedWall` in place of its one-step server.
4. `WallIsImplemented` with the owner's first request, which does ask the gate, let in.
5. The configuration checks of the local publisher.
