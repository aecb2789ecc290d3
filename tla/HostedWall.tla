----------------------------- MODULE HostedWall -----------------------------
(***************************************************************************)
(* The hosted side of one owner's public activity wall                     *)
(* (internal/hosted/public_profile_http.go, public_profile_store.go,       *)
(* publish_job.go, githubapp.go).                                          *)
(*                                                                         *)
(* Devices PUT snapshots, the owner publishes and retries palettes from a  *)
(* browser, and a maintenance worker retries what did not reach GitHub.    *)
(* Each of these is a handler: a sequence of SQL statements and GitHub     *)
(* calls.  One statement or call is one step, so the steps of handlers,    *)
(* in one server process or in several, interleave freely.  A local        *)
(* computation belongs to the step that read its last input.               *)
(*                                                                         *)
(* Time is what the code compares: the owner's calendar day, whether the   *)
(* last four hours of it have begun, whether a due instant has been        *)
(* reached, and whether the two minutes of a lease are over.               *)
(***************************************************************************)
EXTENDS PublicationPolicy, Sequences

CONSTANTS
    Handlers,         \* request slots and workers
    Putters,          \* handlers that serve PUT /sync/public-profile
    Owners,           \* handlers that serve the owner's publish and retry
    Workers,          \* maintainReadmes goroutines
    Servers,          \* hosted processes
    ServerOf,         \* [Handlers -> Servers]
    Misconfigured,    \* servers whose GitHub App settings are missing
    Devices,          \* paired devices
    Feed,             \* [Devices -> Seq of snapshots], in scan order
    Palettes, DefaultPalette,
    MaxDay,           \* bound: calendar days
    MaxPuts,          \* bound: PUT requests
    MaxEdits,         \* bound: commits the owner makes to the README
    MaxFaults,        \* bound: GitHub and SQL calls that fail, and are reported
    MaxMisses,        \* bound: SQL statements whose failure goes unnoticed
    MaxDrops,         \* bound: requests the client abandons
    MaxRestarts,      \* bound: process restarts
    MaxThemes,        \* bound: publish and retry requests of the owner
    SlowPublish,      \* may a publish outlive its own lease
    LegacyWall,       \* may the first wall predate verified totals
    Nobody, Orphan,   \* no lease; a lease whose publisher is gone
    NoShot, NoPalette

Snapshots == UNION {{Feed[d][i] : i \in DOMAIN Feed[d]} : d \in Devices}

ASSUME HostedWallAssumption ==
    /\ Putters \cup Owners \cup Workers = Handlers
    /\ ServerOf \in [Handlers -> Servers]
    /\ Misconfigured \subseteq Servers
    /\ DefaultPalette \in Palettes /\ NoPalette \notin Palettes
    /\ {Nobody, Orphan} \cap Handlers = {} /\ Nobody # Orphan
    /\ MaxDay \in Nat \ {0} /\ MaxPuts \in Nat
    /\ MaxEdits \in Nat /\ MaxFaults \in Nat /\ MaxMisses \in Nat
    /\ MaxDrops \in Nat
    /\ MaxRestarts \in Nat /\ MaxThemes \in Nat
    /\ SlowPublish \in BOOLEAN /\ LegacyWall \in BOOLEAN
    /\ NoSnap \notin Snapshots /\ NoShot \notin [snap : Snapshots, palette : Palettes]
    /\ \A d \in Devices : Len(Feed[d]) \in Nat \ {0} /\ DOMAIN Feed[d] = 1..Len(Feed[d])

VARIABLES
    projection,   \* the public_projections row
    lease,        \* its publish_lease_token and publish_lease_until
    presentation, \* the public_presentations row
    repo,         \* the three files in the profile repository
    retryable_jobs, \* palettes of jobs in partial_failure or conflict
    proc,         \* handler -> its program counter and locals
    mutex,        \* server -> the handler holding publishMu
    device,       \* device -> position in its Feed
    day,          \* the owner-local day, and whether its last four hours run
    budget        \* what is left of the bounded environment events

store == <<projection, lease, presentation, retryable_jobs>>
env == <<device, day, budget>>
vars == <<projection, lease, presentation, repo, retryable_jobs, proc, mutex,
          device, day, budget>>

-----------------------------------------------------------------------------
(* Rows, files and locals. *)

\* What the previews and the README cache key name: the cache key is a hash
\* of the snapshot id and the asset revision, which is a hash of the SVGs.
Shots == [snap : Snapshots, palette : Palettes]
Shot(snap, palette) == [snap |-> snap, palette |-> palette]

Readmes == [text : 0..MaxEdits, shot : Shots \cup {NoShot}]

Stati == {"", "applied", "pending", "failed", "blocked_auth", "blocked_data"}
Reasons == {"", "usage", "retry", "cooldown", "theme", "unavailable", "negative"}
Dues == {"none", "later", "midnight", "now"}

\* Errors as notePublishFailure and readmeErrorCode tell them apart.  A
\* transient answer and an unclassified one are both code github_write.
Causes == {"auth", "rate", "busy", "github_write", "conflict", "github_verify"}

NoProjection == [snap |-> NoSnap, desired |-> NoSnap, status |-> "",
                 reason |-> "", palette |-> NoPalette, due |-> "none", retry |-> 0]

NoPresentation == [palette |-> NoPalette, asset |-> NoShot, readme |-> NoSnap, known |-> FALSE]

Ops == {"none", "put", "theme", "retry", "work", "worktheme"}

Idle == [pc |-> "idle", op |-> "none", cand |-> NoSnap, wall |-> NoWall,
         palette |-> NoPalette, intent |-> NoProjection, row |-> NoSnap,
         readme |-> [text |-> 0, shot |-> NoShot], cause |-> "", raised |-> "",
         current |-> FALSE,
         late |-> FALSE]

\* A publisher is past AcquirePublishLease and has not released it.
LeasePcs == {"readme", "previews", "short_save", "light", "dark", "put_readme",
             "verify_readme", "verify_light", "verify_dark", "save", "stamp",
             "apply_published", "release"}
\* A publisher holds publishMu.
LockedPcs == LeasePcs \cup {"row", "lease"}
Pcs == LockedPcs \cup
       {"idle", "put_read", "put_save", "read_wall", "decide", "apply_same", "coalesce", "intent",
        "pick_palette", "announce", "unconfigured", "lock", "note_row", "note", "theme_row",
        "theme_decide", "work_row"}

Publishing(h) == proc[h].pc \in LeasePcs

\* verifiedWall: the total and the date are known only for a stamped id.
VerifiedWall(pres) ==
    IF pres.readme = NoSnap THEN NoWall
    ELSE [proven |-> TRUE, snap |-> pres.readme,
          total |-> IF pres.known THEN pres.readme.total ELSE None,
          date  |-> IF pres.known THEN pres.readme.date ELSE NoDate]

\* Mutant: nothing is chosen before the first wall.
UsagePalette_Stored(pres) == pres.palette

\* Mutant: a usage publish always takes newsprint.
UsagePalette_Newsprint(pres) == DefaultPalette

\* usagePalette: the verified palette when one exists.
UsagePalette(pres) ==
    IF pres.asset # NoShot THEN pres.palette ELSE DefaultPalette

NoPending == [snap |-> NoSnap, reason |-> "", failed |-> FALSE]

PendingIntent(p) ==
    [snap |-> p.desired, reason |-> p.reason, failed |-> p.status \in {"failed", "blocked_auth"}]

\* SetPublicationIntent, where theme:<palette> is reason plus palette.
Intent(p, desired, status, reason, palette, due, retry) ==
    [p EXCEPT !.desired = desired, !.status = status, !.reason = reason,
              !.palette = palette, !.due = due, !.retry = retry]

\* SetReadmeApplied updates nothing unless the id is still the desired one.
Applied(p, snap) ==
    IF p.desired = snap /\ p.snap # NoSnap
    THEN Intent(p, snap, "applied", "", NoPalette, "none", 0)
    ELSE p

\* Mutant: a row without a due instant is not selected.
Due_NeedsInstant(p, pres, l) ==
    /\ p.snap # NoSnap
    /\ \/ p.desired # pres.readme /\ p.status \in {"failed", "pending", "blocked_auth"}
       \/ p.status = "failed" /\ p.reason = "theme"
    /\ p.due = "now"
    /\ l.holder = Nobody \/ l.lapsed

\* DuePublicationUserIDs, for the one owner.
Due(p, pres, l) ==
    /\ p.snap # NoSnap
    /\ \/ /\ p.desired # NoSnap /\ p.desired # pres.readme
          /\ p.status \in {"failed", "pending", "blocked_auth"}
       \/ p.status = "failed" /\ p.reason = "theme"
    /\ p.due \in {"none", "now"}
    /\ l.holder = Nobody \/ l.lapsed

Become(h, locals) == proc' = [proc EXCEPT ![h] = locals]
Goto(h, pc) == Become(h, [proc[h] EXCEPT !.pc = pc])
Finish(h) == Become(h, Idle)

-----------------------------------------------------------------------------
(* PUT /api/v1/sync/public-profile *)

CanSpend(what) == budget[what] > 0
Spend(what) == budget' = [budget EXCEPT ![what] = @ - 1]

\* A device uploads the snapshot of its latest scan.
ReceivePut(h, d) ==
    /\ h \in Putters /\ proc[h].pc = "idle"
    /\ device[d] > 0
    /\ CanSpend("puts") /\ Spend("puts")
    /\ Become(h, [Idle EXCEPT !.pc = "put_read", !.op = "put",
                                                !.cand = Feed[d][device[d]]])
    /\ UNCHANGED <<store, repo, mutex, device, day>>

\* Mutant: only the total is compared, a lost agent passes.
PutRead_TotalsOnly(h) ==
    /\ proc[h].pc = "put_read"
    /\ IF projection.snap # NoSnap /\ TokenRegressed(projection.snap, proc[h].cand)
       THEN Finish(h)
       ELSE Goto(h, "put_save")
    /\ UNCHANGED <<store, repo, mutex, env>>

\* The stored snapshot is compared before any save; a kept one ends the request.
PutRead(h) ==
    /\ proc[h].pc = "put_read"
    /\ IF projection.snap # NoSnap /\
          (~ShouldReplaceProjection(projection.snap, proc[h].cand)
             \/ TokenRegressed(projection.snap, proc[h].cand))
       THEN Finish(h)
       ELSE Goto(h, "put_save")
    /\ UNCHANGED <<store, repo, mutex, env>>

\* Mutant: the desired id is left to the publish that follows.
PutSave_DesiredStays(h) ==
    /\ proc[h].pc = "put_save"
    /\ projection' = [projection EXCEPT !.snap = proc[h].cand]
    /\ Goto(h, "read_wall")
    /\ UNCHANGED <<lease, presentation, retryable_jobs, repo, mutex, env>>

\* SaveProjection moves the snapshot and the desired id, never the status.
PutSave(h) ==
    /\ proc[h].pc = "put_save"
    /\ projection' = [projection EXCEPT !.snap = proc[h].cand, !.desired = proc[h].cand]
    /\ Goto(h, "read_wall")
    /\ UNCHANGED <<lease, presentation, retryable_jobs, repo, mutex, env>>

-----------------------------------------------------------------------------
(* considerPublication and publishUsageNow *)

ReadWall(h) ==
    /\ proc[h].pc = "read_wall"
    /\ Become(h, [proc[h] EXCEPT !.wall = VerifiedWall(presentation), !.pc = "decide"])
    /\ UNCHANGED <<store, repo, mutex, env>>

GateInput(h) ==
    [cand |-> proc[h].cand, accepted |-> proc[h].cand, wall |-> proc[h].wall,
     pending |-> PendingIntent(projection), today |-> day.today, closing |-> day.closing,
     theme |-> proc[h].op = "theme", fromWorker |-> proc[h].op = "work",
     offline |-> FALSE, explained |-> FALSE]

\* What each decision leads to.  An unknown verified total leaves the row as
\* it is, and so does a change too small to publish.
Decided(h, in) ==
    LET decision == DecidePublication(in)
        Proceed(pc) == [proc[h] EXCEPT !.pc = pc, !.wall = NoWall]
        Write(status, reason, due) ==
          [Proceed("intent") EXCEPT !.intent =
             Intent(NoProjection, proc[h].cand, status, reason, NoPalette, due, 0)]
    IN CASE decision.action = "PUBLISH_NOW" -> Proceed("pick_palette")
         [] decision.action = "RETRY_PENDING" -> Proceed("coalesce")
         [] decision.action = "WAIT_UNTIL" -> Write("pending", "cooldown", "midnight")
         [] decision.action = "BLOCKED" /\ decision.reason # "unknown_verified" ->
              Write("blocked_data", decision.reason, "none")
         [] decision.action = "NO_CHANGE" /\ proc[h].cand = proc[h].wall.snap ->
              Proceed("apply_same")
         [] OTHER -> Idle

Decide(h) ==
    /\ proc[h].pc = "decide"
    /\ Become(h, Decided(h, GateInput(h)))
    /\ UNCHANGED <<store, repo, mutex, env>>

ApplySame(h) ==
    /\ proc[h].pc = "apply_same"
    /\ projection' = Applied(projection, proc[h].cand)
    /\ Finish(h)
    /\ UNCHANGED <<lease, presentation, retryable_jobs, repo, mutex, env>>

\* ActionRetryPending reads the row once more and rewrites it as failed; the
\* theme of a failed intent is kept.
CoalesceRead(h) ==
    /\ proc[h].pc = "coalesce"
    /\ LET theme == projection.reason = "theme"
       IN Become(h, [proc[h] EXCEPT !.pc = "intent", !.intent =
                     Intent(NoProjection, proc[h].cand, "failed",
                            IF theme THEN "theme" ELSE "retry",
                            IF theme THEN projection.palette ELSE NoPalette,
                            projection.due, projection.retry)])
    /\ UNCHANGED <<store, repo, mutex, env>>

WriteIntent(h) ==
    /\ proc[h].pc = "intent"
    /\ LET i == proc[h].intent
       IN projection' = Intent(projection, i.desired, i.status, i.reason, i.palette,
                               i.due, i.retry)
    /\ Finish(h)
    /\ UNCHANGED <<lease, presentation, retryable_jobs, repo, mutex, env>>

PickPalette(h) ==
    /\ proc[h].pc = "pick_palette"
    /\ Become(h, [proc[h] EXCEPT !.palette = UsagePalette(presentation), !.pc = "announce"])
    /\ UNCHANGED <<store, repo, mutex, env>>

\* Mutant: GitHub is called first, the intent is written only on failure.
Announce_Skipped(h) ==
    /\ proc[h].pc = "announce"
    /\ Goto(h, IF ServerOf[h] \in Misconfigured THEN "unconfigured" ELSE "lock")
    /\ UNCHANGED <<store, repo, mutex, env>>

\* The intent is pending and due at once, before the first GitHub call.
Announce(h) ==
    /\ proc[h].pc = "announce"
    /\ projection' = Intent(projection, proc[h].cand, "pending", "usage", NoPalette, "now",
                            projection.retry)
    /\ Goto(h, IF ServerOf[h] \in Misconfigured THEN "unconfigured" ELSE "lock")
    /\ UNCHANGED <<lease, presentation, retryable_jobs, repo, mutex, env>>

Unconfigured(h) ==
    /\ proc[h].pc = "unconfigured"
    /\ projection' = Intent(projection, proc[h].cand, "failed", "usage", NoPalette, "none",
                            projection.retry)
    /\ Finish(h)
    /\ UNCHANGED <<lease, presentation, retryable_jobs, repo, mutex, env>>

-----------------------------------------------------------------------------
(* publishPalette: publishMu, the stored row, the lease, GitHub, the stamp *)

Target(h) == Shot(proc[h].row, proc[h].palette)

\* The README that was read, with the activity block replaced.
ReadmeOf(h) == [text |-> proc[h].readme.text, shot |-> Target(h)]

\* Until finish wraps it as text, an error keeps its Go type.
Untyped(cause) == IF cause \in {"conflict", "github_verify"} THEN cause ELSE "github_write"

\* failPublish: the attempt ends before the first write, so no job can be retried.
FailBefore(h, cause) ==
    /\ Become(h, [proc[h] EXCEPT !.pc = "release", !.cause = cause, !.raised = cause,
                            !.readme = Idle.readme, !.current = FALSE])
    /\ \/ UNCHANGED retryable_jobs
       \/ /\ proc[h].op = "retry"
          /\ retryable_jobs' = retryable_jobs \ {proc[h].palette}

\* finish: the job is left in partial_failure or conflict.
FailAfter(h, cause) ==
    /\ Become(h, [proc[h] EXCEPT !.pc = "release", !.cause = Untyped(cause), !.raised = cause,
                            !.readme = Idle.readme, !.current = FALSE])
    /\ retryable_jobs' = retryable_jobs \cup {proc[h].palette}

\* Mutant: the publisher does not wait for publishMu.
Lock_Unguarded(h) ==
    /\ proc[h].pc = "lock"
    /\ mutex' = [mutex EXCEPT ![ServerOf[h]] = h]
    /\ Goto(h, "row")
    /\ UNCHANGED <<store, repo, env>>

Lock(h) ==
    /\ proc[h].pc = "lock"
    /\ mutex[ServerOf[h]] = Nobody
    /\ mutex' = [mutex EXCEPT ![ServerOf[h]] = h]
    /\ IF ServerOf[h] \in Misconfigured
       THEN FailBefore(h, "github_write")
       ELSE Goto(h, "row") /\ UNCHANGED retryable_jobs
    /\ UNCHANGED <<projection, lease, presentation, repo, env>>

\* Mutant: the snapshot that was decided on is published, not the stored one.
ReadRow_Decided(h) ==
    /\ proc[h].pc = "row"
    /\ Become(h, [proc[h] EXCEPT !.row = proc[h].cand, !.pc = "lease"])
    /\ UNCHANGED <<store, repo, mutex, env>>

\* The row is read before the lease is taken, and it need not be the snapshot
\* that was decided on.
ReadRow(h) ==
    /\ proc[h].pc = "row"
    /\ IF projection.snap = NoSnap
       THEN FailBefore(h, "github_write")
       ELSE /\ Become(h, [proc[h] EXCEPT !.row = projection.snap, !.pc = "lease"])
            /\ UNCHANGED retryable_jobs
    /\ UNCHANGED <<projection, lease, presentation, repo, mutex, env>>

\* Mutant: a held lease is taken over.
AcquirePublishLease_Stolen(h) ==
    /\ proc[h].pc = "lease"
    /\ lease' = [holder |-> h, lapsed |-> FALSE]
    /\ Goto(h, "readme")
    /\ UNCHANGED <<projection, presentation, retryable_jobs, repo, mutex, env>>

AcquirePublishLease(h) ==
    /\ proc[h].pc = "lease"
    /\ IF lease.holder = Nobody \/ lease.lapsed
       THEN /\ lease' = [holder |-> h, lapsed |-> FALSE]
            /\ Goto(h, "readme")
            /\ UNCHANGED retryable_jobs
       ELSE FailBefore(h, "busy") /\ UNCHANGED lease
    /\ UNCHANGED <<projection, presentation, repo, mutex, env>>

GetReadme(h) ==
    /\ proc[h].pc = "readme"
    /\ Become(h, [proc[h] EXCEPT !.readme = repo.readme, !.pc = "previews",
                            !.current = /\ presentation.palette = proc[h].palette
                                           /\ presentation.asset = Target(h)])
    /\ UNCHANGED <<store, repo, mutex, env>>

\* Nothing is written when the row, the README and both previews already agree.
GetPreviews(h) ==
    /\ proc[h].pc = "previews"
    /\ LET done == /\ proc[h].current
                   /\ repo.light = Target(h) /\ repo.dark = Target(h)
                   /\ proc[h].readme.shot = Target(h)
       IN Become(h, [proc[h] EXCEPT !.pc = IF done THEN "save" ELSE "light", !.current = done])
    /\ UNCHANGED <<store, repo, mutex, env>>

\* putPreview reads the blob SHA just before it writes, so a write that
\* succeeds replaces exactly what was read.
PutLight(h) ==
    /\ proc[h].pc = "light"
    /\ repo' = [repo EXCEPT !.light = Target(h)]
    /\ Goto(h, "dark")
    /\ UNCHANGED <<store, mutex, env>>

PutDark(h) ==
    /\ proc[h].pc = "dark"
    /\ repo' = [repo EXCEPT !.dark = Target(h)]
    /\ Goto(h, "put_readme")
    /\ UNCHANGED <<store, mutex, env>>

\* Mutant: the README read at first is written back without its SHA.
PutReadme_WithoutSHA(h) ==
    /\ proc[h].pc = "put_readme"
    /\ repo' = [repo EXCEPT !.readme = ReadmeOf(h)]
    /\ Become(h, [proc[h] EXCEPT !.pc = "verify_readme", !.readme = Idle.readme])
    /\ UNCHANGED <<store, mutex, env>>

\* The README goes out with the SHA read at GetReadme; GitHub refuses it when
\* the file has changed since.  An unchanged rewrite is not sent.
PutReadme(h) ==
    /\ proc[h].pc = "put_readme"
    /\ LET unchanged == proc[h].readme.shot = Target(h)
           current == repo.readme = proc[h].readme
       IN IF unchanged \/ current
          THEN /\ repo' = IF unchanged THEN repo ELSE [repo EXCEPT !.readme = ReadmeOf(h)]
               /\ Become(h, [proc[h] EXCEPT !.pc = "verify_readme", !.readme = Idle.readme])
               /\ UNCHANGED retryable_jobs
          ELSE FailAfter(h, "conflict") /\ UNCHANGED repo
    /\ UNCHANGED <<projection, lease, presentation, mutex, env>>

Verify(h, pc, file, next) ==
    /\ proc[h].pc = pc
    /\ IF file = Target(h)
       THEN Goto(h, next) /\ UNCHANGED retryable_jobs
       ELSE FailAfter(h, "github_verify")
    /\ UNCHANGED <<projection, lease, presentation, repo, mutex, env>>

VerifyReadme(h) == Verify(h, "verify_readme", repo.readme.shot, "verify_light")
VerifyLight(h) == Verify(h, "verify_light", repo.light, "verify_dark")
VerifyDark(h) == Verify(h, "verify_dark", repo.dark, "save")

\* Mutant: the intent is applied before the stamp.
SavePresentation_ThenApply(h) ==
    /\ proc[h].pc = "save"
    /\ presentation' = [presentation EXCEPT !.palette = proc[h].palette, !.asset = Target(h)]
    /\ Goto(h, "apply_published")
    /\ UNCHANGED <<projection, lease, retryable_jobs, repo, mutex, env>>

SavePresentation(h) ==
    /\ proc[h].pc = "save"
    /\ presentation' = [presentation EXCEPT !.palette = proc[h].palette, !.asset = Target(h)]
    /\ Goto(h, "stamp")
    /\ UNCHANGED <<projection, lease, retryable_jobs, repo, mutex, env>>

\* MarkReadmeVerified: the lease is still ours, and no other snapshot was
\* verified more than a second after this job began.  A stamp makes every
\* other running job late, unless it falls within that second.
MayStamp(h) ==
    /\ \/ presentation.readme \in {NoSnap, proc[h].row}
       \/ ~proc[h].late
    /\ lease.holder = h

MarkReadmeVerified(h) ==
    /\ proc[h].pc = "stamp"
    /\ IF MayStamp(h)
       THEN /\ presentation' = [presentation EXCEPT !.readme = proc[h].row, !.known = TRUE]
            /\ \E late \in SUBSET {g \in Handlers \ {h} : Publishing(g)} :
                 proc' = [g \in Handlers |->
                            IF g = h THEN [proc[h] EXCEPT !.pc = "apply_published"]
                            ELSE IF g \in late THEN [proc[g] EXCEPT !.late = TRUE]
                            ELSE proc[g]]
            /\ UNCHANGED retryable_jobs
       ELSE /\ UNCHANGED presentation
            /\ IF presentation.readme = proc[h].row /\ presentation.known
               THEN Goto(h, "apply_published") /\ UNCHANGED retryable_jobs
               ELSE FailAfter(h, "github_write")
    /\ UNCHANGED <<projection, lease, repo, mutex, env>>

SetReadmeApplied(h) ==
    /\ proc[h].pc = "apply_published"
    /\ projection' = Applied(projection, proc[h].row)
    /\ Become(h, [proc[h] EXCEPT !.pc = "release", !.current = FALSE])
    /\ \/ UNCHANGED retryable_jobs
       \/ /\ proc[h].op = "retry"
          /\ retryable_jobs' = retryable_jobs \ {proc[h].palette}
    /\ UNCHANGED <<lease, presentation, repo, mutex, env>>

\* Mutant: a failed publish returns without unlocking.
Release_KeepsLock(h) ==
    /\ proc[h].pc = "release"
    /\ lease' = IF lease.holder = h THEN [holder |-> Nobody, lapsed |-> FALSE] ELSE lease
    /\ mutex' = IF proc[h].cause = "" THEN [mutex EXCEPT ![ServerOf[h]] = Nobody] ELSE mutex
    /\ IF proc[h].cause = "" THEN Finish(h) ELSE Goto(h, "note")
    /\ UNCHANGED <<projection, presentation, retryable_jobs, repo, env>>

\* The deferred calls run in reverse: ReleasePublishLease, then Unlock.  A
\* retried job notes nothing; a theme first reads the row it will blame.
Release(h) ==
    /\ proc[h].pc = "release"
    /\ lease' = IF lease.holder = h THEN [holder |-> Nobody, lapsed |-> FALSE] ELSE lease
    /\ mutex' = [mutex EXCEPT ![ServerOf[h]] = Nobody]
    /\ IF proc[h].cause = "" \/ proc[h].op = "retry" THEN Finish(h)
       ELSE Goto(h, IF proc[h].op = "theme" THEN "note_row" ELSE "note")
    /\ UNCHANGED <<projection, presentation, retryable_jobs, repo, env>>

NoteRow(h) ==
    /\ proc[h].pc = "note_row"
    /\ IF projection.snap = NoSnap THEN Finish(h)
       ELSE Become(h, [proc[h] EXCEPT !.cand = projection.snap, !.pc = "note"])
    /\ UNCHANGED <<store, repo, mutex, env>>

\* notePublishFailure: the status and the due instant of a failed attempt.
NoteStatus(cause) ==
    CASE cause = "auth" -> "blocked_auth" [] cause = "busy" -> "pending" [] OTHER -> "failed"

\* publishBackoff: the first miss is due at once, a later one in an hour.  A
\* conflict or a failed read-back has no due instant.
NoteDue(cause, retry) ==
    CASE cause \in {"auth", "rate", "busy"} -> "later"
      [] cause = "github_write" /\ retry > 1 -> "later"
      [] OTHER -> "none"

\* The count is kept up to 2: only the first miss differs from the others.
NextRetry(retry) == IF retry < 2 THEN retry + 1 ELSE 2

NotePublishFailure(h) ==
    /\ proc[h].pc = "note"
    /\ LET retry == NextRetry(projection.retry)
           theme == proc[h].op \in {"theme", "worktheme"}
       IN projection' = Intent(projection, proc[h].cand, NoteStatus(proc[h].cause),
                               IF theme THEN "theme" ELSE "usage",
                               IF theme THEN proc[h].palette ELSE NoPalette,
                               NoteDue(proc[h].cause, retry), retry)
    /\ Finish(h)
    /\ UNCHANGED <<lease, presentation, retryable_jobs, repo, mutex, env>>

-----------------------------------------------------------------------------
(* The owner's page: POST publish and POST retry *)

ReceiveTheme(h, palette) ==
    /\ h \in Owners /\ proc[h].pc = "idle"
    /\ CanSpend("themes") /\ Spend("themes")
    /\ Become(h, [Idle EXCEPT !.pc = "theme_row", !.op = "theme",
                                                !.palette = palette])
    /\ UNCHANGED <<store, repo, mutex, device, day>>

\* Without a projection the request still reaches publishPalette, which fails.
ThemeRow(h) ==
    /\ proc[h].pc = "theme_row"
    /\ Become(h, [proc[h] EXCEPT !.cand = projection.snap,
                            !.pc = IF projection.snap = NoSnap THEN "lock" ELSE "theme_decide"])
    /\ UNCHANGED <<store, repo, mutex, env>>

ThemeDecide(h) ==
    /\ proc[h].pc = "theme_decide"
    /\ LET in == [GateInput(h) EXCEPT !.wall = VerifiedWall(presentation)]
       IN IF DecidePublication(in).action = "PUBLISH_NOW" THEN Goto(h, "lock") ELSE Finish(h)
    /\ UNCHANGED <<store, repo, mutex, env>>

\* A job in partial_failure or conflict is published again with its palette.
ReceiveRetry(h, palette) ==
    /\ h \in Owners /\ proc[h].pc = "idle"
    /\ palette \in retryable_jobs
    /\ CanSpend("themes") /\ Spend("themes")
    /\ Become(h, [Idle EXCEPT !.pc = "lock", !.op = "retry",
                                                !.palette = palette])
    /\ UNCHANGED <<store, repo, mutex, device, day>>

-----------------------------------------------------------------------------
(* maintainReadmes: retryFailedReadmes on a ticker *)

WorkerTick(h) ==
    /\ h \in Workers /\ proc[h].pc = "idle"
    /\ Due(projection, presentation, lease)
    /\ Become(h, [Idle EXCEPT !.pc = "work_row", !.op = "work"])
    /\ UNCHANGED <<store, repo, mutex, env>>

\* A failed theme keeps its palette and is published without a new decision.
WorkRow(h) ==
    /\ proc[h].pc = "work_row"
    /\ LET theme == projection.status = "failed" /\ projection.reason = "theme"
       IN Become(h, [proc[h] EXCEPT !.cand = projection.snap,
                     !.op = IF theme THEN "worktheme" ELSE "work",
                     !.palette = IF theme THEN projection.palette ELSE NoPalette,
                     !.pc = IF theme THEN "lock" ELSE "read_wall"])
    /\ UNCHANGED <<store, repo, mutex, env>>

-----------------------------------------------------------------------------
(* The environment: devices, the calendar, GitHub, clients, processes *)

Scan(d) ==
    /\ device[d] < Len(Feed[d])
    /\ Feed[d][device[d] + 1].date <= day.today
    /\ device' = [device EXCEPT ![d] = @ + 1]
    /\ UNCHANGED <<store, repo, proc, mutex, day, budget>>

LastFourHours ==
    /\ ~day.closing
    /\ day' = [day EXCEPT !.closing = TRUE]
    /\ UNCHANGED <<store, repo, proc, mutex, device, budget>>

\* An instant that was ahead is now past, in the row and in any intent a
\* handler is about to write.
Reach(due) ==
    /\ projection' = [projection EXCEPT !.due = IF @ = due THEN "now" ELSE @]
    /\ proc' = [h \in Handlers |-> [proc[h] EXCEPT !.intent.due = IF @ = due THEN "now" ELSE @]]

Midnight ==
    /\ day.closing /\ day.today < MaxDay
    /\ day' = [today |-> day.today + 1, closing |-> FALSE]
    /\ Reach("midnight")
    /\ UNCHANGED <<lease, presentation, retryable_jobs, repo, mutex, device, budget>>

DueReached ==
    /\ projection.due = "later"
    /\ Reach("later")
    /\ UNCHANGED <<lease, presentation, retryable_jobs, repo, mutex, env>>

\* Two minutes have passed since the lease was taken.
LeaseLapse ==
    /\ lease.holder # Nobody /\ ~lease.lapsed
    /\ SlowPublish \/ lease.holder = Orphan
    /\ lease' = [lease EXCEPT !.lapsed = TRUE]
    /\ UNCHANGED <<projection, presentation, retryable_jobs, repo, proc, mutex, env>>

OwnerCommit ==
    /\ CanSpend("edits") /\ Spend("edits")
    /\ repo' = [repo EXCEPT !.readme.text = @ + 1]
    /\ UNCHANGED <<store, proc, mutex, device, day>>

\* A GitHub read fails, with an error that still has its type.
ReadFault(h, cause) ==
    /\ CanSpend("faults") /\ Spend("faults")
    /\ proc[h].pc \in {"readme", "previews"}
    /\ FailBefore(h, cause)
    /\ UNCHANGED <<projection, lease, presentation, repo, mutex, device, day>>

\* A GitHub write fails; the answer may be lost after GitHub applied it.
WriteFault(h, cause) ==
    /\ CanSpend("faults") /\ Spend("faults")
    /\ \/ proc[h].pc \in {"light", "dark"}
       \/ proc[h].pc = "put_readme" /\ proc[h].readme.shot # Target(h)
    /\ \/ UNCHANGED repo
       \/ /\ cause = "github_write"
          /\ \/ proc[h].pc = "light" /\ repo' = [repo EXCEPT !.light = Target(h)]
             \/ proc[h].pc = "dark" /\ repo' = [repo EXCEPT !.dark = Target(h)]
             \/ /\ proc[h].pc = "put_readme" /\ repo.readme = proc[h].readme
                /\ repo' = [repo EXCEPT !.readme = ReadmeOf(h)]
    /\ FailAfter(h, cause)
    /\ UNCHANGED <<projection, lease, presentation, mutex, device, day>>

VerifyFault(h) ==
    /\ CanSpend("faults") /\ Spend("faults")
    /\ proc[h].pc \in {"verify_readme", "verify_light", "verify_dark"}
    /\ FailAfter(h, "github_verify")
    /\ UNCHANGED <<projection, lease, presentation, repo, mutex, device, day>>

\* The row, the lease, the job, the presentation or the stamp fails in the
\* database.
StoreFault(h) ==
    /\ CanSpend("faults") /\ Spend("faults")
    /\ \/ proc[h].pc \in {"row", "lease", "light"} /\ FailBefore(h, "github_write")
       \/ proc[h].pc \in {"save", "stamp"} /\ FailAfter(h, "github_write")
    /\ UNCHANGED <<projection, lease, presentation, repo, mutex, device, day>>

\* The last two statements: a failed SetReadmeApplied is ignored, a failed
\* UpdateJob reports a publish that GitHub has already verified as failed
\* (unless nothing had to be written: ALREADY_PUBLISHED ignores it).
LateStoreFault(h) ==
    /\ CanSpend("faults") /\ Spend("faults")
    /\ proc[h].pc = "apply_published"
    /\ \/ /\ UNCHANGED projection
          /\ Become(h, [proc[h] EXCEPT !.pc = "release", !.current = FALSE])
       \/ /\ ~proc[h].current
          /\ projection' = Applied(projection, proc[h].row)
          /\ Become(h, [proc[h] EXCEPT !.pc = "release", !.cause = "github_write",
                                  !.raised = "github_write"])
    /\ UNCHANGED <<lease, presentation, retryable_jobs, repo, mutex, device, day>>

\* A read that fails is taken for a row that is not there: no snapshot to
\* compare with, no wall, no intent, the default palette.
ReadMiss(h) ==
    /\ CanSpend("misses") /\ Spend("misses")
    /\ \/ proc[h].pc = "put_read" /\ Goto(h, "put_save")
       \/ /\ proc[h].pc = "read_wall"
          /\ Become(h, [proc[h] EXCEPT !.wall = NoWall, !.pc = "decide"])
       \/ /\ proc[h].pc = "decide"
          /\ Become(h, Decided(h, [GateInput(h) EXCEPT !.pending = NoPending]))
       \/ /\ proc[h].pc = "coalesce"
          /\ Become(h, [proc[h] EXCEPT !.pc = "intent", !.intent =
               Intent(NoProjection, proc[h].cand, "failed", "retry", NoPalette, "none", 0)])
       \/ /\ proc[h].pc = "pick_palette"
          /\ Become(h, [proc[h] EXCEPT !.palette = DefaultPalette, !.pc = "announce"])
       \/ proc[h].pc = "theme_row" /\ Goto(h, "lock")
       \/ proc[h].pc = "theme_decide" /\ Publishable(proc[h].cand) /\ Goto(h, "lock")
       \/ proc[h].pc \in {"work_row", "note_row"} /\ Finish(h)
    /\ UNCHANGED <<store, repo, mutex, device, day>>

\* A write that fails is not looked at, but for SaveProjection, which answers
\* 500.
WriteMiss(h) ==
    /\ CanSpend("misses") /\ Spend("misses")
    /\ \/ /\ proc[h].pc \in {"put_save", "apply_same", "intent", "unconfigured", "note"}
          /\ Finish(h)
       \/ /\ proc[h].pc = "announce"
          /\ Goto(h, IF ServerOf[h] \in Misconfigured THEN "unconfigured" ELSE "lock")
    /\ UNCHANGED <<store, repo, mutex, device, day>>

Gone(hs) ==
    /\ proc' = [h \in Handlers |-> IF h \in hs THEN Idle ELSE proc[h]]
    /\ mutex' = [s \in Servers |-> IF mutex[s] \in hs THEN Nobody ELSE mutex[s]]
    /\ lease' = IF lease.holder \in hs THEN [lease EXCEPT !.holder = Orphan] ELSE lease

\* The client hangs up: its request context is cancelled, so every later SQL
\* statement and GitHub call of the handler fails, the ReleasePublishLease and
\* the notePublishFailure included.
ClientGone(h) ==
    /\ CanSpend("drops") /\ Spend("drops")
    /\ proc[h].op \in {"put", "theme", "retry"}
    /\ Gone({h})
    /\ UNCHANGED <<projection, presentation, retryable_jobs, repo, device, day>>

\* backfillVerifiedIdentity, part of every start: a wall stamped before totals
\* were stored learns its own, if the projection is still that snapshot.
Backfilled(pres) ==
    IF /\ pres.readme # NoSnap /\ ~pres.known
       /\ pres.readme = projection.snap /\ pres.readme.total # None
    THEN [pres EXCEPT !.known = TRUE] ELSE pres

Restart(s) ==
    /\ CanSpend("restarts") /\ Spend("restarts")
    /\ Gone({h \in Handlers : ServerOf[h] = s})
    /\ presentation' = Backfilled(presentation)
    /\ UNCHANGED <<projection, retryable_jobs, repo, device, day>>

-----------------------------------------------------------------------------
(* The specification *)

FreshStart ==
    /\ projection = NoProjection
    /\ presentation = NoPresentation
    /\ device = [d \in Devices |-> 0]
    /\ repo = [readme |-> [text |-> 0, shot |-> NoShot], light |-> NoShot, dark |-> NoShot]

\* A wall applied by a release that did not store verified totals.
LegacyStart ==
    /\ LegacyWall
    /\ \E d \in Devices :
         LET old == Feed[d][1]
             shot == Shot(old, DefaultPalette)
         IN /\ old.date = 1
            /\ projection = [NoProjection EXCEPT !.snap = old, !.desired = old, !.status = "applied"]
            /\ presentation = [palette |-> DefaultPalette, asset |-> shot, readme |-> old, known |-> FALSE]
            /\ device = [e \in Devices |-> IF e = d THEN 1 ELSE 0]
            /\ repo = [readme |-> [text |-> 0, shot |-> shot], light |-> shot, dark |-> shot]

Init ==
    /\ FreshStart \/ LegacyStart
    /\ lease = [holder |-> Nobody, lapsed |-> FALSE]
    /\ retryable_jobs = {}
    /\ proc = [h \in Handlers |-> Idle]
    /\ mutex = [s \in Servers |-> Nobody]
    /\ day = [today |-> 1, closing |-> FALSE]
    /\ budget = [puts |-> MaxPuts, edits |-> MaxEdits, faults |-> MaxFaults, misses |-> MaxMisses,
                 drops |-> MaxDrops, restarts |-> MaxRestarts, themes |-> MaxThemes]

Receive(h) ==
    \/ \E d \in Devices : ReceivePut(h, d)
    \/ \E palette \in Palettes : ReceiveTheme(h, palette) \/ ReceiveRetry(h, palette)

Consider(h) ==
    \/ PutRead(h) \/ PutSave(h) \/ ReadWall(h) \/ Decide(h) \/ ApplySame(h)
    \/ CoalesceRead(h) \/ WriteIntent(h) \/ PickPalette(h) \/ Announce(h)
    \/ Unconfigured(h) \/ ThemeRow(h) \/ ThemeDecide(h) \/ WorkRow(h)

Publish(h) ==
    \/ ReadRow(h) \/ AcquirePublishLease(h) \/ GetReadme(h) \/ GetPreviews(h)
    \/ PutLight(h) \/ PutDark(h) \/ PutReadme(h)
    \/ VerifyReadme(h) \/ VerifyLight(h) \/ VerifyDark(h)
    \/ SavePresentation(h) \/ MarkReadmeVerified(h) \/ SetReadmeApplied(h)
    \/ Release(h) \/ NoteRow(h) \/ NotePublishFailure(h)

Fault(h) ==
    \/ \E cause \in {"auth", "rate", "github_write"} : ReadFault(h, cause)
    \/ \E cause \in {"auth", "rate", "conflict", "github_write"} : WriteFault(h, cause)
    \/ VerifyFault(h) \/ StoreFault(h) \/ LateStoreFault(h)

Miss(h) == ReadMiss(h) \/ WriteMiss(h)

\* The bounds leave nothing to do but wait: only a handler can be stuck.
Rest == (\A h \in Handlers : proc[h].pc = "idle") /\ UNCHANGED vars

Calendar == LastFourHours \/ Midnight \/ DueReached \/ LeaseLapse

Next ==
    \/ \E h \in Handlers :
         Receive(h) \/ Consider(h) \/ Lock(h) \/ Publish(h) \/ WorkerTick(h)
           \/ Fault(h) \/ Miss(h) \/ ClientGone(h)
    \/ \E d \in Devices : Scan(d)
    \/ \E s \in Servers : Restart(s)
    \/ Calendar \/ OwnerCommit \/ Rest

Spec == Init /\ [][Next]_vars

\* Handlers run to their end, publishMu does not starve a waiter, the worker
\* ticks for ever, and time passes.  Requests, scans, faults and restarts are
\* never owed.
Fairness ==
    /\ \A h \in Handlers : WF_vars(Consider(h)) /\ WF_vars(Publish(h)) /\ SF_vars(Lock(h))
    /\ \A h \in Workers : WF_vars(WorkerTick(h))
    /\ WF_vars(LastFourHours) /\ WF_vars(Midnight) /\ WF_vars(DueReached) /\ WF_vars(LeaseLapse)

FairSpec == Spec /\ Fairness
=============================================================================
