--------------------------- MODULE WallProperties ---------------------------
(***************************************************************************)
(* What the hosted wall promises (docs/architecture/                       *)
(* public-profile-control-plane.md), stated over HostedWall.               *)
(***************************************************************************)
EXTENDS HostedWall

MaybeSnap == Snapshots \cup {NoSnap}
MaybePalette == Palettes \cup {NoPalette}

Rows == [snap : MaybeSnap, desired : MaybeSnap, status : Stati, reason : Reasons,
         palette : MaybePalette, due : Dues, retry : 0..2]

Walls == [proven : BOOLEAN, snap : MaybeSnap,
          total : {s.total : s \in Snapshots} \cup {None},
          date : {s.date : s \in Snapshots} \cup {NoDate}]

Locals == [pc : Pcs, op : Ops, cand : MaybeSnap, wall : Walls, palette : MaybePalette,
           intent : Rows, row : MaybeSnap, readme : Readmes, cause : Causes \cup {""},
           raised : Causes \cup {""}, current : BOOLEAN, late : BOOLEAN]

PalettePcs == LockedPcs \cup {"lock", "announce", "theme_row", "theme_decide"}

\* A publisher has the row and the palette it publishes, and whatever is to be
\* noted or written as a theme names its palette.
HandlerOK(l) ==
    /\ l \in Locals
    /\ l.pc \in LockedPcs \ {"row", "release"} => l.row \in Snapshots
    /\ l.pc \in PalettePcs => l.palette \in Palettes
    /\ l.op \in {"theme", "retry", "worktheme"} => l.palette \in Palettes
    /\ l.intent.reason = "theme" => l.intent.palette \in Palettes

ProjectionOK ==
    projection \in Rows /\ (projection.reason = "theme" => projection.palette \in Palettes)
LeaseOK == lease \in [holder : Handlers \cup {Nobody, Orphan}, lapsed : BOOLEAN]
PresentationOK ==
    /\ presentation \in [palette : MaybePalette, asset : Shots \cup {NoShot},
                         readme : MaybeSnap, known : BOOLEAN]
    /\ (presentation.asset # NoShot => presentation.palette \in Palettes)
RepoOK == repo \in [readme : Readmes, light : Shots \cup {NoShot}, dark : Shots \cup {NoShot}]
ProcOK == proc \in [Handlers -> Locals] /\ \A h \in Handlers : HandlerOK(proc[h])
MutexOK == mutex \in [Servers -> Handlers \cup {Nobody}]
EnvOK ==
    /\ device \in [Devices -> Nat] /\ \A d \in Devices : device[d] <= Len(Feed[d])
    /\ day \in [today : 1..MaxDay, closing : BOOLEAN]
    /\ budget \in [puts : Nat, edits : Nat, faults : Nat, misses : Nat, drops : Nat,
                   restarts : Nat, themes : Nat]

\* The shape of the rows, the files, the locals and the clocks.  An owner's
\* commits are counted within their bound.
TypeOK ==
    /\ ProjectionOK /\ LeaseOK /\ PresentationOK /\ RepoOK /\ ProcOK /\ MutexOK /\ EnvOK
    /\ retryable_jobs \subseteq Palettes
    /\ repo.readme.text + budget.edits = MaxEdits

-----------------------------------------------------------------------------
Quiet == \A h \in Handlers : proc[h].pc = "idle"

Shows(files, shot) == files.light = shot /\ files.dark = shot /\ files.readme.shot = shot

\* Publishers of one process never overlap: publishMu spans the row read, the
\* GitHub calls, the stamp and the release of the lease.
OnePublisherPerServer ==
    \A g, h \in Handlers :
      /\ ServerOf[g] = ServerOf[h]
      /\ proc[g].pc \in LockedPcs /\ proc[h].pc \in LockedPcs
      => g = h

\* A wall GitHub shows half of, or shows differently from the stored
\* presentation, has an intent that DuePublicationUserIDs selects sooner or
\* later ("the hosted process retries a failed README without a new PUT").
Pursued ==
    \/ /\ projection.desired # presentation.readme
       /\ projection.status \in {"failed", "pending", "blocked_auth"}
    \/ projection.status = "failed" /\ projection.reason = "theme"

BrokenWallIsPursued ==
    Quiet /\ ~Shows(repo, presentation.asset) => Pursued

\* Until a first wall is verified, an accepted snapshot has an intent the
\* worker selects, also when the process that served the PUT has no GitHub
\* settings and only another process can publish.
FirstWallIsPursued ==
    Quiet /\ projection.snap # NoSnap /\ presentation.readme = NoSnap => Pursued

\* Once nothing runs, the desired id is the newest accepted snapshot ("a
\* failed apply keeps the newest desired snapshot").
DesiredIsNewest == Quiet => projection.desired = projection.snap

\* "Applied" is shown for the snapshot GitHub verified, not for another.
AppliedIsVerified ==
    [][projection'.status = "applied" /\ projection.status # "applied"
         => presentation.readme = projection'.desired]_vars

-----------------------------------------------------------------------------
\* The stored snapshot and the stamped one are the two registers of the
\* promise.  It is kept while one request at a time considers a publication.
Wall == INSTANCE PublicWall WITH
          accepted <- projection.snap, shown <- presentation.readme, Uploads <- Snapshots,
          Days <- 1..MaxDay

ImplementsPublicWall == Wall!Spec

\* "A smaller total is blocked": the verified wall never falls.
VerifiedTotalNeverFalls ==
    [][VerifiedWall(presentation).total # None =>
         /\ VerifiedWall(presentation').total # None
         /\ VerifiedWall(presentation').total >= VerifiedWall(presentation).total]_vars

\* A snapshot is stamped as verified, and a palette is promoted, only while
\* the README and both previews on GitHub show exactly that.
PromotedIsOnGitHub ==
    [][/\ presentation'.asset # presentation.asset => Shows(repo, presentation'.asset)
       /\ presentation'.readme # presentation.readme =>
            Shows(repo, presentation'.asset) /\ presentation'.asset.snap = presentation'.readme]_vars

\* No write of the publisher discards a commit the owner made to the README.
OwnerEditsSurvive == [][repo'.readme.text >= repo.readme.text]_vars

\* A usage publish keeps the palette of the verified wall ("it uses the
\* verified palette when one exists"): only an owner's request changes it.
OwnerPaletteSticks ==
    [][presentation.asset # NoShot /\ presentation'.palette # presentation.palette =>
         \E h \in Handlers : /\ proc[h].pc = "save"
                            /\ proc[h].op \in {"theme", "retry", "worktheme"}]_vars

\* A rate-limited answer delays the next attempt ("rate-limit waits are
\* decided separately from Retry-After or X-RateLimit-Reset").
RateLimitWaits ==
    [][\A h \in Handlers :
         proc[h].pc = "note" /\ proc[h].raised = "rate" /\ projection' # projection
           /\ proc'[h].pc = "idle" => projection'.due \notin {"none", "now"}]_vars

-----------------------------------------------------------------------------
\* Every request ends, and every worker pass.
HandlersFinish == \A h \in Handlers : proc[h].pc # "idle" ~> proc[h].pc = "idle"

\* A failed publish is published by the worker alone, without a new PUT.  (Its
\* status may stay "failed": the last statement of a publish can fail after
\* GitHub was verified.)
FailedIsPublished ==
    projection.status \in {"failed", "blocked_auth"}
      ~> presentation.readme # NoSnap /\ presentation.readme = projection.desired
=============================================================================
