-------------------------- MODULE HostedWallProofs --------------------------
(***************************************************************************)
(* Theorems about the handlers of the hosted wall, for any number of       *)
(* processes, handlers, devices and palettes.                              *)
(***************************************************************************)
EXTENDS WallProperties, TLAPS

-----------------------------------------------------------------------------
(* TypeOK is inductive. *)

LEMMA Constants ==
    /\ Handlers \cap {Nobody, Orphan} = {} /\ Nobody # Orphan
    /\ Putters \subseteq Handlers /\ Owners \subseteq Handlers /\ Workers \subseteq Handlers
    /\ ServerOf \in [Handlers -> Servers]
    /\ NoSnap \notin Snapshots /\ NoShot \notin Shots
    /\ DefaultPalette \in Palettes /\ NoPalette \notin Palettes
    /\ MaxDay \in Nat \ {0} /\ MaxEdits \in Nat
  BY HostedWallAssumption DEF Shots

\* Where a handler needs neither a row nor a palette.
LEMMA OpenPcs ==
    \A pc \in {"idle", "put_read", "put_save", "read_wall", "decide", "apply_same", "coalesce",
              "intent", "pick_palette", "unconfigured", "note_row", "note", "work_row"} :
      pc \in Pcs /\ pc \notin LockedPcs /\ pc \notin PalettePcs
  BY DEF Pcs, PalettePcs, LockedPcs, LeasePcs

\* Where a handler has its palette and no row yet.
LEMMA PreparedPcs ==
    \A pc \in {"lock", "announce", "theme_row", "theme_decide"} :
      pc \in Pcs /\ pc \notin LockedPcs /\ pc \in PalettePcs
  BY DEF Pcs, PalettePcs, LockedPcs, LeasePcs

\* Where a publisher has its row.
RowPcs == LockedPcs \ {"row", "release"}
LEMMA PublisherPcs ==
    /\ LockedPcs \subseteq PalettePcs /\ PalettePcs \subseteq Pcs
    /\ {"row", "release"} \cap RowPcs = {} /\ RowPcs \subseteq LockedPcs
    /\ {"row", "release"} \subseteq LockedPcs
    /\ LeasePcs \ {"release"} \subseteq RowPcs /\ "lease" \in RowPcs
  BY DEF Pcs, PalettePcs, LockedPcs, LeasePcs, RowPcs

LEMMA NoWallOK == NoWall \in Walls
  BY DEF NoWall, Walls, MaybeSnap

LEMMA NoProjectionOK == NoProjection \in Rows
  BY DEF NoProjection, Rows, MaybeSnap, MaybePalette, Stati, Reasons, Dues

LEMMA IdleOK == HandlerOK(Idle)
  <1>1. Idle.readme \in Readmes
    BY Constants DEF Idle, Readmes
  <1>2. Idle \in Locals
    BY <1>1, NoWallOK, NoProjectionOK
       DEF Idle, Locals, Pcs, Ops, MaybeSnap, MaybePalette
  <1>3. Idle.pc = "idle" /\ Idle.op = "none" /\ Idle.intent.reason = ""
    BY DEF Idle, NoProjection
  <1> QED BY <1>2, <1>3, OpenPcs DEF HandlerOK

\* What a step of h leaves to be shown: that its new locals are well formed.
LEMMA HandlerStep ==
    ASSUME ProcOK, NEW h \in Handlers, NEW l, HandlerOK(l), Become(h, l)
    PROVE  ProcOK'
  BY DEF ProcOK, Become, HandlerOK

LEMMA FinishOK ==
    ASSUME ProcOK, NEW h \in Handlers, Finish(h)
    PROVE  ProcOK'
  BY IdleOK, HandlerStep DEF Finish

\* A jump needs what the place it leads to needs.
LEMMA GotoOK ==
    ASSUME ProcOK, NEW h \in Handlers, NEW pc \in Pcs, Goto(h, pc),
           pc \in LockedPcs \ {"row", "release"} => proc[h].row \in Snapshots,
           pc \in PalettePcs => proc[h].palette \in Palettes
    PROVE  ProcOK'
  <1> DEFINE l == [proc[h] EXCEPT !.pc = pc]
  <1>1. HandlerOK(l)
    BY DEF ProcOK, HandlerOK, Locals
  <1> QED BY <1>1, HandlerStep DEF Goto

LEMMA OnlyProc ==
    ASSUME TypeOK, ProcOK', UNCHANGED <<store, repo, mutex, env>>
    PROVE  TypeOK'
  BY DEF TypeOK, ProjectionOK, LeaseOK, PresentationOK, RepoOK, MutexOK, EnvOK, store, env

LEMMA OnlyRow ==
    ASSUME TypeOK, ProcOK', ProjectionOK',
           UNCHANGED <<lease, presentation, retryable_jobs, repo, mutex, env>>
    PROVE  TypeOK'
  BY DEF TypeOK, LeaseOK, PresentationOK, RepoOK, MutexOK, EnvOK, env

\* Requests, drops and faults are paid for, and are not the owner's commits.
LEMMA PaidOK ==
    ASSUME TypeOK, NEW what \in {"puts", "themes", "faults", "misses", "drops", "restarts"},
           CanSpend(what), Spend(what), UNCHANGED <<device, day>>
    PROVE  EnvOK' /\ budget'.edits = budget.edits
  <1> DEFINE Bounds == [puts : Nat, edits : Nat, faults : Nat, misses : Nat, drops : Nat,
                        restarts : Nat, themes : Nat]
             left == budget[what] - 1
  <1>1. budget \in Bounds
    BY DEF TypeOK, EnvOK
  <1>2. budget[what] \in Nat
    BY <1>1
  <1>3. left \in Nat /\ budget' = [budget EXCEPT ![what] = left]
    BY <1>2 DEF Spend, CanSpend
  <1> HIDE DEF left
  <1>4. budget' \in Bounds /\ budget'.edits = budget.edits
    BY <1>1, <1>3
  <1> QED BY <1>4 DEF TypeOK, EnvOK

LEMMA SpendingOK ==
    ASSUME TypeOK, ProcOK', NEW what \in {"puts", "themes", "misses"}, CanSpend(what), Spend(what),
           UNCHANGED <<store, repo, mutex, device, day>>
    PROVE  TypeOK'
  <1>1. EnvOK' /\ budget'.edits = budget.edits
    BY PaidOK
  <1> QED BY <1>1
        DEF TypeOK, ProjectionOK, LeaseOK, PresentationOK, RepoOK, MutexOK, EnvOK, store

-----------------------------------------------------------------------------
(* The rows *)

LEMMA IntentOK ==
    ASSUME NEW p \in Rows, NEW desired \in MaybeSnap, NEW status \in Stati,
           NEW reason \in Reasons, NEW palette \in MaybePalette, NEW due \in Dues,
           NEW retry \in 0..2
    PROVE  /\ Intent(p, desired, status, reason, palette, due, retry) \in Rows
           /\ Intent(p, desired, status, reason, palette, due, retry).reason = reason
           /\ Intent(p, desired, status, reason, palette, due, retry).palette = palette
  BY DEF Intent, Rows

LEMMA AppliedOK ==
    ASSUME ProjectionOK, NEW snap \in MaybeSnap
    PROVE  /\ Applied(projection, snap) \in Rows
           /\ Applied(projection, snap).reason = "theme"
                => Applied(projection, snap).palette \in Palettes
  <1>1. Intent(projection, snap, "applied", "", NoPalette, "none", 0) \in Rows
        /\ Intent(projection, snap, "applied", "", NoPalette, "none", 0).reason = ""
    <2>1. /\ "applied" \in Stati /\ "" \in Reasons /\ NoPalette \in MaybePalette
          /\ "none" \in Dues /\ 0 \in 0..2
      BY DEF Stati, Reasons, Dues, MaybePalette
    <2> QED BY <2>1 DEF ProjectionOK, Intent, Rows
  <1> QED BY <1>1 DEF Applied, ProjectionOK

LEMMA PutSteps ==
    ASSUME TypeOK, NEW h \in Handlers
    PROVE  /\ \A d \in Devices : ReceivePut(h, d) => TypeOK'
           /\ PutRead(h) \/ PutSave(h) => TypeOK'
  <1>1. ASSUME NEW d \in Devices, ReceivePut(h, d)
        PROVE  TypeOK'
    <2> DEFINE l == [Idle EXCEPT !.pc = "put_read", !.op = "put", !.cand = Feed[d][device[d]]]
    <2>1. Feed[d][device[d]] \in Snapshots
      <3>1. device[d] \in Nat /\ device[d] <= Len(Feed[d]) /\ device[d] > 0
        BY <1>1 DEF ReceivePut, TypeOK, EnvOK
      <3>2. Len(Feed[d]) \in Nat /\ DOMAIN Feed[d] = 1..Len(Feed[d])
        BY HostedWallAssumption
      <3>3. device[d] \in DOMAIN Feed[d]
        BY <3>1, <3>2
      <3> QED BY <3>3 DEF Snapshots
    <2>2. HandlerOK(l)
      <3>1. Feed[d][device[d]] \in MaybeSnap /\ "put" \in Ops
        BY <2>1 DEF MaybeSnap, Ops
      <3> QED BY <3>1, OpenPcs, IdleOK DEF HandlerOK, Locals
    <2>3. ProcOK'
      BY <1>1, <2>2, HandlerStep DEF ReceivePut, TypeOK
    <2> QED BY <1>1, <2>3, SpendingOK DEF ReceivePut
  <1>2. CASE PutRead(h)
    <2>1. CASE Finish(h)
      BY <1>2, <2>1, FinishOK, OnlyProc DEF PutRead, TypeOK
    <2>2. CASE Goto(h, "put_save")
      BY <1>2, <2>2, OpenPcs, GotoOK, OnlyProc DEF PutRead, TypeOK
    <2> QED BY <1>2, <2>1, <2>2 DEF PutRead
  <1>3. CASE PutSave(h)
    <2>1. proc[h].cand \in MaybeSnap
      BY DEF TypeOK, ProcOK, Locals
    <2>2. ProjectionOK'
      BY <1>3, <2>1 DEF PutSave, TypeOK, ProjectionOK, Rows
    <2>3. ProcOK'
      BY <1>3, OpenPcs, GotoOK DEF PutSave, TypeOK
    <2> QED BY <1>3, <2>2, <2>3, OnlyRow DEF PutSave
  <1> QED BY <1>1, <1>2, <1>3

-----------------------------------------------------------------------------
(* The decision and what is written after it *)

LEMMA VerifiedWallOK ==
    ASSUME PresentationOK
    PROVE  VerifiedWall(presentation) \in Walls
  <1>1. presentation.readme # NoSnap => presentation.readme \in Snapshots
    BY DEF PresentationOK, MaybeSnap
  <1> QED BY <1>1, NoWallOK DEF VerifiedWall, Walls, MaybeSnap, PresentationOK

\* The gate compares the accepted snapshot with itself, so it never finds lost
\* coverage: PutRead has compared it before the save.
LEMMA BlockedReasons ==
    ASSUME NEW in, ~in.offline, in.accepted = in.cand, DecidePublication(in).action = "BLOCKED"
    PROVE  DecidePublication(in).reason \in {"unavailable", "negative", "unknown_verified"}
  <1>1. ~CoverageLost(in)
    BY DEF CoverageLost
  <1> QED BY <1>1 DEF DecidePublication, Decision

\* A decision moves on with the same locals, or with an intent to write.
LEMMA DecidedOK ==
    ASSUME ProcOK, NEW h \in Handlers, proc[h].pc = "decide",
           NEW in, ~in.offline, in.accepted = in.cand
    PROVE  HandlerOK(Decided(h, in))
  <1> DEFINE decision == DecidePublication(in)
             Move(pc) == [proc[h] EXCEPT !.pc = pc, !.wall = NoWall]
             Write(status, reason, due) ==
               [Move("intent") EXCEPT !.intent =
                  Intent(NoProjection, proc[h].cand, status, reason, NoPalette, due, 0)]
  <1>1. HandlerOK(proc[h])
    BY DEF ProcOK
  <1>2. \A pc \in {"pick_palette", "coalesce", "intent", "apply_same"} : HandlerOK(Move(pc))
    BY <1>1, NoWallOK, OpenPcs DEF HandlerOK, Locals
  <1>3. ASSUME NEW status \in Stati, NEW reason \in Reasons, NEW due \in Dues, reason # "theme"
        PROVE  HandlerOK(Write(status, reason, due))
    <2> DEFINE i == Intent(NoProjection, proc[h].cand, status, reason, NoPalette, due, 0)
    <2>1. proc[h].cand \in MaybeSnap /\ NoPalette \in MaybePalette
      BY <1>1 DEF HandlerOK, Locals, MaybePalette
    <2>2. i \in Rows /\ i.reason = reason
      <3> DEFINE p == NoProjection
      <3> p \in Rows
        BY NoProjectionOK
      <3> HIDE DEF p
      <3>1. Intent(p, proc[h].cand, status, reason, NoPalette, due, 0) \in Rows
        BY <2>1, 0 \in 0..2, IntentOK
      <3>2. Intent(p, proc[h].cand, status, reason, NoPalette, due, 0).reason = reason
        BY DEF Intent, Rows
      <3> QED BY <3>1, <3>2 DEF p
    <2> HIDE DEF i
    <2>3. HandlerOK(Move("intent"))
      BY <1>2
    <2> HIDE DEF Move
    <2>4. HandlerOK([Move("intent") EXCEPT !.intent = i])
      BY <2>2, <2>3, <1>3 DEF HandlerOK, Locals
    <2> QED BY <2>4 DEF i
  <1>4. decision.action = "BLOCKED" /\ decision.reason # "unknown_verified"
          => decision.reason \in {"unavailable", "negative"}
    BY BlockedReasons
  <1>5. /\ HandlerOK(Write("pending", "cooldown", "midnight"))
        /\ HandlerOK(Write("blocked_data", "unavailable", "none"))
        /\ HandlerOK(Write("blocked_data", "negative", "none"))
    BY <1>3 DEF Stati, Reasons, Dues
  <1>6. HandlerOK(Idle)
    BY IdleOK
  <1> HIDE DEF decision, Move, Write
  <1>7. Decided(h, in) =
          CASE decision.action = "PUBLISH_NOW" -> Move("pick_palette")
            [] decision.action = "RETRY_PENDING" -> Move("coalesce")
            [] decision.action = "WAIT_UNTIL" -> Write("pending", "cooldown", "midnight")
            [] decision.action = "BLOCKED" /\ decision.reason # "unknown_verified" ->
                 Write("blocked_data", decision.reason, "none")
            [] decision.action = "NO_CHANGE" /\ proc[h].cand = proc[h].wall.snap ->
                 Move("apply_same")
            [] OTHER -> Idle
    BY DEF Decided, decision, Move, Write
  <1> QED BY <1>2, <1>4, <1>5, <1>6, <1>7

LEMMA HandlerIsOK ==
    ASSUME TypeOK, NEW h \in Handlers
    PROVE  ProcOK /\ HandlerOK(proc[h]) /\ proc[h] \in Locals
  BY DEF TypeOK, ProcOK

LEMMA RowIsOK ==
    ASSUME TypeOK
    PROVE  ProjectionOK /\ projection.snap \in MaybeSnap /\ projection.retry \in 0..2
           /\ projection.due \in Dues /\ projection.palette \in MaybePalette
  BY DEF TypeOK, ProjectionOK, Rows

LEMMA ReadSteps ==
    ASSUME TypeOK, NEW h \in Handlers,
           ReadWall(h) \/ Decide(h) \/ CoalesceRead(h) \/ PickPalette(h)
    PROVE  TypeOK'
  <1>0. ProcOK /\ HandlerOK(proc[h]) /\ proc[h] \in Locals
    BY HandlerIsOK
  <1>1. CASE ReadWall(h)
    <2> DEFINE l == [proc[h] EXCEPT !.wall = VerifiedWall(presentation), !.pc = "decide"]
    <2>1. VerifiedWall(presentation) \in Walls
      BY VerifiedWallOK DEF TypeOK
    <2>2. HandlerOK(l)
      BY <1>0, <2>1, OpenPcs DEF HandlerOK, Locals
    <2> QED BY <1>0, <1>1, <2>2, HandlerStep, OnlyProc DEF ReadWall
  <1>2. CASE Decide(h)
    <2>1. ~GateInput(h).offline /\ GateInput(h).accepted = GateInput(h).cand
      BY DEF GateInput
    <2>2. HandlerOK(Decided(h, GateInput(h)))
      BY <1>0, <1>2, <2>1, DecidedOK DEF Decide
    <2> QED BY <1>0, <1>2, <2>2, HandlerStep, OnlyProc DEF Decide
  <1>3. CASE CoalesceRead(h)
    <2> DEFINE theme == projection.reason = "theme"
               reason == IF theme THEN "theme" ELSE "retry"
               palette == IF theme THEN projection.palette ELSE NoPalette
               i == Intent(NoProjection, proc[h].cand, "failed", reason, palette,
                           projection.due, projection.retry)
               l == [proc[h] EXCEPT !.pc = "intent", !.intent = i]
    <2>1. /\ proc[h].cand \in MaybeSnap /\ "failed" \in Stati /\ reason \in Reasons
          /\ palette \in MaybePalette
      BY <1>0, RowIsOK DEF Locals, Stati, Reasons, MaybePalette
    <2>2. reason = "theme" => palette \in Palettes
      BY RowIsOK DEF ProjectionOK
    <2>3. Become(h, l)
      BY <1>3 DEF CoalesceRead
    <2> HIDE DEF reason, palette
    <2>4. i \in Rows /\ i.reason = reason /\ i.palette = palette
      BY <2>1, NoProjectionOK, RowIsOK, IntentOK
    <2> HIDE DEF i
    <2>5. HandlerOK(l)
      BY <1>0, <2>2, <2>4, OpenPcs DEF HandlerOK, Locals
    <2> QED BY <1>0, <1>3, <2>3, <2>5, HandlerStep, OnlyProc DEF CoalesceRead
  <1>4. CASE PickPalette(h)
    <2> DEFINE palette == UsagePalette(presentation)
               l == [proc[h] EXCEPT !.palette = palette, !.pc = "announce"]
    <2>1. palette \in Palettes /\ palette \in MaybePalette
      BY Constants DEF UsagePalette, TypeOK, PresentationOK, MaybePalette
    <2>2. Become(h, l)
      BY <1>4 DEF PickPalette
    <2> HIDE DEF palette
    <2>3. HandlerOK(l)
      BY <1>0, <2>1, PreparedPcs DEF HandlerOK, Locals
    <2> QED BY <1>0, <1>4, <2>2, <2>3, HandlerStep, OnlyProc DEF PickPalette
  <1> QED BY <1>1, <1>2, <1>3, <1>4

LEMMA WriteSteps ==
    ASSUME TypeOK, NEW h \in Handlers, ApplySame(h) \/ WriteIntent(h) \/ Unconfigured(h)
    PROVE  TypeOK'
  <1>1. ProcOK'
    BY HandlerIsOK, FinishOK DEF ApplySame, WriteIntent, Unconfigured
  <1>2. proc[h].cand \in MaybeSnap
    BY HandlerIsOK DEF Locals
  <1>3. CASE ApplySame(h)
    BY <1>1, <1>2, <1>3, RowIsOK, AppliedOK, OnlyRow DEF ApplySame, ProjectionOK
  <1>4. CASE WriteIntent(h)
    <2> DEFINE i == proc[h].intent
    <2>1. i \in Rows /\ (i.reason = "theme" => i.palette \in Palettes)
      BY HandlerIsOK DEF HandlerOK, Locals
    <2>2. projection' = Intent(projection, i.desired, i.status, i.reason, i.palette, i.due, i.retry)
      BY <1>4 DEF WriteIntent
    <2> HIDE DEF i
    <2>3. ProjectionOK'
      BY <2>1, <2>2, RowIsOK DEF ProjectionOK, Intent, Rows
    <2> QED BY <1>1, <1>4, <2>3, OnlyRow DEF WriteIntent
  <1>5. CASE Unconfigured(h)
    <2>1. "failed" \in Stati /\ "usage" \in Reasons /\ NoPalette \in MaybePalette /\ "none" \in Dues
      BY DEF Stati, Reasons, MaybePalette, Dues
    <2>2. ProjectionOK'
      BY <1>2, <1>5, <2>1, RowIsOK, IntentOK DEF Unconfigured, ProjectionOK
    <2> QED BY <1>1, <1>5, <2>2, OnlyRow DEF Unconfigured
  <1> QED BY <1>3, <1>4, <1>5

LEMMA AnnounceStep ==
    ASSUME TypeOK, NEW h \in Handlers, Announce(h)
    PROVE  TypeOK'
  <1> DEFINE pc == IF ServerOf[h] \in Misconfigured THEN "unconfigured" ELSE "lock"
  <1>1. pc \in Pcs /\ pc \notin LockedPcs
    BY OpenPcs, PreparedPcs
  <1>2. ProcOK /\ proc[h].cand \in MaybeSnap /\ proc[h].palette \in Palettes
    BY HandlerIsOK, PreparedPcs DEF Announce, HandlerOK, Locals
  <1>3. Goto(h, pc)
    BY DEF Announce
  <1> HIDE DEF pc
  <1>4. ProcOK'
    BY <1>1, <1>2, <1>3, GotoOK
  <1>5. "pending" \in Stati /\ "usage" \in Reasons /\ NoPalette \in MaybePalette /\ "now" \in Dues
    BY DEF Stati, Reasons, MaybePalette, Dues
  <1>6. ProjectionOK'
    BY <1>2, <1>5, RowIsOK, IntentOK DEF Announce, ProjectionOK
  <1> QED BY <1>4, <1>6, OnlyRow DEF Announce

\* The owner's page and the worker before they publish.
LEMMA OwnerSteps ==
    ASSUME TypeOK, NEW h \in Handlers, ThemeRow(h) \/ ThemeDecide(h) \/ WorkRow(h)
    PROVE  TypeOK'
  <1>0. ProcOK /\ HandlerOK(proc[h]) /\ proc[h] \in Locals
    BY HandlerIsOK
  <1>1. CASE ThemeRow(h)
    <2> DEFINE pc == IF projection.snap = NoSnap THEN "lock" ELSE "theme_decide"
               l == [proc[h] EXCEPT !.cand = projection.snap, !.pc = pc]
    <2>1. Become(h, l) /\ proc[h].palette \in Palettes
      BY <1>0, <1>1, PreparedPcs DEF ThemeRow, HandlerOK
    <2>2. pc \in Pcs /\ pc \notin LockedPcs
      BY PreparedPcs
    <2> HIDE DEF pc
    <2>3. HandlerOK(l)
      BY <1>0, <2>1, <2>2, RowIsOK DEF HandlerOK, Locals
    <2> QED BY <1>0, <1>1, <2>1, <2>3, HandlerStep, OnlyProc DEF ThemeRow
  <1>2. CASE ThemeDecide(h)
    <2>1. CASE Finish(h)
      BY <1>0, <1>2, <2>1, FinishOK, OnlyProc DEF ThemeDecide
    <2>2. CASE Goto(h, "lock")
      BY <1>0, <1>2, <2>2, PreparedPcs, GotoOK, OnlyProc DEF ThemeDecide, HandlerOK
    <2> QED BY <1>2, <2>1, <2>2 DEF ThemeDecide
  <1>3. CASE WorkRow(h)
    <2> DEFINE theme == projection.status = "failed" /\ projection.reason = "theme"
               op == IF theme THEN "worktheme" ELSE "work"
               palette == IF theme THEN projection.palette ELSE NoPalette
               pc == IF theme THEN "lock" ELSE "read_wall"
               l == [proc[h] EXCEPT !.cand = projection.snap, !.op = op,
                                    !.palette = palette, !.pc = pc]
    <2>1. Become(h, l)
      BY <1>3 DEF WorkRow
    <2>2. /\ op \in Ops /\ palette \in MaybePalette /\ pc \in Pcs /\ pc \notin LockedPcs
          /\ pc \in PalettePcs => palette \in Palettes
          /\ op \in {"theme", "retry", "worktheme"} => palette \in Palettes
      BY RowIsOK, OpenPcs, PreparedPcs DEF Ops, MaybePalette, ProjectionOK
    <2> HIDE DEF op, palette, pc
    <2>3. HandlerOK(l)
      BY <1>0, <2>2, RowIsOK DEF HandlerOK, Locals
    <2> QED BY <1>0, <1>3, <2>1, <2>3, HandlerStep, OnlyProc DEF WorkRow
  <1> QED BY <1>1, <1>2, <1>3

\* A new request starts from Idle.
LEMMA RequestSteps ==
    ASSUME TypeOK, NEW h \in Handlers
    PROVE  /\ \A palette \in Palettes : ReceiveTheme(h, palette) \/ ReceiveRetry(h, palette) => TypeOK'
           /\ WorkerTick(h) => TypeOK'
  <1>1. ASSUME NEW palette \in Palettes, ReceiveTheme(h, palette) \/ ReceiveRetry(h, palette)
        PROVE  TypeOK'
    <2> DEFINE Request(pc, op) == [Idle EXCEPT !.pc = pc, !.op = op, !.palette = palette]
    <2>1. ASSUME NEW pc \in {"theme_row", "lock"}, NEW op \in {"theme", "retry"}
          PROVE  HandlerOK(Request(pc, op))
      <3>1. pc \in Pcs /\ pc \notin LockedPcs /\ op \in Ops /\ palette \in MaybePalette
        BY PreparedPcs DEF Ops, MaybePalette
      <3> QED BY <3>1, IdleOK DEF HandlerOK, Locals
    <2>2. \E pc \in {"theme_row", "lock"}, op \in {"theme", "retry"} : Become(h, Request(pc, op))
      BY <1>1 DEF ReceiveTheme, ReceiveRetry
    <2> HIDE DEF Request
    <2>3. ProcOK'
      BY <2>1, <2>2, HandlerStep, HandlerIsOK
    <2> QED BY <1>1, <2>3, SpendingOK DEF ReceiveTheme, ReceiveRetry
  <1>2. ASSUME WorkerTick(h)
        PROVE  TypeOK'
    <2> DEFINE l == [Idle EXCEPT !.pc = "work_row", !.op = "work"]
    <2>1. HandlerOK(l)
      <3>1. "work" \in Ops
        BY DEF Ops
      <3> QED BY <3>1, OpenPcs, IdleOK DEF HandlerOK, Locals
    <2> QED BY <1>2, <2>1, HandlerIsOK, HandlerStep, OnlyProc DEF WorkerTick
  <1> QED BY <1>1, <1>2

-----------------------------------------------------------------------------
(* Publishing *)

LEMMA KeptOK ==
    ASSUME TypeOK
    PROVE  /\ UNCHANGED projection => ProjectionOK'
           /\ UNCHANGED lease => LeaseOK'
           /\ UNCHANGED presentation => PresentationOK'
           /\ UNCHANGED repo => RepoOK'
           /\ UNCHANGED mutex => MutexOK'
           /\ UNCHANGED retryable_jobs => retryable_jobs' \subseteq Palettes
           /\ UNCHANGED env => EnvOK' /\ budget' = budget
  BY DEF TypeOK, ProjectionOK, LeaseOK, PresentationOK, RepoOK, MutexOK, EnvOK, env

LEMMA WholeOK ==
    ASSUME TypeOK, ProjectionOK', LeaseOK', PresentationOK', RepoOK', ProcOK', MutexOK', EnvOK',
           retryable_jobs' \subseteq Palettes,
           repo'.readme.text = repo.readme.text, budget'.edits = budget.edits
    PROVE  TypeOK'
  BY DEF TypeOK

LEMMA PublisherIsOK ==
    ASSUME TypeOK, NEW h \in Handlers, proc[h].pc \in RowPcs
    PROVE  proc[h].row \in Snapshots /\ proc[h].palette \in Palettes /\ Target(h) \in Shots
  <1>1. HandlerOK(proc[h])
    BY HandlerIsOK
  <1>2. proc[h].row \in Snapshots /\ proc[h].palette \in Palettes
    BY <1>1, PublisherPcs DEF HandlerOK, RowPcs
  <1> QED BY <1>2 DEF Target, Shot, Shots

LEMMA MoveOK ==
    ASSUME TypeOK, NEW h \in Handlers, proc[h].pc \in RowPcs, NEW pc \in RowPcs, Goto(h, pc)
    PROVE  ProcOK'
  BY PublisherIsOK, HandlerIsOK, PublisherPcs, GotoOK

LEMMA FailBeforeOK ==
    ASSUME TypeOK, NEW h \in Handlers, proc[h].pc \in PalettePcs, NEW cause \in Causes,
           FailBefore(h, cause)
    PROVE  ProcOK' /\ retryable_jobs' \subseteq Palettes
  <1>0. ProcOK /\ HandlerOK(proc[h]) /\ proc[h] \in Locals
    BY HandlerIsOK
  <1>1. Idle.readme \in Readmes
    BY IdleOK DEF HandlerOK, Locals
  <1>2. HandlerOK([proc[h] EXCEPT !.pc = "release", !.cause = cause, !.raised = cause,
                                  !.readme = Idle.readme, !.current = FALSE])
    BY <1>0, <1>1, PublisherPcs DEF HandlerOK, Locals, RowPcs
  <1> QED BY <1>0, <1>2, HandlerStep DEF FailBefore, TypeOK

LEMMA FailAfterOK ==
    ASSUME TypeOK, NEW h \in Handlers, proc[h].pc \in RowPcs, NEW cause \in Causes,
           FailAfter(h, cause)
    PROVE  ProcOK' /\ retryable_jobs' \subseteq Palettes
  <1>0. ProcOK /\ HandlerOK(proc[h]) /\ proc[h] \in Locals
    BY HandlerIsOK
  <1>1. Idle.readme \in Readmes /\ Untyped(cause) \in Causes
    BY IdleOK DEF HandlerOK, Locals, Untyped, Causes
  <1>2. HandlerOK([proc[h] EXCEPT !.pc = "release", !.cause = Untyped(cause), !.raised = cause,
                                  !.readme = Idle.readme, !.current = FALSE])
    BY <1>0, <1>1, PublisherPcs DEF HandlerOK, Locals, RowPcs
  <1>3. proc[h].palette \in Palettes
    BY PublisherIsOK
  <1> QED BY <1>0, <1>2, <1>3, HandlerStep DEF FailAfter, TypeOK

LEMMA CausesOK ==
    {"auth", "rate", "busy", "github_write", "conflict", "github_verify"} \subseteq Causes
  BY DEF Causes

LEMMA LockSteps ==
    ASSUME TypeOK, NEW h \in Handlers, Lock(h) \/ ReadRow(h) \/ AcquirePublishLease(h)
    PROVE  TypeOK'
  <1>0. ProcOK /\ HandlerOK(proc[h]) /\ proc[h] \in Locals
    BY HandlerIsOK
  <1>1. CASE Lock(h)
    <2>1. ProcOK' /\ retryable_jobs' \subseteq Palettes
      <3>1. CASE FailBefore(h, "github_write")
        BY <1>1, <3>1, FailBeforeOK, CausesOK, PreparedPcs DEF Lock
      <3>2. CASE Goto(h, "row") /\ UNCHANGED retryable_jobs
        BY <1>0, <1>1, <3>2, GotoOK, KeptOK, PreparedPcs, PublisherPcs DEF Lock, HandlerOK
      <3> QED BY <1>1, <3>1, <3>2 DEF Lock
    <2>2. MutexOK'
      BY <1>1, Constants DEF Lock, TypeOK, MutexOK
    <2> QED BY <1>1, <2>1, <2>2, KeptOK, WholeOK DEF Lock
  <1>2. CASE ReadRow(h)
    <2>1. "row" \in PalettePcs /\ proc[h].palette \in Palettes
      BY <1>0, <1>2, PublisherPcs DEF ReadRow, HandlerOK
    <2>2. ProcOK' /\ retryable_jobs' \subseteq Palettes
      <3>1. CASE FailBefore(h, "github_write")
        BY <1>2, <2>1, <3>1, FailBeforeOK, CausesOK DEF ReadRow
      <3>2. CASE projection.snap # NoSnap
        <4> DEFINE l == [proc[h] EXCEPT !.row = projection.snap, !.pc = "lease"]
        <4>1. projection.snap \in Snapshots
          BY <3>2, RowIsOK DEF MaybeSnap
        <4>2. HandlerOK(l)
          BY <1>0, <2>1, <4>1, RowIsOK, PublisherPcs DEF HandlerOK, Locals
        <4> QED BY <1>0, <1>2, <3>2, <4>2, HandlerStep, KeptOK DEF ReadRow
      <3> QED BY <1>2, <3>1, <3>2 DEF ReadRow
    <2> QED BY <1>2, <2>2, KeptOK, WholeOK DEF ReadRow
  <1>3. CASE AcquirePublishLease(h)
    <2>1. proc[h].pc \in RowPcs /\ proc[h].pc \in PalettePcs /\ "readme" \in RowPcs
      BY <1>3, PublisherPcs DEF AcquirePublishLease, LeasePcs
    <2>2. ProcOK' /\ retryable_jobs' \subseteq Palettes /\ LeaseOK'
      <3>1. CASE FailBefore(h, "busy") /\ UNCHANGED lease
        BY <2>1, <3>1, FailBeforeOK, CausesOK, KeptOK
      <3>2. CASE /\ lease' = [holder |-> h, lapsed |-> FALSE]
                 /\ Goto(h, "readme") /\ UNCHANGED retryable_jobs
        BY <2>1, <3>2, MoveOK, KeptOK DEF LeaseOK
      <3> QED BY <1>3, <3>1, <3>2 DEF AcquirePublishLease
    <2> QED BY <1>3, <2>2, KeptOK, WholeOK DEF AcquirePublishLease
  <1> QED BY <1>1, <1>2, <1>3

LEMMA RepoEditOK ==
    ASSUME TypeOK, NEW shot \in Shots,
           \/ repo' = [repo EXCEPT !.light = shot]
           \/ repo' = [repo EXCEPT !.dark = shot]
           \/ repo' = [repo EXCEPT !.readme.shot = shot]
           \/ UNCHANGED repo
    PROVE  RepoOK' /\ repo'.readme.text = repo.readme.text
  BY DEF TypeOK, RepoOK, Readmes

\* Written over the README it was made from, the new one keeps the owner's text.
LEMMA ReadmeWriteOK ==
    ASSUME TypeOK, NEW h \in Handlers, repo.readme = proc[h].readme
    PROVE  [repo EXCEPT !.readme = ReadmeOf(h)] = [repo EXCEPT !.readme.shot = Target(h)]
  BY DEF TypeOK, RepoOK, Readmes, ReadmeOf

LEMMA ReadFileSteps ==
    ASSUME TypeOK, NEW h \in Handlers, GetReadme(h) \/ GetPreviews(h)
    PROVE  TypeOK'
  <1>0. ProcOK /\ HandlerOK(proc[h]) /\ proc[h] \in Locals
    BY HandlerIsOK
  <1>1. {"readme", "previews", "save", "light"} \subseteq RowPcs
    BY PublisherPcs DEF LeasePcs
  <1>2. proc[h].row \in Snapshots /\ proc[h].palette \in Palettes
    BY <1>1, PublisherIsOK DEF GetReadme, GetPreviews
  <1>3. ASSUME NEW pc \in RowPcs, NEW current \in BOOLEAN
        PROVE  HandlerOK([proc[h] EXCEPT !.pc = pc, !.current = current])
    BY <1>0, <1>2, PublisherPcs DEF HandlerOK, Locals
  <1>4. CASE GetReadme(h)
    <2>1. repo.readme \in Readmes
      BY DEF TypeOK, RepoOK
    <2> DEFINE current == presentation.palette = proc[h].palette /\ presentation.asset = Target(h)
    <2>2. HandlerOK([proc[h] EXCEPT !.readme = repo.readme, !.pc = "previews", !.current = current])
      BY <1>0, <1>1, <1>2, <2>1, PublisherPcs DEF HandlerOK, Locals
    <2>3. ProcOK'
      BY <1>0, <1>4, <2>2, HandlerStep DEF GetReadme
    <2> QED BY <1>4, <2>3, OnlyProc DEF GetReadme
  <1>5. CASE GetPreviews(h)
    <2> DEFINE done == /\ proc[h].current
                       /\ repo.light = Target(h) /\ repo.dark = Target(h)
                       /\ proc[h].readme.shot = Target(h)
               pc == IF done THEN "save" ELSE "light"
    <2>1. done \in BOOLEAN /\ pc \in RowPcs
      BY <1>0, <1>1 DEF Locals
    <2>2. Become(h, [proc[h] EXCEPT !.pc = pc, !.current = done])
      BY <1>5 DEF GetPreviews
    <2> HIDE DEF done, pc
    <2>3. ProcOK'
      BY <1>0, <1>3, <2>1, <2>2, HandlerStep
    <2> QED BY <1>5, <2>3, OnlyProc DEF GetPreviews
  <1> QED BY <1>4, <1>5

LEMMA WriteFileSteps ==
    ASSUME TypeOK, NEW h \in Handlers, PutLight(h) \/ PutDark(h) \/ PutReadme(h)
    PROVE  TypeOK'
  <1>0. ProcOK /\ HandlerOK(proc[h]) /\ proc[h] \in Locals
    BY HandlerIsOK
  <1>1. {"light", "dark", "put_readme", "verify_readme"} \subseteq RowPcs
    BY PublisherPcs DEF LeasePcs
  <1>2. proc[h].row \in Snapshots /\ proc[h].palette \in Palettes /\ Target(h) \in Shots
    BY <1>1, PublisherIsOK DEF PutLight, PutDark, PutReadme
  <1>3. CASE PutLight(h)
    BY <1>1, <1>2, <1>3, MoveOK, RepoEditOK, KeptOK, WholeOK DEF PutLight, store
  <1>4. CASE PutDark(h)
    BY <1>1, <1>2, <1>4, MoveOK, RepoEditOK, KeptOK, WholeOK DEF PutDark, store
  <1>5. CASE PutReadme(h)
    <2>1. RepoOK' /\ repo'.readme.text = repo.readme.text
      BY <1>2, <1>5, RepoEditOK, ReadmeWriteOK DEF PutReadme
    <2>2. ProcOK' /\ retryable_jobs' \subseteq Palettes
      <3>1. CASE FailAfter(h, "conflict")
        BY <1>1, <1>5, <3>1, FailAfterOK, CausesOK DEF PutReadme
      <3>2. CASE /\ Become(h, [proc[h] EXCEPT !.pc = "verify_readme", !.readme = Idle.readme])
                 /\ UNCHANGED retryable_jobs
        <4>1. Idle.readme \in Readmes
          BY IdleOK DEF HandlerOK, Locals
        <4>2. HandlerOK([proc[h] EXCEPT !.pc = "verify_readme", !.readme = Idle.readme])
          BY <1>0, <1>1, <1>2, <4>1, PublisherPcs DEF HandlerOK, Locals
        <4> QED BY <1>0, <3>2, <4>2, HandlerStep, KeptOK
      <3> QED BY <1>5, <3>1, <3>2 DEF PutReadme
    <2> QED BY <1>5, <2>1, <2>2, KeptOK, WholeOK DEF PutReadme
  <1> QED BY <1>3, <1>4, <1>5

LEMMA VerifySteps ==
    ASSUME TypeOK, NEW h \in Handlers, VerifyReadme(h) \/ VerifyLight(h) \/ VerifyDark(h)
    PROVE  TypeOK'
  <1>1. ASSUME NEW pc \in RowPcs, NEW next \in RowPcs, NEW file, Verify(h, pc, file, next)
        PROVE  TypeOK'
    <2>1. ProcOK' /\ retryable_jobs' \subseteq Palettes
      BY <1>1, MoveOK, FailAfterOK, CausesOK, KeptOK DEF Verify
    <2> QED BY <1>1, <2>1, KeptOK, WholeOK DEF Verify
  <1>2. {"verify_readme", "verify_light", "verify_dark", "save"} \subseteq RowPcs
    BY PublisherPcs DEF LeasePcs
  <1> QED BY <1>1, <1>2 DEF VerifyReadme, VerifyLight, VerifyDark

LEMMA SaveStep ==
    ASSUME TypeOK, NEW h \in Handlers, SavePresentation(h)
    PROVE  TypeOK'
  <1>1. "save" \in RowPcs /\ "stamp" \in RowPcs
    BY PublisherPcs DEF LeasePcs
  <1>2. proc[h].palette \in Palettes /\ Target(h) \in Shots
    BY <1>1, PublisherIsOK DEF SavePresentation
  <1>3. PresentationOK'
    BY <1>2 DEF SavePresentation, TypeOK, PresentationOK, MaybePalette
  <1> QED BY <1>1, <1>3, MoveOK, KeptOK, WholeOK DEF SavePresentation

LEMMA StampStep ==
    ASSUME TypeOK, NEW h \in Handlers, MarkReadmeVerified(h)
    PROVE  TypeOK'
  <1>0. ProcOK /\ HandlerOK(proc[h]) /\ proc[h] \in Locals
    BY HandlerIsOK
  <1>1. "stamp" \in RowPcs /\ "apply_published" \in RowPcs
    BY PublisherPcs DEF LeasePcs
  <1>2. proc[h].row \in Snapshots /\ proc[h].palette \in Palettes
    BY <1>1, PublisherIsOK DEF MarkReadmeVerified
  <1>3. CASE MayStamp(h)
    <2>1. PresentationOK'
      BY <1>2, <1>3 DEF MarkReadmeVerified, TypeOK, PresentationOK, MaybeSnap
    <2>2. ProcOK'
      <3>1. HandlerOK([proc[h] EXCEPT !.pc = "apply_published"])
        BY <1>0, <1>1, <1>2, PublisherPcs DEF HandlerOK, Locals
      <3>2. \A g \in Handlers : HandlerOK(proc[g]) /\ HandlerOK([proc[g] EXCEPT !.late = TRUE])
        BY <1>0 DEF ProcOK, HandlerOK, Locals
      <3>3. PICK late \in SUBSET {g \in Handlers \ {h} : Publishing(g)} :
              proc' = [g \in Handlers |->
                         IF g = h THEN [proc[h] EXCEPT !.pc = "apply_published"]
                         ELSE IF g \in late THEN [proc[g] EXCEPT !.late = TRUE]
                         ELSE proc[g]]
        BY <1>3 DEF MarkReadmeVerified
      <3>4. \A g \in Handlers : HandlerOK(proc'[g])
        BY <3>1, <3>2, <3>3
      <3> QED BY <3>3, <3>4 DEF ProcOK, HandlerOK
    <2> QED BY <1>3, <2>1, <2>2, KeptOK, WholeOK DEF MarkReadmeVerified
  <1>4. CASE ~MayStamp(h)
    <2>1. proc[h].pc \in RowPcs
      BY <1>1 DEF MarkReadmeVerified
    <2>2. ProcOK' /\ retryable_jobs' \subseteq Palettes
      <3>1. CASE Goto(h, "apply_published") /\ UNCHANGED retryable_jobs
        BY <1>1, <2>1, <3>1, MoveOK, KeptOK
      <3>2. CASE FailAfter(h, "github_write")
        BY <2>1, <3>2, FailAfterOK, CausesOK
      <3> QED BY <1>4, <3>1, <3>2 DEF MarkReadmeVerified
    <2> QED BY <1>4, <2>2, KeptOK, WholeOK DEF MarkReadmeVerified
  <1> QED BY <1>3, <1>4

\* The end of a publish, its last statement failed or not.
LEMMA AppliedLocalsOK ==
    ASSUME TypeOK, NEW h \in Handlers, proc[h].pc = "apply_published"
    PROVE  /\ proc[h].row \in MaybeSnap /\ proc[h].palette \in Palettes
           /\ HandlerOK([proc[h] EXCEPT !.pc = "release", !.current = FALSE])
           /\ HandlerOK([proc[h] EXCEPT !.pc = "release", !.cause = "github_write",
                                        !.raised = "github_write"])
  <1>0. HandlerOK(proc[h]) /\ proc[h] \in Locals
    BY HandlerIsOK
  <1>1. "apply_published" \in RowPcs /\ "release" \in Pcs
    BY PublisherPcs DEF LeasePcs
  <1>2. proc[h].row \in Snapshots /\ proc[h].palette \in Palettes
    BY <1>1, PublisherIsOK
  <1> QED BY <1>0, <1>1, <1>2, PublisherPcs, CausesOK DEF HandlerOK, Locals, MaybeSnap, RowPcs

LEMMA EndSteps ==
    ASSUME TypeOK, NEW h \in Handlers,
           SetReadmeApplied(h) \/ Release(h) \/ NoteRow(h) \/ NotePublishFailure(h)
    PROVE  TypeOK'
  <1>0. ProcOK /\ HandlerOK(proc[h]) /\ proc[h] \in Locals
    BY HandlerIsOK
  <1>1. CASE SetReadmeApplied(h)
    <2>1. ProcOK' /\ proc[h].row \in MaybeSnap
      BY <1>0, <1>1, AppliedLocalsOK, HandlerStep DEF SetReadmeApplied
    <2>2. ProjectionOK'
      BY <1>1, <2>1, RowIsOK, AppliedOK DEF SetReadmeApplied, ProjectionOK
    <2>3. retryable_jobs' \subseteq Palettes
      BY <1>1 DEF SetReadmeApplied, TypeOK
    <2> QED BY <1>1, <2>1, <2>2, <2>3, KeptOK, WholeOK DEF SetReadmeApplied
  <1>2. CASE Release(h)
    <2>1. LeaseOK' /\ MutexOK'
      BY <1>2 DEF Release, TypeOK, LeaseOK, MutexOK
    <2>2. ProcOK'
      BY <1>0, <1>2, FinishOK, GotoOK, OpenPcs DEF Release
    <2> QED BY <1>2, <2>1, <2>2, KeptOK, WholeOK DEF Release
  <1>3. CASE NoteRow(h)
    <2>1. HandlerOK([proc[h] EXCEPT !.cand = projection.snap, !.pc = "note"])
      BY <1>0, RowIsOK, OpenPcs DEF HandlerOK, Locals
    <2>2. ProcOK'
      BY <1>0, <1>3, <2>1, FinishOK, HandlerStep DEF NoteRow
    <2> QED BY <1>3, <2>2, OnlyProc DEF NoteRow
  <1>4. CASE NotePublishFailure(h)
    <2> DEFINE theme == proc[h].op \in {"theme", "worktheme"}
               status == NoteStatus(proc[h].cause)
               reason == IF theme THEN "theme" ELSE "usage"
               palette == IF theme THEN proc[h].palette ELSE NoPalette
               retry == NextRetry(projection.retry)
               due == NoteDue(proc[h].cause, retry)
    <2>1. /\ proc[h].cand \in MaybeSnap
          /\ status \in Stati /\ reason \in Reasons /\ palette \in MaybePalette /\ due \in Dues
          /\ reason = "theme" => palette \in Palettes
      BY <1>0 DEF HandlerOK, Locals, NoteStatus, NoteDue, Stati, Reasons, MaybePalette, Dues
    <2>2. retry \in 0..2
      BY RowIsOK DEF NextRetry
    <2>3. projection' = Intent(projection, proc[h].cand, status, reason, palette, due, retry)
      BY <1>4 DEF NotePublishFailure
    <2> HIDE DEF status, reason, palette, due, retry
    <2>4. ProjectionOK'
      BY <2>1, <2>2, <2>3, RowIsOK, IntentOK DEF ProjectionOK
    <2>5. ProcOK'
      BY <1>0, <1>4, FinishOK DEF NotePublishFailure
    <2> QED BY <1>4, <2>4, <2>5, OnlyRow DEF NotePublishFailure
  <1> QED BY <1>1, <1>2, <1>3, <1>4

-----------------------------------------------------------------------------
(* Faults, lost clients, restarts and the world outside *)

LEMMA FaultSteps ==
    ASSUME TypeOK, NEW h \in Handlers, Fault(h)
    PROVE  TypeOK'
  <1>0. ProcOK /\ HandlerOK(proc[h]) /\ proc[h] \in Locals
    BY HandlerIsOK
  <1>1. /\ {"lease", "readme", "previews", "light", "dark", "put_readme", "verify_readme",
            "verify_light", "verify_dark", "save", "stamp"} \subseteq RowPcs
        /\ RowPcs \subseteq PalettePcs
    BY PublisherPcs DEF LeasePcs
  <1>2. ASSUME NEW cause \in {"auth", "rate", "github_write"}, ReadFault(h, cause)
        PROVE  TypeOK'
    <2>1. ProcOK' /\ retryable_jobs' \subseteq Palettes
      BY <1>1, <1>2, FailBeforeOK, CausesOK DEF ReadFault
    <2> QED BY <1>2, <2>1, PaidOK, KeptOK, WholeOK DEF ReadFault
  <1>3. ASSUME NEW cause \in {"auth", "rate", "conflict", "github_write"}, WriteFault(h, cause)
        PROVE  TypeOK'
    <2>1. proc[h].pc \in RowPcs /\ Target(h) \in Shots
      BY <1>1, <1>3, PublisherIsOK DEF WriteFault
    <2>2. ProcOK' /\ retryable_jobs' \subseteq Palettes
      BY <1>3, <2>1, FailAfterOK, CausesOK DEF WriteFault
    <2>3. RepoOK' /\ repo'.readme.text = repo.readme.text
      BY <1>3, <2>1, RepoEditOK, ReadmeWriteOK DEF WriteFault
    <2> QED BY <1>3, <2>2, <2>3, PaidOK, KeptOK, WholeOK DEF WriteFault
  <1>4. CASE VerifyFault(h)
    <2>1. ProcOK' /\ retryable_jobs' \subseteq Palettes
      BY <1>1, <1>4, FailAfterOK, CausesOK DEF VerifyFault
    <2> QED BY <1>4, <2>1, PaidOK, KeptOK, WholeOK DEF VerifyFault
  <1>5. CASE StoreFault(h)
    <2>1. proc[h].pc \in LockedPcs
      BY <1>5 DEF StoreFault, LockedPcs, LeasePcs
    <2>2. proc[h].pc \in PalettePcs
      BY <2>1, PublisherPcs
    <2>3. ProcOK' /\ retryable_jobs' \subseteq Palettes
      BY <1>1, <1>5, <2>2, FailBeforeOK, FailAfterOK, CausesOK DEF StoreFault
    <2> QED BY <1>5, <2>3, PaidOK, KeptOK, WholeOK DEF StoreFault
  <1>6. CASE LateStoreFault(h)
    <2>1. ProcOK' /\ proc[h].row \in MaybeSnap
      BY <1>0, <1>6, AppliedLocalsOK, HandlerStep DEF LateStoreFault
    <2>2. ProjectionOK'
      BY <1>6, <2>1, RowIsOK, AppliedOK, KeptOK DEF LateStoreFault, ProjectionOK
    <2> QED BY <1>6, <2>1, <2>2, PaidOK, KeptOK, WholeOK DEF LateStoreFault
  <1> QED BY <1>2, <1>3, <1>4, <1>5, <1>6 DEF Fault

\* A statement whose failure goes unnoticed moves on like one that found no row.
LEMMA MissSteps ==
    ASSUME TypeOK, NEW h \in Handlers, Miss(h)
    PROVE  TypeOK'
  <1>0. ProcOK /\ HandlerOK(proc[h]) /\ proc[h] \in Locals
    BY HandlerIsOK
  <1>1. /\ CanSpend("misses") /\ Spend("misses") /\ UNCHANGED <<store, repo, mutex, device, day>>
    BY DEF Miss, ReadMiss, WriteMiss
  <1> SUFFICES ProcOK'
    BY <1>1, SpendingOK
  <1>2. ASSUME Finish(h)
        PROVE  ProcOK'
    BY <1>0, <1>2, FinishOK
  <1>3. ASSUME NEW pc \in Pcs \ LockedPcs, Goto(h, pc), pc \in PalettePcs => proc[h].palette \in Palettes
        PROVE  ProcOK'
    BY <1>0, <1>3, GotoOK
  <1>4. proc[h].pc \in PalettePcs => proc[h].palette \in Palettes
    BY <1>0 DEF HandlerOK
  <1>5. CASE ReadMiss(h)
    <2>1. CASE proc[h].pc = "put_read" /\ Goto(h, "put_save")
      BY <1>3, <2>1, OpenPcs
    <2>2. CASE proc[h].pc = "read_wall" /\ Become(h, [proc[h] EXCEPT !.wall = NoWall, !.pc = "decide"])
      <3>1. HandlerOK([proc[h] EXCEPT !.wall = NoWall, !.pc = "decide"])
        BY <1>0, NoWallOK, OpenPcs DEF HandlerOK, Locals
      <3> QED BY <1>0, <2>2, <3>1, HandlerStep
    <2>3. CASE /\ proc[h].pc = "decide"
               /\ Become(h, Decided(h, [GateInput(h) EXCEPT !.pending = NoPending]))
      <3> DEFINE in == [GateInput(h) EXCEPT !.pending = NoPending]
      <3>1. ~in.offline /\ in.accepted = in.cand
        BY DEF GateInput
      <3> HIDE DEF in
      <3>2. HandlerOK(Decided(h, in))
        BY <1>0, <2>3, <3>1, DecidedOK
      <3>3. Become(h, Decided(h, in))
        BY <2>3 DEF in
      <3> QED BY <1>0, <3>2, <3>3, HandlerStep
    <2>4. CASE /\ proc[h].pc = "coalesce"
               /\ Become(h, [proc[h] EXCEPT !.pc = "intent", !.intent =
                    Intent(NoProjection, proc[h].cand, "failed", "retry", NoPalette, "none", 0)])
      <3> DEFINE i == Intent(NoProjection, proc[h].cand, "failed", "retry", NoPalette, "none", 0)
      <3>1. "failed" \in Stati /\ "retry" \in Reasons /\ NoPalette \in MaybePalette /\ "none" \in Dues
        BY DEF Stati, Reasons, MaybePalette, Dues
      <3>2. proc[h].cand \in MaybeSnap
        BY <1>0 DEF Locals
      <3>5. i \in Rows /\ i.reason = "retry"
        BY <3>1, <3>2, 0 \in 0..2, NoProjectionOK, IntentOK
      <3>3. Become(h, [proc[h] EXCEPT !.pc = "intent", !.intent = i])
        BY <2>4
      <3> HIDE DEF i
      <3>4. HandlerOK([proc[h] EXCEPT !.pc = "intent", !.intent = i])
        BY <1>0, <3>5, OpenPcs DEF HandlerOK, Locals
      <3> QED BY <1>0, <3>3, <3>4, HandlerStep
    <2>5. CASE /\ proc[h].pc = "pick_palette"
               /\ Become(h, [proc[h] EXCEPT !.palette = DefaultPalette, !.pc = "announce"])
      <3>1. DefaultPalette \in Palettes /\ DefaultPalette \in MaybePalette
        BY Constants DEF MaybePalette
      <3>2. HandlerOK([proc[h] EXCEPT !.palette = DefaultPalette, !.pc = "announce"])
        BY <1>0, <3>1, PreparedPcs DEF HandlerOK, Locals
      <3> QED BY <1>0, <2>5, <3>2, HandlerStep
    <2>6. CASE proc[h].pc \in {"theme_row", "theme_decide"} /\ Goto(h, "lock")
      BY <1>3, <1>4, <2>6, PreparedPcs
    <2>7. CASE Finish(h)
      BY <1>2, <2>7
    <2> QED BY <1>5, <2>1, <2>2, <2>3, <2>4, <2>5, <2>6, <2>7 DEF ReadMiss
  <1>6. CASE WriteMiss(h)
    <2>1. CASE Finish(h)
      BY <1>2, <2>1
    <2>2. CASE /\ proc[h].pc = "announce"
               /\ Goto(h, IF ServerOf[h] \in Misconfigured THEN "unconfigured" ELSE "lock")
      BY <1>3, <1>4, <2>2, OpenPcs, PreparedPcs
    <2> QED BY <1>6, <2>1, <2>2 DEF WriteMiss
  <1> QED BY <1>5, <1>6 DEF Miss

LEMMA GoneOK ==
    ASSUME TypeOK, NEW hs \in SUBSET Handlers, Gone(hs)
    PROVE  ProcOK' /\ MutexOK' /\ LeaseOK'
  <1>1. ProcOK'
    BY HandlerIsOK, IdleOK DEF Gone, ProcOK, HandlerOK
  <1> QED BY <1>1 DEF Gone, TypeOK, MutexOK, LeaseOK

LEMMA LossSteps ==
    ASSUME TypeOK
    PROVE  /\ \A h \in Handlers : ClientGone(h) => TypeOK'
           /\ \A s \in Servers : Restart(s) => TypeOK'
  <1>1. ASSUME NEW h \in Handlers, ClientGone(h)
        PROVE  TypeOK'
    <2>1. ProcOK' /\ MutexOK' /\ LeaseOK'
      BY <1>1, GoneOK DEF ClientGone
    <2> QED BY <1>1, <2>1, PaidOK, KeptOK, WholeOK DEF ClientGone
  <1>2. ASSUME NEW s \in Servers, Restart(s)
        PROVE  TypeOK'
    <2>1. ProcOK' /\ MutexOK' /\ LeaseOK'
      BY <1>2, GoneOK DEF Restart
    <2>2. PresentationOK'
      BY <1>2 DEF Restart, Backfilled, TypeOK, PresentationOK
    <2> QED BY <1>2, <2>1, <2>2, PaidOK, KeptOK, WholeOK DEF Restart
  <1> QED BY <1>1, <1>2

LEMMA ReachOK ==
    ASSUME TypeOK, NEW due \in Dues, Reach(due)
    PROVE  ProjectionOK' /\ ProcOK'
  <1>0. "now" \in Dues
    BY DEF Dues
  <1>1. ProjectionOK'
    BY <1>0, RowIsOK DEF Reach, ProjectionOK, Rows
  <1>2. ASSUME NEW h \in Handlers
        PROVE  HandlerOK([proc[h] EXCEPT !.intent.due = IF @ = due THEN "now" ELSE @])
    <2>1. HandlerOK(proc[h]) /\ proc[h].intent \in Rows
      BY HandlerIsOK DEF Locals
    <2>2. [proc[h].intent EXCEPT !.due = IF @ = due THEN "now" ELSE @] \in Rows
      BY <1>0, <2>1 DEF Rows
    <2> QED BY <2>1, <2>2 DEF HandlerOK, Locals, Rows
  <1> QED BY <1>1, <1>2 DEF Reach, ProcOK, HandlerOK

LEMMA WorldSteps ==
    ASSUME TypeOK
    PROVE  /\ \A d \in Devices : Scan(d) => TypeOK'
           /\ Calendar \/ OwnerCommit => TypeOK'
  <1>0. ProcOK /\ (proc' = proc => ProcOK')
    BY DEF TypeOK, ProcOK
  <1>1. ASSUME NEW d \in Devices, Scan(d)
        PROVE  TypeOK'
    <2>1. Len(Feed[d]) \in Nat
      BY HostedWallAssumption
    <2>2. EnvOK'
      BY <1>1, <2>1 DEF Scan, TypeOK, EnvOK
    <2> QED BY <1>0, <1>1, <2>2, KeptOK, WholeOK DEF Scan, store
  <1>2. CASE LastFourHours
    <2>1. EnvOK'
      BY <1>2 DEF LastFourHours, TypeOK, EnvOK
    <2> QED BY <1>0, <1>2, <2>1, KeptOK, WholeOK DEF LastFourHours, store
  <1>3. CASE Midnight
    <2>1. EnvOK'
      BY <1>3, Constants DEF Midnight, TypeOK, EnvOK
    <2>2. ProjectionOK' /\ ProcOK'
      BY <1>3, ReachOK DEF Midnight, Dues
    <2> QED BY <1>3, <2>1, <2>2, KeptOK, WholeOK DEF Midnight
  <1>4. CASE DueReached
    <2>1. ProjectionOK' /\ ProcOK'
      BY <1>4, ReachOK DEF DueReached, Dues
    <2> QED BY <1>4, <2>1, KeptOK, WholeOK DEF DueReached
  <1>5. CASE LeaseLapse
    <2>1. LeaseOK'
      BY <1>5 DEF LeaseLapse, TypeOK, LeaseOK
    <2> QED BY <1>0, <1>5, <2>1, KeptOK, WholeOK DEF LeaseLapse
  <1>6. CASE OwnerCommit
    <2>1. EnvOK' /\ RepoOK' /\ repo'.readme.text + budget'.edits = MaxEdits
      <3>1. repo.readme \in Readmes /\ repo.readme.text \in Nat /\ budget.edits \in Nat
            /\ budget.edits > 0 /\ repo.readme.text + budget.edits = MaxEdits
        BY <1>6 DEF OwnerCommit, CanSpend, TypeOK, RepoOK, EnvOK, Readmes
      <3>2. /\ budget' = [budget EXCEPT !.edits = budget.edits - 1]
            /\ repo' = [repo EXCEPT !.readme.text = repo.readme.text + 1]
            /\ UNCHANGED <<device, day>>
        BY <1>6 DEF OwnerCommit, Spend
      <3>3. EnvOK' /\ budget'.edits = budget.edits - 1
        <4> DEFINE left == budget.edits - 1
        <4>1. left \in Nat
          BY <3>1
        <4>2. budget' = [budget EXCEPT !.edits = left]
          BY <3>2
        <4> HIDE DEF left
        <4>3. EnvOK' /\ budget'.edits = left
          BY <3>2, <4>1, <4>2 DEF TypeOK, EnvOK
        <4> QED BY <4>3 DEF left
      <3>4. RepoOK' /\ repo'.readme.text = repo.readme.text + 1
        BY <3>1, <3>2, Constants DEF TypeOK, RepoOK, Readmes
      <3> QED BY <3>1, <3>3, <3>4
    <2> QED BY <1>0, <1>6, <2>1, KeptOK DEF OwnerCommit, store, TypeOK
  <1> QED BY <1>1, <1>2, <1>3, <1>4, <1>5, <1>6 DEF Calendar

-----------------------------------------------------------------------------
(* The theorem *)

LEMMA StepOK ==
    ASSUME TypeOK, [Next]_vars
    PROVE  TypeOK'
  <1>1. ASSUME NEW h \in Handlers, Receive(h) \/ WorkerTick(h)
        PROVE  TypeOK'
    BY <1>1, PutSteps, RequestSteps DEF Receive
  <1>2. ASSUME NEW h \in Handlers, Consider(h)
        PROVE  TypeOK'
    BY <1>2, PutSteps, ReadSteps, WriteSteps, AnnounceStep, OwnerSteps DEF Consider
  <1>3. ASSUME NEW h \in Handlers, Lock(h) \/ Publish(h)
        PROVE  TypeOK'
    BY <1>3, LockSteps, ReadFileSteps, WriteFileSteps, VerifySteps, SaveStep, StampStep, EndSteps
       DEF Publish
  <1>4. CASE UNCHANGED vars
    BY <1>4 DEF vars, TypeOK, ProjectionOK, LeaseOK, PresentationOK, RepoOK, ProcOK, MutexOK, EnvOK
  <1>5. CASE Next
    BY <1>1, <1>2, <1>3, <1>4, <1>5, FaultSteps, MissSteps, LossSteps, WorldSteps DEF Next, Rest
  <1> QED BY <1>4, <1>5

LEMMA InitOK == Init => TypeOK
  <1> SUFFICES ASSUME Init
               PROVE  TypeOK
    OBVIOUS
  <1>1. /\ lease = [holder |-> Nobody, lapsed |-> FALSE] /\ retryable_jobs = {}
        /\ proc = [h \in Handlers |-> Idle] /\ mutex = [s \in Servers |-> Nobody]
        /\ day = [today |-> 1, closing |-> FALSE]
        /\ budget = [puts |-> MaxPuts, edits |-> MaxEdits, faults |-> MaxFaults, misses |-> MaxMisses,
                     drops |-> MaxDrops, restarts |-> MaxRestarts, themes |-> MaxThemes]
    BY DEF Init
  <1>2. LeaseOK /\ MutexOK /\ retryable_jobs \subseteq Palettes
    BY <1>1 DEF LeaseOK, MutexOK
  <1>3. ProcOK
    BY <1>1, IdleOK DEF ProcOK, HandlerOK
  <1>4. /\ day \in [today : 1..MaxDay, closing : BOOLEAN]
        /\ budget \in [puts : Nat, edits : Nat, faults : Nat, misses : Nat, drops : Nat, restarts : Nat,
                       themes : Nat]
        /\ budget.edits = MaxEdits
    BY <1>1, HostedWallAssumption
  <1>5. [text |-> 0, shot |-> NoShot] \in Readmes
    BY Constants DEF Readmes
  <1>6. CASE FreshStart
    <2>1. ProjectionOK
      BY <1>6, NoProjectionOK DEF FreshStart, ProjectionOK, NoProjection
    <2>2. PresentationOK
      BY <1>6 DEF FreshStart, PresentationOK, NoPresentation, MaybePalette, MaybeSnap
    <2>3. RepoOK /\ repo.readme.text = 0
      BY <1>5, <1>6 DEF FreshStart, RepoOK
    <2>4. EnvOK
      BY <1>4, <1>6, HostedWallAssumption DEF FreshStart, EnvOK
    <2> QED BY <1>2, <1>3, <1>4, <2>1, <2>2, <2>3, <2>4, Constants DEF TypeOK
  <1>7. CASE LegacyStart
    <2>1. PICK d \in Devices :
            LET old == Feed[d][1]
                shot == Shot(old, DefaultPalette)
            IN /\ old.date = 1
               /\ projection = [NoProjection EXCEPT !.snap = old, !.desired = old, !.status = "applied"]
               /\ presentation = [palette |-> DefaultPalette, asset |-> shot, readme |-> old, known |-> FALSE]
               /\ device = [e \in Devices |-> IF e = d THEN 1 ELSE 0]
               /\ repo = [readme |-> [text |-> 0, shot |-> shot], light |-> shot, dark |-> shot]
      BY <1>7 DEF LegacyStart
    <2> DEFINE old == Feed[d][1]
               shot == Shot(old, DefaultPalette)
    <2>2. old \in Snapshots
      <3>1. 1 \in DOMAIN Feed[d]
        BY HostedWallAssumption
      <3> QED BY <3>1 DEF Snapshots
    <2>3. shot \in Shots /\ old \in MaybeSnap /\ DefaultPalette \in MaybePalette
      BY <2>2, Constants DEF Shot, Shots, MaybeSnap, MaybePalette
    <2>4. ProjectionOK
      BY <2>1, <2>3, NoProjectionOK DEF ProjectionOK, Rows, NoProjection, Stati
    <2>5. PresentationOK
      BY <2>1, <2>3, Constants DEF PresentationOK
    <2>6. RepoOK /\ repo.readme.text = 0
      BY <2>1, <2>3, Constants DEF RepoOK, Readmes
    <2>7. EnvOK
      <3>1. \A e \in Devices : Len(Feed[e]) \in Nat \ {0}
        BY HostedWallAssumption
      <3>2. device \in [Devices -> Nat] /\ \A e \in Devices : device[e] <= Len(Feed[e])
        BY <2>1, <3>1
      <3> QED BY <1>4, <3>2 DEF EnvOK
    <2> QED BY <1>2, <1>3, <1>4, <2>4, <2>5, <2>6, <2>7, Constants DEF TypeOK
  <1> QED BY <1>6, <1>7 DEF Init

\* The rows, the files and the locals keep their shape in every reachable
\* state: no handler publishes without a stored snapshot and a palette, a theme
\* that is to be retried names its palette, and no commit of the owner is lost.
THEOREM TypeCorrect == Spec => []TypeOK
  BY InitOK, StepOK, PTL DEF Spec
=============================================================================
