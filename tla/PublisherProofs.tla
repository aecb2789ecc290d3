-------------------------- MODULE PublisherProofs --------------------------
(***************************************************************************)
(* Publishers of one process exclude each other by publishMu, and          *)
(* publishers of several processes by the lease: for any number of         *)
(* processes, handlers, devices and palettes.  Handlers that are served    *)
(* one at a time keep the promise of PublicWall.                           *)
(***************************************************************************)
EXTENDS HostedWallProofs

\* Steps in which nobody enters or leaves the locked section.
Outside ==
    \/ \E h \in Handlers : Receive(h) \/ WorkerTick(h) \/ Consider(h) \/ NoteRow(h)
                           \/ NotePublishFailure(h) \/ Miss(h)
    \/ \E d \in Devices : Scan(d)
    \/ Calendar \/ OwnerCommit \/ UNCHANGED vars

\* Steps of the publisher that holds publishMu.
Inside(h) ==
    \/ ReadRow(h) \/ AcquirePublishLease(h) \/ GetReadme(h) \/ GetPreviews(h)
    \/ PutLight(h) \/ PutDark(h) \/ PutReadme(h)
    \/ VerifyReadme(h) \/ VerifyLight(h) \/ VerifyDark(h)
    \/ SavePresentation(h) \/ MarkReadmeVerified(h) \/ SetReadmeApplied(h) \/ Fault(h)

Lost(hs) ==
    /\ Gone(hs) /\ UNCHANGED repo
    /\ presentation'.asset = presentation.asset /\ presentation'.readme = presentation.readme
    /\ presentation.known => presentation'.known

LEMMA EveryStep ==
    ASSUME [Next]_vars
    PROVE  \/ Outside
           \/ \E h \in Handlers : Inside(h) \/ Lock(h) \/ Release(h)
           \/ \E hs \in SUBSET Handlers : Lost(hs)
  <1>1. ASSUME NEW h \in Handlers, ClientGone(h)
        PROVE  Lost({h})
    BY <1>1 DEF ClientGone, Lost
  <1>2. ASSUME NEW s \in Servers, Restart(s)
        PROVE  Lost({h \in Handlers : ServerOf[h] = s})
    BY <1>2 DEF Restart, Lost, Backfilled
  <1>3. \A h \in Handlers : Publish(h) => Inside(h) \/ Release(h) \/ NoteRow(h) \/ NotePublishFailure(h)
    BY DEF Publish, Inside
  <1>4. \A s \in Servers : {h \in Handlers : ServerOf[h] = s} \in SUBSET Handlers
    OBVIOUS
  <1> QED BY <1>1, <1>2, <1>3, <1>4 DEF Next, Outside, Inside, Rest

-----------------------------------------------------------------------------
(* What a step leaves alone *)

\* A publisher another step leaves alone: where it is and what it publishes.
Same(g) == /\ proc'[g].pc = proc[g].pc /\ proc'[g].row = proc[g].row
           /\ proc'[g].palette = proc[g].palette /\ proc'[g].readme = proc[g].readme

SameFiles == /\ repo'.light = repo.light /\ repo'.dark = repo.dark
             /\ repo'.readme.shot = repo.readme.shot

LEMMA BecomePc ==
    ASSUME ProcOK, NEW h \in Handlers, NEW l, Become(h, l)
    PROVE  proc'[h] = l /\ \A g \in Handlers \ {h} : proc'[g] = proc[g]
  BY DEF ProcOK, Become

\* A failed publish ends at the release.
LEMMA FailPc ==
    ASSUME TypeOK, NEW h \in Handlers, NEW cause,
           FailBefore(h, cause) \/ FailAfter(h, cause)
    PROVE  proc'[h].pc = "release" /\ \A g \in Handlers \ {h} : proc'[g] = proc[g]
  <1>0. ProcOK /\ proc[h] \in Locals
    BY DEF TypeOK, ProcOK
  <1> DEFINE l(c) == [proc[h] EXCEPT !.pc = "release", !.cause = c, !.raised = cause,
                                     !.readme = Idle.readme, !.current = FALSE]
  <1>1. \A c : l(c).pc = "release"
    BY <1>0 DEF Locals
  <1>2. Become(h, l(cause)) \/ Become(h, l(Untyped(cause)))
    BY DEF FailBefore, FailAfter
  <1> HIDE DEF l
  <1> QED BY <1>0, <1>1, <1>2, BecomePc

LEMMA GotoPc ==
    ASSUME TypeOK, NEW h \in Handlers, NEW pc, Goto(h, pc)
    PROVE  /\ proc'[h] = [proc[h] EXCEPT !.pc = pc] /\ proc'[h].pc = pc
           /\ \A g \in Handlers \ {h} : proc'[g] = proc[g]
  <1>0. ProcOK /\ proc[h] \in Locals
    BY DEF TypeOK, ProcOK
  <1> DEFINE l == [proc[h] EXCEPT !.pc = pc]
  <1>1. l.pc = pc
    BY <1>0 DEF Locals
  <1>2. Become(h, l)
    BY DEF Goto
  <1>3. proc'[h] = l /\ \A g \in Handlers \ {h} : proc'[g] = proc[g]
    BY <1>0, <1>2, BecomePc
  <1> QED BY <1>1, <1>3

LEMMA OutsideFrame ==
    ASSUME TypeOK, Outside
    PROVE  /\ UNCHANGED <<mutex, presentation>> /\ SameFiles
           /\ UNCHANGED lease \/ LeaseLapse
           /\ \A g \in Handlers : proc'[g].pc \in LockedPcs => Same(g)
  <1>0. ProcOK /\ \A h \in Handlers : proc[h] \in Locals
    BY DEF TypeOK, ProcOK
  <1> DEFINE Goal == /\ UNCHANGED <<mutex, presentation>> /\ SameFiles
                     /\ UNCHANGED lease \/ LeaseLapse
                     /\ \A g \in Handlers : proc'[g].pc \in LockedPcs => Same(g)
  <1>1. Idle.pc \notin LockedPcs
    BY OpenPcs DEF Idle
  <1>2. ASSUME NEW h \in Handlers, NEW l, Become(h, l), l.pc \notin LockedPcs,
               UNCHANGED <<mutex, presentation, repo, lease>>
        PROVE  Goal
    BY <1>0, <1>2, BecomePc DEF Same, SameFiles
  <1>3. ASSUME NEW h \in Handlers, NEW pc \in Pcs \ LockedPcs, Goto(h, pc),
               UNCHANGED <<mutex, presentation, repo, lease>>
        PROVE  Goal
    <2>1. [proc[h] EXCEPT !.pc = pc].pc \notin LockedPcs
      BY <1>0 DEF Locals
    <2> QED BY <1>2, <1>3, <2>1 DEF Goto
  <1>4. ASSUME NEW h \in Handlers, Finish(h), UNCHANGED <<mutex, presentation, repo, lease>>
        PROVE  Goal
    BY <1>1, <1>2, <1>4 DEF Finish
  <1>5. ASSUME proc' = proc, UNCHANGED <<mutex, presentation>>, SameFiles,
               UNCHANGED lease \/ LeaseLapse
        PROVE  Goal
    BY <1>5 DEF Same
  <1>6. ASSUME NEW h \in Handlers, Receive(h) \/ WorkerTick(h)
        PROVE  Goal
    <2>1. PICK l : Become(h, l) /\ l.pc \notin LockedPcs
      <3>1. /\ \A pc, op, cand : [Idle EXCEPT !.pc = pc, !.op = op, !.cand = cand].pc = pc
            /\ \A pc, op, palette : [Idle EXCEPT !.pc = pc, !.op = op, !.palette = palette].pc = pc
            /\ \A pc, op : [Idle EXCEPT !.pc = pc, !.op = op].pc = pc
        BY DEF Idle
      <3>2. ASSUME NEW d \in Devices, ReceivePut(h, d)
            PROVE  \E l : Become(h, l) /\ l.pc \notin LockedPcs
        <4> DEFINE l == [Idle EXCEPT !.pc = "put_read", !.op = "put", !.cand = Feed[d][device[d]]]
        <4>1. Become(h, l) /\ l.pc = "put_read"
          BY <3>1, <3>2 DEF ReceivePut
        <4> QED BY <4>1, OpenPcs
      <3>3. ASSUME NEW palette \in Palettes, ReceiveTheme(h, palette) \/ ReceiveRetry(h, palette)
            PROVE  \E l : Become(h, l) /\ l.pc \notin LockedPcs
        <4> DEFINE l(pc, op) == [Idle EXCEPT !.pc = pc, !.op = op, !.palette = palette]
        <4>1. \/ Become(h, l("theme_row", "theme")) /\ l("theme_row", "theme").pc = "theme_row"
              \/ Become(h, l("lock", "retry")) /\ l("lock", "retry").pc = "lock"
          BY <3>1, <3>3 DEF ReceiveTheme, ReceiveRetry
        <4> HIDE DEF l
        <4> QED BY <4>1, PreparedPcs
      <3>4. ASSUME WorkerTick(h)
            PROVE  \E l : Become(h, l) /\ l.pc \notin LockedPcs
        <4> DEFINE l == [Idle EXCEPT !.pc = "work_row", !.op = "work"]
        <4>1. Become(h, l) /\ l.pc = "work_row"
          BY <3>1, <3>4 DEF WorkerTick
        <4> QED BY <4>1, OpenPcs
      <3> QED BY <1>6, <3>2, <3>3, <3>4 DEF Receive
    <2>2. UNCHANGED <<mutex, presentation, repo, lease>>
      BY <1>6 DEF Receive, ReceivePut, ReceiveTheme, ReceiveRetry, WorkerTick, store, env
    <2> HIDE DEF Goal
    <2> QED BY <1>2, <2>1, <2>2
  <1>7. ASSUME NEW h \in Handlers,
               ReadWall(h) \/ CoalesceRead(h) \/ PickPalette(h) \/ ThemeRow(h) \/ WorkRow(h) \/ NoteRow(h)
        PROVE  Goal
    <2>1. PICK l : Become(h, l) /\ l.pc \notin LockedPcs
      <3>1. CASE ReadWall(h)
        <4>1. [proc[h] EXCEPT !.wall = VerifiedWall(presentation), !.pc = "decide"].pc = "decide"
          BY <1>0 DEF Locals
        <4> QED BY <3>1, <4>1, OpenPcs DEF ReadWall
      <3>2. CASE CoalesceRead(h)
        <4>1. \A i : [proc[h] EXCEPT !.pc = "intent", !.intent = i].pc = "intent"
          BY <1>0 DEF Locals
        <4> QED BY <3>2, <4>1, OpenPcs DEF CoalesceRead
      <3>3. CASE PickPalette(h)
        <4>1. \A palette : [proc[h] EXCEPT !.palette = palette, !.pc = "announce"].pc = "announce"
          BY <1>0 DEF Locals
        <4> QED BY <3>3, <4>1, PreparedPcs DEF PickPalette
      <3>4. CASE ThemeRow(h)
        <4> DEFINE pc == IF projection.snap = NoSnap THEN "lock" ELSE "theme_decide"
                   l == [proc[h] EXCEPT !.cand = projection.snap, !.pc = pc]
        <4>1. Become(h, l)
          BY <3>4 DEF ThemeRow
        <4>2. pc \notin LockedPcs
          BY PreparedPcs
        <4> HIDE DEF pc
        <4>3. l.pc = pc
          BY <1>0 DEF Locals
        <4> QED BY <4>1, <4>2, <4>3
      <3>5. CASE WorkRow(h)
        <4> DEFINE theme == projection.status = "failed" /\ projection.reason = "theme"
                   op == IF theme THEN "worktheme" ELSE "work"
                   palette == IF theme THEN projection.palette ELSE NoPalette
                   pc == IF theme THEN "lock" ELSE "read_wall"
                   l == [proc[h] EXCEPT !.cand = projection.snap, !.op = op, !.palette = palette,
                                        !.pc = pc]
        <4>1. Become(h, l)
          BY <3>5 DEF WorkRow
        <4>2. pc \notin LockedPcs
          BY OpenPcs, PreparedPcs
        <4> HIDE DEF op, palette, pc
        <4>3. l.pc = pc
          BY <1>0 DEF Locals
        <4> QED BY <4>1, <4>2, <4>3
      <3>6. CASE NoteRow(h)
        <4>1. \A cand : [proc[h] EXCEPT !.cand = cand, !.pc = "note"].pc = "note"
          BY <1>0 DEF Locals
        <4> QED BY <1>1, <3>6, <4>1, OpenPcs DEF NoteRow, Finish
      <3> QED BY <1>7, <3>1, <3>2, <3>3, <3>4, <3>5, <3>6
    <2>2. UNCHANGED <<mutex, presentation, repo, lease>>
      BY <1>7 DEF ReadWall, CoalesceRead, PickPalette, ThemeRow, WorkRow, NoteRow, store, env
    <2> HIDE DEF Goal
    <2> QED BY <1>2, <2>1, <2>2
  <1>8. ASSUME NEW h \in Handlers, NEW in
         PROVE  Decided(h, in).pc \notin LockedPcs
    <2>1. \A pc : [proc[h] EXCEPT !.pc = pc, !.wall = NoWall].pc = pc
      BY <1>0 DEF Locals
    <2>2. \A i : [[proc[h] EXCEPT !.pc = "intent", !.wall = NoWall] EXCEPT !.intent = i].pc = "intent"
      BY <1>0 DEF Locals
    <2> QED BY <1>1, <2>1, <2>2, OpenPcs DEF Decided
  <1>9. ASSUME NEW h \in Handlers, Decide(h)
        PROVE  Goal
    <2>1. PICK in : Become(h, Decided(h, in))
      BY <1>9 DEF Decide
    <2>2. UNCHANGED <<mutex, presentation, repo, lease>>
      BY <1>9 DEF Decide, store
    <2> HIDE DEF Goal
    <2> QED BY <1>2, <1>8, <2>1, <2>2
  <1>10. ASSUME NEW h \in Handlers,
               \/ PutRead(h) \/ PutSave(h) \/ Announce(h) \/ ThemeDecide(h)
               \/ ApplySame(h) \/ WriteIntent(h) \/ Unconfigured(h) \/ NotePublishFailure(h)
        PROVE  Goal
    <2>1. Finish(h) \/ \E pc \in Pcs \ LockedPcs : Goto(h, pc)
      BY <1>10, OpenPcs, PreparedPcs
         DEF PutRead, PutSave, Announce, ThemeDecide, ApplySame, WriteIntent, Unconfigured, NotePublishFailure
    <2>2. UNCHANGED <<mutex, presentation, repo, lease>>
      BY <1>10 DEF PutRead, PutSave, Announce, ThemeDecide, ApplySame, WriteIntent, Unconfigured,
                  NotePublishFailure, store
    <2> HIDE DEF Goal
    <2> QED BY <1>3, <1>4, <2>1, <2>2
  <1>11. ASSUME NEW h \in Handlers, Miss(h)
         PROVE  Goal
    <2>1. UNCHANGED <<mutex, presentation, repo, lease>>
      BY <1>11 DEF Miss, ReadMiss, WriteMiss, store
    <2>2. \/ Finish(h) \/ \E pc \in Pcs \ LockedPcs : Goto(h, pc)
          \/ \E l : Become(h, l) /\ l.pc \notin LockedPcs
      <3>1. /\ [proc[h] EXCEPT !.wall = NoWall, !.pc = "decide"].pc \notin LockedPcs
            /\ \A i : [proc[h] EXCEPT !.pc = "intent", !.intent = i].pc \notin LockedPcs
            /\ [proc[h] EXCEPT !.palette = DefaultPalette, !.pc = "announce"].pc \notin LockedPcs
        <4>1. /\ [proc[h] EXCEPT !.wall = NoWall, !.pc = "decide"].pc = "decide"
              /\ \A i : [proc[h] EXCEPT !.pc = "intent", !.intent = i].pc = "intent"
              /\ [proc[h] EXCEPT !.palette = DefaultPalette, !.pc = "announce"].pc = "announce"
          BY <1>0 DEF Locals
        <4> QED BY <4>1, OpenPcs, PreparedPcs
      <3>2. CASE Finish(h) \/ \E pc \in {"put_save", "lock", "unconfigured"} : Goto(h, pc)
        BY <3>2, OpenPcs, PreparedPcs
      <3>3. CASE \/ Become(h, [proc[h] EXCEPT !.wall = NoWall, !.pc = "decide"])
                 \/ \E i : Become(h, [proc[h] EXCEPT !.pc = "intent", !.intent = i])
                 \/ Become(h, [proc[h] EXCEPT !.palette = DefaultPalette, !.pc = "announce"])
        BY <3>1, <3>3, Zenon
      <3>4. CASE \E in : Become(h, Decided(h, in))
        BY <1>8, <3>4
      <3> QED BY <1>11, <3>2, <3>3, <3>4 DEF Miss, ReadMiss, WriteMiss
    <2> HIDE DEF Goal
    <2> QED BY <1>2, <1>3, <1>4, <2>1, <2>2
  <1>12. ASSUME NEW due, Reach(due), UNCHANGED <<mutex, presentation, repo, lease>>
         PROVE  Goal
    <2>1. \A g \in Handlers : Same(g)
      BY <1>0, <1>12 DEF Reach, Same, Locals
    <2> QED BY <1>12, <2>1 DEF SameFiles
  <1>13. ASSUME \/ \E d \in Devices : Scan(d)
                \/ LastFourHours \/ LeaseLapse \/ OwnerCommit \/ UNCHANGED vars
         PROVE  Goal
    <2>1. /\ proc' = proc /\ UNCHANGED <<mutex, presentation>>
          /\ UNCHANGED lease \/ LeaseLapse
      BY <1>13 DEF Scan, LastFourHours, LeaseLapse, OwnerCommit, vars, store
    <2>2. SameFiles
      <3>1. UNCHANGED repo \/ repo' = [repo EXCEPT !.readme.text = repo.readme.text + 1]
        BY <1>13 DEF Scan, LastFourHours, LeaseLapse, OwnerCommit, vars
      <3> QED BY <3>1 DEF TypeOK, RepoOK, Readmes, SameFiles
    <2> HIDE DEF Goal
    <2> QED BY <1>5, <2>1, <2>2
  <1>14. ASSUME Midnight \/ DueReached
         PROVE  Goal
    <2> HIDE DEF Goal
    <2> QED BY <1>12, <1>14 DEF Midnight, DueReached, env
  <1> HIDE DEF Goal
  <1>15. Goal
    BY <1>6, <1>7, <1>9, <1>10, <1>13, <1>14, <1>11 DEF Outside, Consider, Calendar
  <1> QED BY <1>15 DEF Goal

\* A step of one publisher leaves the others and publishMu alone.
LEMMA InsideFrame ==
    ASSUME TypeOK, NEW h \in Handlers, Inside(h)
    PROVE  /\ proc[h].pc \in LockedPcs /\ UNCHANGED mutex
           /\ \A g \in Handlers \ {h} : Same(g)
  <1>0. ProcOK /\ \A g \in Handlers : proc[g] \in Locals
    BY DEF TypeOK, ProcOK
  <1>1. proc[h].pc \in LockedPcs /\ UNCHANGED mutex
    BY DEF Inside, ReadRow, AcquirePublishLease, GetReadme, GetPreviews, PutLight, PutDark, PutReadme,
           VerifyReadme, VerifyLight, VerifyDark, Verify, SavePresentation, MarkReadmeVerified,
           SetReadmeApplied, Fault, ReadFault, WriteFault, VerifyFault, StoreFault, LateStoreFault,
           LockedPcs, LeasePcs
  <1>2. CASE \E l : Become(h, l)
    BY <1>0, <1>1, <1>2, BecomePc DEF Same
  <1>3. CASE MarkReadmeVerified(h) /\ MayStamp(h)
    <2>1. PICK late \in SUBSET {g \in Handlers \ {h} : Publishing(g)} :
            proc' = [g \in Handlers |->
                       IF g = h THEN [proc[h] EXCEPT !.pc = "apply_published"]
                       ELSE IF g \in late THEN [proc[g] EXCEPT !.late = TRUE]
                       ELSE proc[g]]
      BY <1>3 DEF MarkReadmeVerified
    <2>2. \A g \in Handlers \ {h} : proc'[g] = proc[g] \/ proc'[g] = [proc[g] EXCEPT !.late = TRUE]
      BY <2>1
    <2>3. ASSUME NEW l \in Locals
          PROVE  LET m == [l EXCEPT !.late = TRUE]
                 IN m.pc = l.pc /\ m.row = l.row /\ m.palette = l.palette /\ m.readme = l.readme
      BY DEF Locals
    <2>4. ASSUME NEW g \in Handlers \ {h}
          PROVE  Same(g)
      BY <1>0, <2>2, <2>3 DEF Same
    <2> QED BY <1>1, <2>4
  <1>4. ~(MarkReadmeVerified(h) /\ MayStamp(h)) => \E l : Become(h, l)
    BY DEF Inside, ReadRow, AcquirePublishLease, GetReadme, GetPreviews, PutLight, PutDark, PutReadme,
           VerifyReadme, VerifyLight, VerifyDark, Verify, SavePresentation, MarkReadmeVerified,
           SetReadmeApplied, Fault, ReadFault, WriteFault, VerifyFault, StoreFault, LateStoreFault,
           Goto, FailBefore, FailAfter
  <1> QED BY <1>2, <1>3, <1>4

LEMMA LockFrame ==
    ASSUME TypeOK, NEW h \in Handlers, Lock(h) \/ Release(h)
    PROVE  /\ \A g \in Handlers \ {h} : Same(g)
           /\ UNCHANGED <<presentation, repo>>
           /\ Lock(h) => proc'[h].pc \in {"row", "release"}
           /\ Release(h) => proc'[h].pc \notin LockedPcs
  <1>0. ProcOK /\ \A g \in Handlers : proc[g] \in Locals
    BY DEF TypeOK, ProcOK
  <1>1. PICK l : Become(h, l) /\ (Lock(h) => l.pc \in {"row", "release"})
                              /\ (Release(h) => l.pc \notin LockedPcs)
    <2>1. \A pc : [proc[h] EXCEPT !.pc = pc].pc = pc
      BY <1>0 DEF Locals
    <2>2. \A cause, readme : [proc[h] EXCEPT !.pc = "release", !.cause = cause, !.raised = cause,
                                            !.readme = readme, !.current = FALSE].pc = "release"
      BY <1>0 DEF Locals
    <2>3. Lock(h) => ~Release(h)
      BY DEF Lock, Release
    <2>4. Idle.pc \notin LockedPcs
      BY OpenPcs DEF Idle
    <2>5. CASE Lock(h)
      <3>1. \/ Become(h, [proc[h] EXCEPT !.pc = "row"])
            \/ Become(h, [proc[h] EXCEPT !.pc = "release", !.cause = "github_write",
                          !.raised = "github_write", !.readme = Idle.readme, !.current = FALSE])
        BY <2>5 DEF Lock, Goto, FailBefore
      <3> QED BY <2>1, <2>2, <2>3, <2>5, <3>1
    <2>6. CASE Release(h)
      <3>1. \/ Become(h, Idle) \/ Become(h, [proc[h] EXCEPT !.pc = "note"])
            \/ Become(h, [proc[h] EXCEPT !.pc = "note_row"])
        BY <2>6 DEF Release, Goto, Finish
      <3> QED BY <2>1, <2>3, <2>4, <2>6, <3>1, OpenPcs
    <2> QED BY <2>5, <2>6
  <1> QED BY <1>0, <1>1, BecomePc DEF Same, Lock, Release

-----------------------------------------------------------------------------
(* publishMu *)

\* A handler in the locked section is the one publishMu names.
LockHeld == \A h \in Handlers : proc[h].pc \in LockedPcs => mutex[ServerOf[h]] = h

LEMMA LockHeldStep ==
    ASSUME TypeOK, LockHeld, [Next]_vars
    PROVE  LockHeld'
  <1>0. ServerOf \in [Handlers -> Servers] /\ mutex \in [Servers -> Handlers \cup {Nobody}]
        /\ Nobody \notin Handlers
    BY Constants DEF TypeOK, MutexOK
  <1>1. CASE Outside
    BY <1>1, OutsideFrame DEF LockHeld, Same
  <1>2. ASSUME NEW h \in Handlers, Inside(h)
        PROVE  LockHeld'
    BY <1>2, InsideFrame DEF LockHeld, Same
  <1>3. ASSUME NEW h \in Handlers, Lock(h)
        PROVE  LockHeld'
    <2>1. \A g \in Handlers \ {h} : proc'[g].pc = proc[g].pc
      BY <1>3, LockFrame DEF Same
    <2>2. mutex[ServerOf[h]] = Nobody /\ mutex' = [mutex EXCEPT ![ServerOf[h]] = h]
      BY <1>3 DEF Lock
    <2>3. \A g \in Handlers : proc[g].pc \in LockedPcs => ServerOf[g] # ServerOf[h]
      BY <1>0, <2>2 DEF LockHeld
    <2> QED BY <1>0, <2>1, <2>2, <2>3 DEF LockHeld
  <1>4. ASSUME NEW h \in Handlers, Release(h)
        PROVE  LockHeld'
    <2>1. mutex[ServerOf[h]] = h
      BY <1>4, PublisherPcs DEF LockHeld, Release
    <2>2. \A g \in Handlers \ {h} : proc'[g].pc = proc[g].pc
      BY <1>4, LockFrame DEF Same
    <2>3. proc'[h].pc \notin LockedPcs
      BY <1>4, LockFrame
    <2>4. mutex' = [mutex EXCEPT ![ServerOf[h]] = Nobody]
      BY <1>4 DEF Release
    <2>5. \A g \in Handlers \ {h} : proc[g].pc \in LockedPcs => ServerOf[g] # ServerOf[h]
      BY <2>1 DEF LockHeld
    <2> QED BY <1>0, <2>2, <2>3, <2>4, <2>5 DEF LockHeld
  <1>5. ASSUME NEW hs \in SUBSET Handlers, Lost(hs)
        PROVE  LockHeld'
    <2>1. Idle.pc \notin LockedPcs
      BY OpenPcs DEF Idle
    <2> QED BY <1>0, <1>5, <2>1 DEF Lost, Gone, LockHeld
  <1>6. \/ Outside \/ \E h \in Handlers : Inside(h) \/ Lock(h) \/ Release(h)
        \/ \E hs \in SUBSET Handlers : Lost(hs)
    BY EveryStep
  <1> QED BY <1>1, <1>2, <1>3, <1>4, <1>5, <1>6

LEMMA LockHeldInit == Init => LockHeld
  <1>1. Idle.pc \notin LockedPcs
    BY OpenPcs DEF Idle
  <1> QED BY <1>1 DEF Init, LockHeld

LEMMA LockHeldSafe == LockHeld => OnePublisherPerServer
  BY DEF LockHeld, OnePublisherPerServer

\* Two publishers of one process never overlap, whatever fails, is abandoned or
\* restarts: publishMu is held from the row read to the release of the lease.
THEOREM PublishersExclude == Spec => []OnePublisherPerServer
  BY TypeCorrect, LockHeldInit, LockHeldStep, LockHeldSafe, PTL DEF Spec

-----------------------------------------------------------------------------
(* The lease *)

\* Between the lease and its release.
WritePcs == LeasePcs \ {"release"}

\* The lease names the publisher that works under it, and only a lease whose
\* publisher is gone runs out.
LeaseHeld ==
    /\ lease.lapsed => lease.holder = Orphan
    /\ \A h \in Handlers : proc[h].pc \in WritePcs => lease.holder = h

LEMMA WritePcsFacts ==
    /\ WritePcs \subseteq LockedPcs /\ WritePcs \subseteq RowPcs
    /\ {"row", "release", "lease"} \cap WritePcs = {}
    /\ \A pc \in WritePcs : pc # "lease"
  BY DEF WritePcs, RowPcs, LockedPcs, LeasePcs

\* What a publisher's step does to the lease.
LEMMA InsideLease ==
    ASSUME TypeOK, NEW h \in Handlers, Inside(h)
    PROVE  \/ /\ AcquirePublishLease(h)
              /\ lease.holder = Nobody \/ lease.lapsed
              /\ lease' = [holder |-> h, lapsed |-> FALSE]
           \/ /\ UNCHANGED lease
              /\ proc'[h].pc \in WritePcs => proc[h].pc \in WritePcs
  <1>0. ProcOK /\ \A g \in Handlers : proc[g] \in Locals
    BY DEF TypeOK, ProcOK
  <1> DEFINE Kept == UNCHANGED lease /\ (proc'[h].pc \in WritePcs => proc[h].pc \in WritePcs)
  <1>1. ASSUME ReadRow(h)
        PROVE  Kept
    <2>1. UNCHANGED lease
      BY <1>1 DEF ReadRow
    <2>2. CASE FailBefore(h, "github_write")
      BY <2>1, <2>2, FailPc, WritePcsFacts
    <2>3. CASE Become(h, [proc[h] EXCEPT !.row = projection.snap, !.pc = "lease"])
      <3>1. [proc[h] EXCEPT !.row = projection.snap, !.pc = "lease"].pc = "lease"
        BY <1>0 DEF Locals
      <3> QED BY <1>0, <2>1, <2>3, <3>1, BecomePc, WritePcsFacts
    <2> QED BY <1>1, <2>2, <2>3 DEF ReadRow
  <1>2. ASSUME AcquirePublishLease(h), ~(lease.holder = Nobody \/ lease.lapsed)
        PROVE  Kept
    BY <1>2, FailPc, WritePcsFacts DEF AcquirePublishLease
  <1>3. ASSUME \/ GetReadme(h) \/ GetPreviews(h) \/ PutLight(h) \/ PutDark(h) \/ PutReadme(h)
               \/ VerifyReadme(h) \/ VerifyLight(h) \/ VerifyDark(h)
               \/ SavePresentation(h) \/ MarkReadmeVerified(h) \/ SetReadmeApplied(h)
        PROVE  Kept
    <2>1. proc[h].pc \in WritePcs
      BY <1>3 DEF GetReadme, GetPreviews, PutLight, PutDark, PutReadme, VerifyReadme, VerifyLight,
             VerifyDark, Verify, SavePresentation, MarkReadmeVerified, SetReadmeApplied, WritePcs, LeasePcs
    <2>2. UNCHANGED lease
      BY <1>3 DEF GetReadme, GetPreviews, PutLight, PutDark, PutReadme, VerifyReadme, VerifyLight,
             VerifyDark, Verify, SavePresentation, MarkReadmeVerified, SetReadmeApplied, store
    <2> QED BY <2>1, <2>2
  <1>4. ASSUME Fault(h)
        PROVE  Kept
    <2>1. UNCHANGED lease /\ proc'[h].pc = "release"
      <3>2. \A cause : FailBefore(h, cause) \/ FailAfter(h, cause) => proc'[h].pc = "release"
        BY FailPc
      <3>3. LateStoreFault(h) => proc'[h].pc = "release"
        <4>1. /\ [proc[h] EXCEPT !.pc = "release", !.current = FALSE].pc = "release"
              /\ [proc[h] EXCEPT !.pc = "release", !.cause = "github_write",
                                 !.raised = "github_write"].pc = "release"
          BY <1>0 DEF Locals
        <4> QED BY <1>0, <4>1, BecomePc DEF LateStoreFault
      <3> QED BY <1>4, <3>2, <3>3 DEF Fault, ReadFault, WriteFault, VerifyFault, StoreFault, LateStoreFault
    <2> QED BY <2>1, WritePcsFacts
  <1> QED BY <1>1, <1>2, <1>3, <1>4 DEF Inside, AcquirePublishLease

LEMMA LeaseHeldStep ==
    ASSUME ~SlowPublish, TypeOK, LeaseHeld, [Next]_vars
    PROVE  LeaseHeld'
  <1>0. /\ lease \in [holder : Handlers \cup {Nobody, Orphan}, lapsed : BOOLEAN]
        /\ Handlers \cap {Nobody, Orphan} = {} /\ Nobody # Orphan
    BY Constants DEF TypeOK, LeaseOK
  <1>1. CASE Outside
    <2>1. \A g \in Handlers : proc'[g].pc \in WritePcs => proc[g].pc \in WritePcs
      BY <1>1, OutsideFrame, WritePcsFacts DEF Same
    <2>2. UNCHANGED lease \/ (lease' = [lease EXCEPT !.lapsed = TRUE] /\ lease.holder = Orphan)
      BY <1>1, OutsideFrame DEF LeaseLapse
    <2> QED BY <1>0, <2>1, <2>2 DEF LeaseHeld
  <1>2. ASSUME NEW h \in Handlers, Inside(h)
        PROVE  LeaseHeld'
    <2>1. \A g \in Handlers \ {h} : proc'[g].pc \in WritePcs => proc[g].pc \in WritePcs
      BY <1>2, InsideFrame DEF Same
    <2> QED BY <1>0, <1>2, <2>1, InsideLease DEF LeaseHeld
  <1>3. ASSUME NEW h \in Handlers, Lock(h)
        PROVE  LeaseHeld'
    <2>1. \A g \in Handlers : proc'[g].pc \in WritePcs => proc[g].pc \in WritePcs
      BY <1>3, LockFrame, WritePcsFacts DEF Same
    <2> QED BY <1>3, <2>1 DEF LeaseHeld, Lock
  <1>4. ASSUME NEW h \in Handlers, Release(h)
        PROVE  LeaseHeld'
    <2>1. \A g \in Handlers : proc'[g].pc \in WritePcs => proc[g].pc \in WritePcs /\ g # h
      BY <1>4, LockFrame, WritePcsFacts DEF Same
    <2> QED BY <1>0, <1>4, <2>1 DEF LeaseHeld, Release
  <1>5. ASSUME NEW hs \in SUBSET Handlers, Lost(hs)
        PROVE  LeaseHeld'
    <2>1. Idle.pc \notin WritePcs
      BY OpenPcs, WritePcsFacts DEF Idle
    <2>2. \A g \in Handlers : proc'[g].pc \in WritePcs => proc[g].pc \in WritePcs /\ g \notin hs
      BY <1>5, <2>1 DEF Lost, Gone
    <2> QED BY <1>0, <1>5, <2>2 DEF LeaseHeld, Lost, Gone
  <1>6. \/ Outside \/ \E h \in Handlers : Inside(h) \/ Lock(h) \/ Release(h)
        \/ \E hs \in SUBSET Handlers : Lost(hs)
    BY EveryStep
  <1> QED BY <1>1, <1>2, <1>3, <1>4, <1>5, <1>6

\* What a publisher has verified so far is what GitHub still shows: from the
\* second read of a wall that needs no write, or from the writes, to the stamp.
Proven ==
    \A h \in Handlers :
      /\ proc[h].pc = "previews" => repo.readme.shot = proc[h].readme.shot
      /\ proc[h].pc \in {"verify_light", "verify_dark", "save", "stamp"} =>
           repo.readme.shot = Target(h)
      /\ proc[h].pc \in {"verify_dark", "save", "stamp"} => repo.light = Target(h)
      /\ proc[h].pc \in {"save", "stamp"} => repo.dark = Target(h)
      /\ proc[h].pc = "stamp" => presentation.asset = Target(h)

ProvenPcs == {"previews", "verify_light", "verify_dark", "save", "stamp"}

LEMMA ProvenPcsFacts ==
    ProvenPcs \subseteq WritePcs /\ {"idle", "row", "release", "note", "note_row"} \cap ProvenPcs = {}
  BY DEF ProvenPcs, WritePcs, LeasePcs

\* Nothing changes for a publisher whose files and locals a step leaves alone.
LEMMA ProvenKept ==
    ASSUME Proven, SameFiles, presentation'.asset = presentation.asset,
           \A g \in Handlers : proc'[g].pc \in ProvenPcs => Same(g)
    PROVE  Proven'
  BY DEF Proven, SameFiles, Same, ProvenPcs, Target, Shot

\* No two publishers read or write the files at the same time.
OneWriter == \A g, h \in Handlers : proc[g].pc \in WritePcs /\ proc[h].pc \in WritePcs => g = h

LEMMA LeaseMeansOne == LeaseHeld => OneWriter
  BY DEF LeaseHeld, OneWriter

\* When all that happens concerns the one handler at work, it alone counts.
LEMMA ProvenAlone ==
    ASSUME NEW h \in Handlers, \A g \in Handlers \ {h} : proc'[g].pc \notin ProvenPcs,
           /\ proc'[h].pc = "previews" => repo'.readme.shot = proc'[h].readme.shot
           /\ proc'[h].pc \in {"verify_light", "verify_dark", "save", "stamp"} =>
                repo'.readme.shot = Target(h)'
           /\ proc'[h].pc \in {"verify_dark", "save", "stamp"} => repo'.light = Target(h)'
           /\ proc'[h].pc \in {"save", "stamp"} => repo'.dark = Target(h)'
           /\ proc'[h].pc = "stamp" => presentation'.asset = Target(h)'
    PROVE  Proven'
  BY DEF Proven, ProvenPcs

LEMMA ProvenStep ==
    ASSUME TypeOK, OneWriter, Proven, [Next]_vars
    PROVE  Proven'
  <1>0. /\ ProcOK /\ \A g \in Handlers : proc[g] \in Locals
        /\ Idle.pc \notin ProvenPcs /\ Handlers \cap {Nobody, Orphan} = {}
    BY Constants, ProvenPcsFacts DEF TypeOK, ProcOK, Idle
  <1>1. CASE Outside
    BY <1>1, OutsideFrame, ProvenKept, ProvenPcsFacts, WritePcsFacts
  <1>2. ASSUME NEW h \in Handlers, Lock(h) \/ Release(h)
        PROVE  Proven'
    <2>1. \A g \in Handlers : proc'[g].pc \in ProvenPcs => Same(g)
      BY <1>2, LockFrame, ProvenPcsFacts, WritePcsFacts
    <2> QED BY <1>2, <2>1, LockFrame, ProvenKept DEF SameFiles
  <1>3. ASSUME NEW hs \in SUBSET Handlers, Lost(hs)
        PROVE  Proven'
    <2>1. \A g \in Handlers : proc'[g].pc \in ProvenPcs => Same(g)
      BY <1>0, <1>3 DEF Lost, Gone, Same
    <2> QED BY <1>3, <2>1, ProvenKept DEF Lost, SameFiles
  <1>4. ASSUME NEW h \in Handlers, Inside(h)
        PROVE  Proven'
    <2>1. \A g \in Handlers \ {h} : Same(g)
      BY <1>4, InsideFrame
    <2>2. CASE ReadRow(h) \/ AcquirePublishLease(h) \/ StoreFault(h)
      <3>1. proc'[h].pc \in {"lease", "readme", "release"}
        <4>1. \/ \E cause : FailBefore(h, cause) \/ FailAfter(h, cause)
              \/ Goto(h, "readme")
              \/ Become(h, [proc[h] EXCEPT !.row = projection.snap, !.pc = "lease"])
          BY <2>2 DEF ReadRow, AcquirePublishLease, StoreFault
        <4>2. [proc[h] EXCEPT !.row = projection.snap, !.pc = "lease"].pc = "lease"
          BY <1>0 DEF Locals
        <4>3. CASE \E cause : FailBefore(h, cause) \/ FailAfter(h, cause)
          BY <4>3, FailPc
        <4>4. CASE Goto(h, "readme")
          BY <4>4, GotoPc
        <4>5. CASE Become(h, [proc[h] EXCEPT !.row = projection.snap, !.pc = "lease"])
          BY <1>0, <4>2, <4>5, BecomePc
        <4> QED BY <4>1, <4>3, <4>4, <4>5
      <3>2. proc'[h].pc \notin ProvenPcs
        BY <3>1 DEF ProvenPcs
      <3> QED BY <2>1, <2>2, <3>2, ProvenKept DEF ReadRow, AcquirePublishLease, StoreFault, SameFiles
    <2>3. CASE proc[h].pc \in WritePcs
      <3>1. \A g \in Handlers \ {h} : proc'[g].pc \notin ProvenPcs
        BY <1>4, <2>1, <2>3, ProvenPcsFacts DEF OneWriter, Same
      <3>2. CASE proc'[h].pc \notin ProvenPcs
        BY <3>1, <3>2, ProvenAlone DEF ProvenPcs
      <3>3. CASE GetReadme(h)
        <4> DEFINE l == [proc[h] EXCEPT !.readme = repo.readme, !.pc = "previews",
                           !.current = presentation.palette = proc[h].palette
                                       /\ presentation.asset = Target(h)]
        <4>1. Become(h, l) /\ UNCHANGED repo
          BY <3>3 DEF GetReadme
        <4>2. l.pc = "previews" /\ l.readme = repo.readme
          BY <1>0 DEF Locals
        <4>3. proc'[h] = l
          BY <1>0, <4>1, BecomePc
        <4> QED BY <3>1, <4>1, <4>2, <4>3, ProvenAlone
      <3>4. CASE GetPreviews(h)
        <4> DEFINE done == /\ proc[h].current
                           /\ repo.light = Target(h) /\ repo.dark = Target(h)
                           /\ proc[h].readme.shot = Target(h)
                   l == [proc[h] EXCEPT !.pc = IF done THEN "save" ELSE "light", !.current = done]
        <4>1. Become(h, l) /\ UNCHANGED <<repo, presentation>>
          BY <3>4 DEF GetPreviews, store
        <4>2. l.row = proc[h].row /\ l.palette = proc[h].palette
              /\ ((l.pc = "save" /\ done) \/ l.pc = "light")
          BY <1>0 DEF Locals
        <4>3. proc'[h] = l
          BY <1>0, <4>1, BecomePc
        <4>4. repo.readme.shot = proc[h].readme.shot
          BY <3>4 DEF Proven, GetPreviews
        <4>5. Target(h)' = Target(h)
          BY <4>2, <4>3 DEF Target, Shot
        <4> HIDE DEF l
        <4> QED BY <3>1, <4>1, <4>2, <4>3, <4>4, <4>5, ProvenAlone
      <3>5. ASSUME NEW pc, Goto(h, pc)
            PROVE  Target(h)' = Target(h) /\ proc'[h].pc = pc
        <4>1. proc'[h] = [proc[h] EXCEPT !.pc = pc] /\ proc'[h].pc = pc
          BY <3>5, GotoPc
        <4> QED BY <1>0, <4>1 DEF Locals, Target, Shot
      <3>6. CASE Verify(h, "verify_readme", repo.readme.shot, "verify_light")
        BY <3>1, <3>2, <3>5, <3>6, FailPc, ProvenPcsFacts, ProvenAlone DEF Verify
      <3>7. CASE Verify(h, "verify_light", repo.light, "verify_dark")
        BY <3>1, <3>2, <3>5, <3>7, FailPc, ProvenPcsFacts, ProvenAlone DEF Verify, Proven
      <3>8. CASE Verify(h, "verify_dark", repo.dark, "save")
        BY <3>1, <3>2, <3>5, <3>8, FailPc, ProvenPcsFacts, ProvenAlone DEF Verify, Proven
      <3>9. CASE SavePresentation(h)
        <4>1. presentation'.asset = Target(h) /\ UNCHANGED repo /\ Goto(h, "stamp")
              /\ repo.readme.shot = Target(h) /\ repo.light = Target(h) /\ repo.dark = Target(h)
          BY <3>9 DEF SavePresentation, Proven, TypeOK, PresentationOK
        <4> QED BY <3>1, <3>5, <4>1, ProvenAlone
      <3>10. CASE PutLight(h) \/ PutDark(h) \/ PutReadme(h) \/ MarkReadmeVerified(h)
                  \/ SetReadmeApplied(h) \/ Fault(h)
        <4>1. proc'[h].pc \in {"dark", "put_readme", "verify_readme", "apply_published", "release"}
          <5>1. CASE PutLight(h) \/ PutDark(h)
            BY <3>5, <5>1 DEF PutLight, PutDark
          <5>2. CASE PutReadme(h)
            <6>1. [proc[h] EXCEPT !.pc = "verify_readme", !.readme = Idle.readme].pc = "verify_readme"
              BY <1>0 DEF Locals
            <6>2. CASE Become(h, [proc[h] EXCEPT !.pc = "verify_readme", !.readme = Idle.readme])
              BY <1>0, <6>1, <6>2, BecomePc
            <6>3. CASE FailAfter(h, "conflict")
              BY <6>3, FailPc
            <6> QED BY <5>2, <6>2, <6>3 DEF PutReadme
          <5>3. CASE MarkReadmeVerified(h)
            <6>1. CASE MayStamp(h)
              <7>1. proc'[h] = [proc[h] EXCEPT !.pc = "apply_published"]
                BY <5>3, <6>1 DEF MarkReadmeVerified
              <7> QED BY <1>0, <7>1 DEF Locals
            <6>2. CASE ~MayStamp(h)
              BY <3>5, <5>3, <6>2, FailPc DEF MarkReadmeVerified
            <6> QED BY <6>1, <6>2
          <5>4. CASE SetReadmeApplied(h) \/ LateStoreFault(h)
            <6>1. /\ [proc[h] EXCEPT !.pc = "release", !.current = FALSE].pc = "release"
                  /\ [proc[h] EXCEPT !.pc = "release", !.cause = "github_write",
                                     !.raised = "github_write"].pc = "release"
              BY <1>0 DEF Locals
            <6> QED BY <1>0, <5>4, <6>1, BecomePc DEF SetReadmeApplied, LateStoreFault
          <5>5. CASE Fault(h) /\ ~LateStoreFault(h)
            BY <5>5, FailPc DEF Fault, ReadFault, WriteFault, VerifyFault, StoreFault
          <5> QED BY <3>10, <5>1, <5>2, <5>3, <5>4, <5>5
        <4> QED BY <3>2, <4>1 DEF ProvenPcs
      <3> QED BY <1>4, <2>2, <3>3, <3>4, <3>6, <3>7, <3>8, <3>9, <3>10
              DEF Inside, VerifyReadme, VerifyLight, VerifyDark
    <2>4. proc[h].pc \in WritePcs \/ ReadRow(h) \/ AcquirePublishLease(h) \/ StoreFault(h)
      BY <1>4 DEF Inside, GetReadme, GetPreviews, PutLight, PutDark, PutReadme, VerifyReadme, VerifyLight,
             VerifyDark, Verify, SavePresentation, MarkReadmeVerified, SetReadmeApplied, WritePcs, LeasePcs,
             Fault, ReadFault, WriteFault, VerifyFault, LateStoreFault
    <2> QED BY <2>2, <2>3, <2>4
  <1> QED BY <1>1, <1>2, <1>3, <1>4, EveryStep

LEMMA LeaseInit == Init => LeaseHeld /\ Proven
  <1>1. Idle.pc \notin WritePcs /\ Idle.pc \notin ProvenPcs
    BY OpenPcs, WritePcsFacts, ProvenPcsFacts DEF Idle
  <1> QED BY <1>1 DEF Init, LeaseHeld, Proven, ProvenPcs

\* What is stamped and what is promoted was shown by all three files then.
Promotion ==
    /\ presentation'.asset # presentation.asset => Shows(repo, presentation'.asset)
    /\ presentation'.readme # presentation.readme =>
         Shows(repo, presentation'.asset) /\ presentation'.asset.snap = presentation'.readme

LEMMA PromotionStep ==
    ASSUME TypeOK, Proven, [Next]_vars
    PROVE  Promotion
  <1>0. PresentationOK
    BY DEF TypeOK
  <1>1. CASE UNCHANGED presentation
    BY <1>1 DEF Promotion
  <1>2. ASSUME NEW h \in Handlers, SavePresentation(h)
        PROVE  Promotion
    BY <1>0, <1>2 DEF SavePresentation, Promotion, Shows, Proven, PresentationOK
  <1>3. ASSUME NEW h \in Handlers, MarkReadmeVerified(h), MayStamp(h)
        PROVE  Promotion
    <2>1. /\ presentation'.asset = Target(h) /\ presentation.asset = Target(h)
          /\ presentation'.readme = proc[h].row
      BY <1>0, <1>3 DEF MarkReadmeVerified, Proven, PresentationOK
    <2>2. Shows(repo, Target(h)) /\ Target(h).snap = proc[h].row
      BY <1>3 DEF MarkReadmeVerified, Proven, Shows, Target, Shot
    <2> QED BY <2>1, <2>2 DEF Promotion
  <1>4. ASSUME NEW h \in Handlers, Inside(h), ~SavePresentation(h),
               ~(MarkReadmeVerified(h) /\ MayStamp(h))
        PROVE  UNCHANGED presentation
    BY <1>4 DEF Inside, ReadRow, AcquirePublishLease, GetReadme, GetPreviews, PutLight, PutDark, PutReadme,
           VerifyReadme, VerifyLight, VerifyDark, Verify, MarkReadmeVerified, SetReadmeApplied,
           Fault, ReadFault, WriteFault, VerifyFault, StoreFault, LateStoreFault, store
  <1>5. ASSUME NEW hs \in SUBSET Handlers, Lost(hs)
        PROVE  Promotion
    BY <1>5 DEF Lost, Promotion
  <1>6. CASE Outside
    BY <1>1, <1>6, OutsideFrame
  <1>7. ASSUME NEW h \in Handlers, Lock(h) \/ Release(h)
        PROVE  Promotion
    BY <1>1, <1>7, LockFrame
  <1>8. ASSUME NEW h \in Handlers, Inside(h)
        PROVE  Promotion
    BY <1>1, <1>2, <1>3, <1>4, <1>8
  <1> QED BY <1>5, <1>6, <1>7, <1>8, EveryStep

\* When no publish outlives its lease, a snapshot is stamped, and a palette
\* promoted, only while the README and both previews on GitHub show it.
\* SavePresentation and the stamp never look at GitHub themselves: that the
\* files are still what was verified rests on the lease.
THEOREM PromotedIsShown ==
    ASSUME ~SlowPublish
    PROVE  Spec => PromotedIsOnGitHub
  <1>1. TypeOK /\ LeaseHeld /\ Proven /\ [Next]_vars => LeaseHeld' /\ Proven'
    BY LeaseHeldStep, LeaseMeansOne, ProvenStep
  <1>2. TypeOK /\ Proven /\ [Next]_vars =>
          [/\ presentation'.asset # presentation.asset => Shows(repo, presentation'.asset)
           /\ presentation'.readme # presentation.readme =>
                Shows(repo, presentation'.asset) /\ presentation'.asset.snap = presentation'.readme]_vars
    BY PromotionStep DEF Promotion
  <1> QED BY <1>1, <1>2, TypeCorrect, LeaseInit, PTL DEF Spec, PromotedIsOnGitHub
-----------------------------------------------------------------------------
(* One request at a time: the handlers keep the promise of PublicWall.       *)

\* No two requests or worker passes are served at the same time.
OneAtATime ==
    \A g, h \in Handlers : proc[g].pc # "idle" /\ proc[h].pc # "idle" => g = h

\* Between its decision and its stamp a handler means to show the snapshot.
GoingPcs == (LockedPcs \ {"release", "apply_published"}) \cup {"pick_palette", "announce", "lock"}

\* The verified wall, when its total is known.
ProvenWall(readme) ==
    IF readme = NoSnap THEN NoWall
    ELSE [proven |-> TRUE, snap |-> readme, total |-> readme.total, date |-> readme.date]

\* Some day, hour, caller and pending intent let the stored snapshot be shown.
MayShow(snap, readme) ==
    \E in \in Wall!Inputs(snap, Wall!WallOf(readme)) : Wall!DecidePublication(in).action = "PUBLISH_NOW"

\* What the locals of a running handler say of the stored snapshot and of the
\* stamped one.
Faithful(l, snap, readme) ==
    /\ l.op \in {"put", "work"} /\ l.pc \notin {"theme_row", "theme_decide", "note_row"}
    /\ l.pc \in {"put_read", "put_save"} => l.cand \in Snapshots
    /\ l.pc = "put_save" /\ snap # NoSnap =>
         ShouldReplaceProjection(snap, l.cand) /\ ~TokenRegressed(snap, l.cand)
    /\ l.pc \notin {"put_read", "put_save"} => snap # NoSnap
    /\ l.pc \notin {"put_read", "put_save", "work_row"} => l.cand = snap
    /\ l.pc = "decide" => l.wall = ProvenWall(readme)
    /\ l.pc = "intent" => l.intent.desired = snap /\ l.intent.status # "applied"
                          /\ l.intent.reason # "theme"
    /\ l.pc = "apply_same" => readme = snap
    /\ l.pc \in GoingPcs => MayShow(snap, readme)
    /\ l.pc \in LockedPcs \ {"row", "release"} => l.row = snap
    /\ l.pc = "apply_published" => readme = snap

\* The rows while one request at a time is served, without an owner's request,
\* an unnoticed error or a wall of an older release.
InTurn ==
    /\ projection.desired = projection.snap /\ projection.reason # "theme"
    /\ presentation.readme # NoSnap => presentation.known /\ projection.snap # NoSnap
    /\ budget.misses = 0
    /\ \A h \in Handlers :
         proc[h].pc # "idle" => Faithful(proc[h], projection.snap, presentation.readme)

\* The same gates under both names.
LEMMA SameGates ==
    /\ \A in : Wall!DecidePublication(in) = DecidePublication(in)
    /\ \A prev, next : Wall!ShouldReplaceProjection(prev, next) = ShouldReplaceProjection(prev, next)
    /\ \A prev, next : Wall!TokenRegressed(prev, next) = TokenRegressed(prev, next)
  <1>1. \A prev, next : Wall!ShouldReplaceProjection(prev, next) = ShouldReplaceProjection(prev, next)
    BY DEF Wall!ShouldReplaceProjection, ShouldReplaceProjection, Wall!lostMeasuredProvider,
           lostMeasuredProvider, Wall!MeasuredIn, MeasuredIn, Wall!measuredAgent, measuredAgent,
           Wall!coverageRank, coverageRank, Wall!measuredSetHeld, measuredSetHeld, Wall!Weaker, Weaker,
           Wall!heldAccountObservation, heldAccountObservation
  <1>2. \A prev, next : Wall!TokenRegressed(prev, next) = TokenRegressed(prev, next)
    BY DEF Wall!TokenRegressed, TokenRegressed
  <1>3. \A in : Wall!DecidePublication(in) = DecidePublication(in)
    <2>1. \A in : /\ Wall!CoverageLost(in) = CoverageLost(in) /\ Wall!Publishable(in.cand) = Publishable(in.cand)
                  /\ Wall!Shrinks(in) = Shrinks(in) /\ Wall!retryable(in) = retryable(in)
                  /\ Wall!HeldForNewDay(in) = HeldForNewDay(in) /\ Wall!BelowDelta(in) = BelowDelta(in)
                  /\ Wall!MergesWithMidnight(in) = MergesWithMidnight(in)
                  /\ Wall!dateRollover(in.wall, in.cand) = dateRollover(in.wall, in.cand)
                  /\ Wall!earlierLocalDate(in.cand.date, in.wall.date)
                       = earlierLocalDate(in.cand.date, in.wall.date)
      BY <1>1 DEF Wall!CoverageLost, CoverageLost, Wall!Publishable, Publishable, Wall!Shrinks, Shrinks,
             Wall!retryable, retryable, Wall!HeldForNewDay, HeldForNewDay, Wall!BelowDelta, BelowDelta,
             Wall!MinimumDelta, MinimumDelta, Wall!MergesWithMidnight, MergesWithMidnight,
             Wall!dateRollover, dateRollover, Wall!earlierLocalDate, earlierLocalDate,
             Wall!laterLocalDate, laterLocalDate, Wall!NoDate, NoDate
    <2>2. \A action, reason : Wall!Decision(action, reason) = Decision(action, reason)
      BY DEF Wall!Decision, Decision
    <2> QED BY <2>1, <2>2 DEF Wall!DecidePublication, DecidePublication
  <1> QED BY <1>1, <1>2, <1>3

LEMMA ProvenIsWall == \A readme : Wall!WallOf(readme) = ProvenWall(readme)
  BY DEF Wall!WallOf, ProvenWall, Wall!NoWall, NoWall, Wall!NoDate, NoDate

-----------------------------------------------------------------------------
(* A decision to publish is one that PublicWall allows. *)

\* What considerPublication asks.
Question(cand, wall, pending, today, closing, theme, fromWorker) ==
    [cand |-> cand, accepted |-> cand, wall |-> wall, pending |-> pending, today |-> today,
     closing |-> closing, theme |-> theme, fromWorker |-> fromWorker, offline |-> FALSE,
     explained |-> FALSE]

\* Of the pending intent a decision reads the snapshot, whether it failed, and
\* whether it waits for the new day.
LEMMA OnlyCooldown ==
    ASSUME NEW cand, NEW wall, NEW today, NEW closing, NEW theme, NEW fromWorker, NEW p, NEW q,
           p.snap = q.snap, p.failed = q.failed, (p.reason = "cooldown") = (q.reason = "cooldown")
    PROVE  DecidePublication(Question(cand, wall, p, today, closing, theme, fromWorker))
             = DecidePublication(Question(cand, wall, q, today, closing, theme, fromWorker))
  <1>1. PICK a, b : /\ a = Question(cand, wall, p, today, closing, theme, fromWorker)
                    /\ b = Question(cand, wall, q, today, closing, theme, fromWorker)
    OBVIOUS
  <1>2. /\ a.cand = b.cand /\ a.accepted = b.accepted /\ a.wall = b.wall /\ a.today = b.today
        /\ a.closing = b.closing /\ a.theme = b.theme /\ a.fromWorker = b.fromWorker
        /\ a.offline = b.offline /\ a.explained = b.explained
        /\ a.pending = p /\ b.pending = q
    BY <1>1 DEF Question
  <1>3. /\ CoverageLost(a) = CoverageLost(b) /\ Shrinks(a) = Shrinks(b)
        /\ retryable(a) = retryable(b) /\ HeldForNewDay(a) = HeldForNewDay(b)
        /\ BelowDelta(a) = BelowDelta(b) /\ MergesWithMidnight(a) = MergesWithMidnight(b)
    BY <1>2 DEF CoverageLost, Shrinks, retryable, HeldForNewDay, BelowDelta, MinimumDelta,
                MergesWithMidnight
  <1>4. DecidePublication(a) = DecidePublication(b)
    BY <1>2, <1>3 DEF DecidePublication
  <1> QED BY <1>1, <1>4

LEMMA DecisionMayShow ==
    ASSUME NEW snap, NEW readme, NEW p, NEW today \in 1..MaxDay, NEW closing \in BOOLEAN,
           NEW theme \in BOOLEAN, NEW fromWorker \in BOOLEAN, p.snap = snap, p.failed \in BOOLEAN,
           DecidePublication(Question(snap, ProvenWall(readme), p, today, closing, theme, fromWorker)).action
             = "PUBLISH_NOW"
    PROVE  MayShow(snap, readme)
  <1> DEFINE q == [snap |-> snap, reason |-> IF p.reason = "cooldown" THEN "cooldown" ELSE "",
                   failed |-> p.failed]
             in == Question(snap, ProvenWall(readme), q, today, closing, theme, fromWorker)
  <1>1. q \in Wall!Pendings(snap) /\ q.snap = p.snap /\ q.failed = p.failed
        /\ (q.reason = "cooldown") = (p.reason = "cooldown")
    BY DEF Wall!Pendings
  <1> HIDE DEF q
  <1>2. in \in Wall!Inputs(snap, Wall!WallOf(readme))
    BY <1>1, ProvenIsWall DEF Wall!Inputs, Question
  <1>3. DecidePublication(in)
          = DecidePublication(Question(snap, ProvenWall(readme), p, today, closing, theme, fromWorker))
    BY <1>1, OnlyCooldown
  <1> HIDE DEF in
  <1> QED BY <1>2, <1>3, SameGates DEF MayShow

-----------------------------------------------------------------------------
(* Steps of a request that is served alone. *)

\* The rows of a wall that no theme and no unnoticed error has touched.
Settled ==
    /\ projection.desired = projection.snap /\ projection.reason # "theme"
    /\ presentation.readme # NoSnap => presentation.known /\ projection.snap # NoSnap
    /\ budget.misses = 0

LEMMA LocalsOf ==
    ASSUME TypeOK, NEW h \in Handlers
    PROVE  proc[h] \in Locals
  BY DEF TypeOK, ProcOK

\* With the others idle, what is left to be shown of a step of h are its own
\* locals and the rows.
LEMMA TurnStep ==
    ASSUME TypeOK, InTurn, OneAtATime, OneAtATime', NEW h \in Handlers, NEW l, Become(h, l),
           proc[h].pc # "idle" \/ l.pc # "idle", Settled',
           l.pc # "idle" => Faithful(l, projection'.snap, presentation'.readme)
    PROVE  InTurn'
  <1>1. proc'[h] = l /\ \A g \in Handlers \ {h} : proc'[g] = proc[g]
    BY BecomePc DEF TypeOK
  <1>2. \A g \in Handlers \ {h} : proc'[g].pc = "idle"
    BY <1>1 DEF OneAtATime
  <1>3. \A g \in Handlers : proc'[g].pc # "idle" =>
          Faithful(proc'[g], projection'.snap, presentation'.readme)
    BY <1>1, <1>2
  <1> QED BY <1>3 DEF InTurn, Settled

\* Most steps leave the rows as they are.
LEMMA SettledStays ==
    ASSUME InTurn, projection'.desired = projection'.snap, projection'.reason # "theme",
           projection'.snap = projection.snap, budget'.misses = budget.misses,
           presentation'.readme = presentation.readme, presentation'.known = presentation.known
    PROVE  Settled'
  BY DEF InTurn, Settled

LEMMA RowsStay ==
    ASSUME InTurn, UNCHANGED <<projection, presentation>>, budget'.misses = budget.misses
    PROVE  Settled' /\ projection'.snap = projection.snap /\ presentation'.readme = presentation.readme
  BY DEF InTurn, Settled

LEMMA IntentFields ==
    ASSUME NEW p \in Rows, NEW desired, NEW status, NEW reason, NEW palette, NEW due, NEW retry
    PROVE  /\ Intent(p, desired, status, reason, palette, due, retry).snap = p.snap
           /\ Intent(p, desired, status, reason, palette, due, retry).desired = desired
           /\ Intent(p, desired, status, reason, palette, due, retry).reason = reason
           /\ Intent(p, desired, status, reason, palette, due, retry).status = status
  BY DEF Rows, Intent

LEMMA AppliedFields ==
    ASSUME NEW snap, NEW p \in Rows
    PROVE  /\ Applied(p, snap).snap = p.snap
           /\ Applied(p, snap).desired = p.desired
           /\ p.reason # "theme" => Applied(p, snap).reason # "theme"
           /\ Applied(p, snap).status # p.status => p.desired = snap
  <1>1. CASE p.desired = snap /\ p.snap # NoSnap
    <2>1. PICK none : none = ""
      OBVIOUS
    <2>2. PICK i : i = Intent(p, snap, "applied", none, NoPalette, "none", 0)
      OBVIOUS
    <2>3. i.snap = p.snap /\ i.desired = snap /\ i.reason = none
      BY <2>2, IntentFields
    <2>4. Applied(p, snap) = i /\ none # "theme"
      BY <1>1, <2>1, <2>2, Zenon DEF Applied
    <2> QED BY <1>1, <2>3, <2>4
  <1>2. CASE ~(p.desired = snap /\ p.snap # NoSnap)
    <2>1. Applied(p, snap) = p
      BY <1>2 DEF Applied
    <2> QED BY <2>1
  <1> QED BY <1>1, <1>2

\* A jump keeps what the locals say.
LEMMA PcFields ==
    ASSUME NEW pc, NEW l \in Locals
    PROVE  /\ [l EXCEPT !.pc = pc].pc = pc
           /\ [l EXCEPT !.pc = pc].op = l.op
           /\ [l EXCEPT !.pc = pc].cand = l.cand
           /\ [l EXCEPT !.pc = pc].row = l.row
           /\ [l EXCEPT !.pc = pc].wall = l.wall
           /\ [l EXCEPT !.pc = pc].intent = l.intent
  BY DEF Locals

LEMMA Finished ==
    ASSUME TypeOK, InTurn, OneAtATime, OneAtATime', NEW h \in Handlers, Finish(h),
           proc[h].pc # "idle", Settled'
    PROVE  InTurn'
  <1>1. Idle.pc = "idle"
    BY DEF Idle
  <1> QED BY <1>1, TurnStep DEF Finish

\* Bounded events are paid for by their own budget.
LEMMA Spent ==
    ASSUME TypeOK, NEW what \in {"puts", "edits", "themes", "faults", "drops", "restarts"},
           CanSpend(what), Spend(what)
    PROVE  budget'.misses = budget.misses
  <1>1. budget \in [puts : Nat, edits : Nat, faults : Nat, misses : Nat, drops : Nat,
                    restarts : Nat, themes : Nat]
    BY DEF TypeOK, EnvOK
  <1> QED BY <1>1 DEF Spend

LEMMA NoMiss ==
    ASSUME InTurn, NEW h \in Handlers
    PROVE  ~Miss(h)
  BY DEF InTurn, Miss, ReadMiss, WriteMiss, CanSpend

LEMMA FaithfulNow ==
    ASSUME InTurn, NEW h \in Handlers, proc[h].pc # "idle"
    PROVE  Faithful(proc[h], projection.snap, presentation.readme)
  BY DEF InTurn

-----------------------------------------------------------------------------
LEMMA PutTurn ==
    ASSUME TypeOK, InTurn, OneAtATime, OneAtATime', NEW h \in Handlers,
           (\E d \in Devices : ReceivePut(h, d)) \/ PutRead(h) \/ PutSave(h)
    PROVE  InTurn'
  <1>0. proc[h] \in Locals /\ (proc[h].pc # "idle" => Faithful(proc[h], projection.snap, presentation.readme))
    BY LocalsOf, FaithfulNow
  <1>1. ASSUME NEW d \in Devices, ReceivePut(h, d)
        PROVE  InTurn'
    <2> DEFINE l == [Idle EXCEPT !.pc = "put_read", !.op = "put", !.cand = Feed[d][device[d]]]
    <2>1. Feed[d][device[d]] \in Snapshots
      <3>1. device[d] \in Nat /\ device[d] <= Len(Feed[d]) /\ device[d] > 0
        BY <1>1 DEF ReceivePut, TypeOK, EnvOK
      <3>2. Len(Feed[d]) \in Nat /\ DOMAIN Feed[d] = 1..Len(Feed[d])
        BY HostedWallAssumption
      <3>3. device[d] \in DOMAIN Feed[d]
        BY <3>1, <3>2
      <3> QED BY <3>3 DEF Snapshots
    <2>2. l.pc = "put_read" /\ l.op = "put" /\ l.cand \in Snapshots
      BY <2>1 DEF Idle
    <2>3. Become(h, l) /\ UNCHANGED <<projection, presentation>> /\ budget'.misses = budget.misses
      BY <1>1, Spent DEF ReceivePut, store
    <2> HIDE DEF l
    <2>4. Faithful(l, projection.snap, presentation.readme)
      BY <2>2 DEF Faithful, GoingPcs, LockedPcs, LeasePcs
    <2> QED BY <2>2, <2>3, <2>4, RowsStay, TurnStep
  <1>2. CASE PutRead(h)
    <2>1. UNCHANGED <<projection, presentation, budget>> /\ proc[h].pc = "put_read"
      BY <1>2 DEF PutRead, store, env
    <2>2. Settled' /\ projection'.snap = projection.snap /\ presentation'.readme = presentation.readme
      BY <2>1, RowsStay
    <2>3. CASE Finish(h)
      BY <2>1, <2>2, <2>3, Finished
    <2>4. CASE Goto(h, "put_save") /\ ~Finish(h)
      <3> DEFINE l == [proc[h] EXCEPT !.pc = "put_save"]
      <3>1. l.pc = "put_save" /\ l.op = proc[h].op /\ l.cand = proc[h].cand
        BY <1>0, PcFields
      <3>2. projection.snap = NoSnap \/ (/\ ShouldReplaceProjection(projection.snap, proc[h].cand)
                                         /\ ~TokenRegressed(projection.snap, proc[h].cand))
        BY <1>2, <2>4 DEF PutRead
      <3>3. Become(h, l)
        BY <2>4 DEF Goto
      <3> HIDE DEF l
      <3>4. Faithful(l, projection.snap, presentation.readme)
        BY <1>0, <2>1, <3>1, <3>2 DEF Faithful, GoingPcs, LockedPcs, LeasePcs
      <3> QED BY <2>2, <3>1, <3>3, <3>4, TurnStep
    <2> QED BY <1>2, <2>3, <2>4 DEF PutRead
  <1>3. CASE PutSave(h)
    <2> DEFINE l == [proc[h] EXCEPT !.pc = "read_wall"]
    <2>1. l.pc = "read_wall" /\ l.op = proc[h].op /\ l.cand = proc[h].cand
      BY <1>0, PcFields
    <2>2. Become(h, l) /\ proc[h].pc = "put_save" /\ UNCHANGED <<presentation, budget>>
      BY <1>3 DEF PutSave, Goto, env
    <2>3. proc[h].cand \in Snapshots /\ proc[h].cand # NoSnap
      BY <1>0, <2>2, Constants DEF Faithful
    <2>4. projection'.snap = proc[h].cand /\ projection'.desired = proc[h].cand
          /\ projection'.reason = projection.reason
      BY <1>3 DEF PutSave, TypeOK, ProjectionOK, Rows
    <2> HIDE DEF l
    <2>5. Settled'
      BY <2>2, <2>3, <2>4 DEF InTurn, Settled
    <2>6. Faithful(l, projection'.snap, presentation'.readme)
      BY <1>0, <2>1, <2>2, <2>3, <2>4 DEF Faithful, GoingPcs, LockedPcs, LeasePcs
    <2> QED BY <2>1, <2>2, <2>5, <2>6, TurnStep
  <1> QED BY <1>1, <1>2, <1>3

-----------------------------------------------------------------------------
\* What a publisher keeps from its decision to its end.
Keeps(h, l) == l.op = proc[h].op /\ l.cand = proc[h].cand /\ l.row = proc[h].row

\* The palette of a local and the request it is for.
SamePalette(h, l) == l.op = proc[h].op /\ l.palette = proc[h].palette

\* Where a request that is past its decision can be.
PastPcs == GoingPcs \cup {"apply_published", "release", "note", "unconfigured"}

LEMMA PastPcsFacts ==
    /\ {"idle", "put_read", "put_save", "work_row", "theme_row", "theme_decide", "note_row", "read_wall",
        "decide", "intent", "coalesce", "apply_same"} \cap PastPcs = {}
    /\ {"apply_published", "release", "note", "unconfigured"} \cap GoingPcs = {}
    /\ {"pick_palette", "announce", "lock", "row", "lease", "readme", "previews", "light", "dark",
        "put_readme", "verify_readme", "verify_light", "verify_dark", "save", "stamp"} \subseteq GoingPcs
    /\ {"note", "unconfigured", "pick_palette", "announce", "lock"} \cap LockedPcs = {}
    /\ GoingPcs \subseteq PastPcs
  BY DEF PastPcs, GoingPcs, LockedPcs, LeasePcs

\* A publisher goes on, fails or ends; it never leaves its snapshot.
LEMMA PastTurn ==
    ASSUME TypeOK, InTurn, OneAtATime, OneAtATime', NEW h \in Handlers, NEW l, Become(h, l), Keeps(h, l),
           proc[h].pc \in PastPcs, l.pc \in PastPcs,
           l.pc \in GoingPcs => proc[h].pc \in GoingPcs /\ presentation'.readme = presentation.readme,
           l.pc \in LockedPcs \ {"row", "release"} => l.row = projection.snap,
           l.pc = "apply_published" => presentation'.readme = projection.snap,
           projection'.snap = projection.snap, Settled'
    PROVE  InTurn'
  <1>1. proc[h].pc # "idle" /\ l.pc # "idle"
    BY PastPcsFacts
  <1>2. Faithful(proc[h], projection.snap, presentation.readme)
    BY <1>1, FaithfulNow
  <1>3. /\ proc[h].op \in {"put", "work"} /\ projection.snap # NoSnap /\ proc[h].cand = projection.snap
        /\ proc[h].pc \in GoingPcs => MayShow(projection.snap, presentation.readme)
    BY <1>2, PastPcsFacts DEF Faithful
  <1>4. Faithful(l, projection'.snap, presentation'.readme)
    BY <1>3, PastPcsFacts DEF Faithful, Keeps
  <1> QED BY <1>1, <1>4, TurnStep

LEMMA FailedLocals ==
    ASSUME TypeOK, NEW h \in Handlers, NEW cause, FailBefore(h, cause) \/ FailAfter(h, cause)
    PROVE  \E l : Become(h, l) /\ Keeps(h, l) /\ SamePalette(h, l) /\ l.pc = "release"
  <1>0. proc[h] \in Locals
    BY LocalsOf
  <1> DEFINE l(c) == [proc[h] EXCEPT !.pc = "release", !.cause = c, !.raised = cause,
                                     !.readme = Idle.readme, !.current = FALSE]
  <1>1. \A c : Keeps(h, l(c)) /\ SamePalette(h, l(c)) /\ l(c).pc = "release"
    BY <1>0 DEF Locals, Keeps, SamePalette
  <1>2. Become(h, l(cause)) \/ Become(h, l(Untyped(cause)))
    BY DEF FailBefore, FailAfter
  <1> HIDE DEF l
  <1> QED BY <1>1, <1>2

\* A failed attempt goes to its release, and the rows stay.
LEMMA FailTurn ==
    ASSUME TypeOK, InTurn, OneAtATime, OneAtATime', NEW h \in Handlers, NEW cause,
           FailBefore(h, cause) \/ FailAfter(h, cause), proc[h].pc \in PastPcs,
           UNCHANGED <<projection, presentation>>, budget'.misses = budget.misses
    PROVE  InTurn'
  <1>1. PICK l : Become(h, l) /\ Keeps(h, l) /\ l.pc = "release"
    BY FailedLocals
  <1>2. l.pc \in PastPcs /\ l.pc \notin GoingPcs
    BY <1>1, PastPcsFacts DEF PastPcs
  <1> QED BY <1>1, <1>2, RowsStay, PastTurn

\* A publisher that goes on with the row it read.
LEMMA GoTurn ==
    ASSUME TypeOK, InTurn, OneAtATime, OneAtATime', NEW h \in Handlers, NEW l, Become(h, l), Keeps(h, l),
           proc[h].pc \in GoingPcs, l.pc \in GoingPcs,
           l.pc \in LockedPcs \ {"row"} => proc[h].pc \in LockedPcs \ {"row"},
           projection'.snap = projection.snap, presentation'.readme = presentation.readme, Settled'
    PROVE  InTurn'
  <1>1. proc[h].pc # "idle" /\ proc[h].pc \in PastPcs /\ l.pc \in PastPcs
        /\ l.pc # "release" /\ proc[h].pc # "release" /\ l.pc # "apply_published"
    BY PastPcsFacts
  <1>2. l.pc \in LockedPcs \ {"row"} => proc[h].row = projection.snap
    BY <1>1, FaithfulNow DEF Faithful
  <1> QED BY <1>1, <1>2, PastTurn DEF Keeps

\* The steps of the lock, of the GitHub calls and of their failures leave
\* both rows alone.
LEMMA PublishTurn ==
    ASSUME TypeOK, InTurn, OneAtATime, OneAtATime', NEW h \in Handlers,
           \/ Lock(h) \/ ReadRow(h) \/ AcquirePublishLease(h) \/ GetReadme(h) \/ GetPreviews(h)
           \/ PutLight(h) \/ PutDark(h) \/ PutReadme(h)
           \/ VerifyReadme(h) \/ VerifyLight(h) \/ VerifyDark(h)
    PROVE  InTurn'
  <1>0. proc[h] \in Locals
    BY LocalsOf
  <1>1. UNCHANGED <<projection, presentation, budget>>
    BY DEF Lock, ReadRow, AcquirePublishLease, GetReadme, GetPreviews, PutLight, PutDark, PutReadme,
           VerifyReadme, VerifyLight, VerifyDark, Verify, store, env
  <1>2. Settled' /\ projection'.snap = projection.snap /\ presentation'.readme = presentation.readme
    BY <1>1, RowsStay
  <1>3. proc[h].pc \in {"lock", "row", "lease", "readme", "previews", "light", "dark", "put_readme",
                        "verify_readme", "verify_light", "verify_dark"}
    BY DEF Lock, ReadRow, AcquirePublishLease, GetReadme, GetPreviews, PutLight, PutDark, PutReadme,
           VerifyReadme, VerifyLight, VerifyDark, Verify
  <1>4. proc[h].pc \in GoingPcs /\ proc[h].pc \in PastPcs
    BY <1>3, PastPcsFacts
  <1>5. ASSUME NEW cause, FailBefore(h, cause) \/ FailAfter(h, cause)
        PROVE  InTurn'
    BY <1>1, <1>4, <1>5, FailTurn
  <1>6. ASSUME NEW l, Become(h, l), Keeps(h, l), proc[h].pc \notin {"lock", "row"},
               l.pc \in GoingPcs
        PROVE  InTurn'
    <2>1. proc[h].pc \in LockedPcs \ {"row"}
      BY <1>3, <1>6 DEF LockedPcs, LeasePcs
    <2> QED BY <1>2, <1>4, <1>6, <2>1, GoTurn
  <1>7. ASSUME NEW pc, Goto(h, pc), pc \in GoingPcs, proc[h].pc \notin {"lock", "row"}
        PROVE  InTurn'
    <2>1. Become(h, [proc[h] EXCEPT !.pc = pc])
      BY <1>7 DEF Goto
    <2>2. Keeps(h, [proc[h] EXCEPT !.pc = pc]) /\ [proc[h] EXCEPT !.pc = pc].pc = pc
      BY <1>0, PcFields DEF Keeps
    <2> QED BY <1>6, <1>7, <2>1, <2>2
  <1>8. CASE Lock(h)
    <2>1. CASE Goto(h, "row")
      <3>1. Become(h, [proc[h] EXCEPT !.pc = "row"])
        BY <2>1 DEF Goto
      <3>2. Keeps(h, [proc[h] EXCEPT !.pc = "row"]) /\ [proc[h] EXCEPT !.pc = "row"].pc = "row"
        BY <1>0, PcFields DEF Keeps
      <3>3. "row" \in GoingPcs
        BY PastPcsFacts
      <3> QED BY <1>2, <1>4, <3>1, <3>2, <3>3, GoTurn
    <2> QED BY <1>5, <1>8, <2>1 DEF Lock
  <1>9. CASE ReadRow(h)
    <2>1. CASE Become(h, [proc[h] EXCEPT !.row = projection.snap, !.pc = "lease"])
      <3> DEFINE l == [proc[h] EXCEPT !.row = projection.snap, !.pc = "lease"]
      <3>1. l.op = proc[h].op /\ l.cand = proc[h].cand /\ l.row = projection.snap /\ l.pc = "lease"
        BY <1>0 DEF Locals
      <3>2. Become(h, l)
        BY <2>1
      <3> HIDE DEF l
      <3>3. l.pc \in GoingPcs /\ l.pc # "idle" /\ proc[h].pc # "idle"
        BY <3>1, <1>4, PastPcsFacts
      <3>4. Faithful(proc[h], projection.snap, presentation.readme)
        BY <3>3, FaithfulNow
      <3>5. /\ proc[h].op \in {"put", "work"} /\ projection.snap # NoSnap /\ proc[h].cand = projection.snap
            /\ MayShow(projection.snap, presentation.readme)
        BY <1>4, <3>4, PastPcsFacts DEF Faithful
      <3>6. Faithful(l, projection'.snap, presentation'.readme)
        BY <1>2, <3>1, <3>5 DEF Faithful
      <3> QED BY <1>2, <3>2, <3>3, <3>6, TurnStep
    <2> QED BY <1>5, <1>9, <2>1 DEF ReadRow
  <1>10. CASE AcquirePublishLease(h)
    <2>1. CASE Goto(h, "readme")
      BY <1>7, <1>10, <2>1, PastPcsFacts DEF AcquirePublishLease
    <2> QED BY <1>5, <1>10, <2>1 DEF AcquirePublishLease
  <1>11. CASE GetReadme(h)
    <2> DEFINE l(current) == [proc[h] EXCEPT !.readme = repo.readme, !.pc = "previews", !.current = current]
    <2>1. \A current : Keeps(h, l(current)) /\ l(current).pc = "previews"
      BY <1>0 DEF Locals, Keeps
    <2>2. PICK current : Become(h, l(current))
      BY <1>11 DEF GetReadme
    <2>3. proc[h].pc = "readme"
      BY <1>11 DEF GetReadme
    <2> HIDE DEF l
    <2> QED BY <1>6, <2>1, <2>2, <2>3, PastPcsFacts
  <1>12. CASE GetPreviews(h)
    <2> DEFINE l(pc, current) == [proc[h] EXCEPT !.pc = pc, !.current = current]
    <2>1. \A pc, current : Keeps(h, l(pc, current)) /\ l(pc, current).pc = pc
      BY <1>0 DEF Locals, Keeps
    <2>2. PICK pc, current : Become(h, l(pc, current)) /\ pc \in {"save", "light"}
      BY <1>12 DEF GetPreviews
    <2>3. proc[h].pc = "previews"
      BY <1>12 DEF GetPreviews
    <2> HIDE DEF l
    <2> QED BY <1>6, <2>1, <2>2, <2>3, PastPcsFacts
  <1>13. CASE PutLight(h) \/ PutDark(h)
    BY <1>7, <1>13, PastPcsFacts DEF PutLight, PutDark
  <1>14. CASE PutReadme(h)
    <2> DEFINE l == [proc[h] EXCEPT !.pc = "verify_readme", !.readme = Idle.readme]
    <2>1. Keeps(h, l) /\ l.pc = "verify_readme"
      BY <1>0 DEF Locals, Keeps
    <2>2. Become(h, l) \/ FailAfter(h, "conflict")
      BY <1>14 DEF PutReadme
    <2>3. proc[h].pc = "put_readme"
      BY <1>14 DEF PutReadme
    <2> HIDE DEF l
    <2> QED BY <1>5, <1>6, <2>1, <2>2, <2>3, PastPcsFacts
  <1>15. CASE VerifyReadme(h) \/ VerifyLight(h) \/ VerifyDark(h)
    <2>1. (\E pc \in {"verify_light", "verify_dark", "save"} : Goto(h, pc)) \/ FailAfter(h, "github_verify")
      BY <1>15 DEF VerifyReadme, VerifyLight, VerifyDark, Verify
    <2>2. proc[h].pc \notin {"lock", "row"}
      BY <1>15 DEF VerifyReadme, VerifyLight, VerifyDark, Verify
    <2> QED BY <1>5, <1>7, <2>1, <2>2, PastPcsFacts
  <1> QED BY <1>8, <1>9, <1>10, <1>11, <1>12, <1>13, <1>14, <1>15

\* The presentation takes the palette and the previews; the stamp stays.
LEMMA SaveTurn ==
    ASSUME TypeOK, InTurn, OneAtATime, OneAtATime', NEW h \in Handlers, SavePresentation(h)
    PROVE  InTurn'
  <1>1. proc[h] \in Locals /\ proc[h].pc = "save" /\ Become(h, [proc[h] EXCEPT !.pc = "stamp"])
        /\ UNCHANGED <<projection, budget>>
    BY LocalsOf DEF SavePresentation, Goto, env
  <1>2. presentation'.readme = presentation.readme /\ presentation'.known = presentation.known
    BY DEF SavePresentation, TypeOK, PresentationOK
  <1>3. Keeps(h, [proc[h] EXCEPT !.pc = "stamp"]) /\ [proc[h] EXCEPT !.pc = "stamp"].pc = "stamp"
    BY <1>1, PcFields DEF Keeps
  <1>4. Settled'
    BY <1>1, <1>2, SettledStays DEF InTurn
  <1>5. proc[h].pc \in LockedPcs \ {"row"}
    BY <1>1 DEF LockedPcs, LeasePcs
  <1> QED BY <1>1, <1>2, <1>3, <1>4, <1>5, GoTurn, PastPcsFacts

\* The stamp takes the snapshot of the row, which is the stored one.
LEMMA StampTurn ==
    ASSUME TypeOK, InTurn, OneAtATime, OneAtATime', NEW h \in Handlers, MarkReadmeVerified(h)
    PROVE  /\ InTurn'
           /\ presentation'.readme # presentation.readme =>
                /\ presentation'.readme = projection.snap /\ projection.snap # NoSnap
                /\ MayShow(projection.snap, presentation.readme)
  <1> DEFINE l == [proc[h] EXCEPT !.pc = "apply_published"]
  <1>1. proc[h] \in Locals /\ proc[h].pc = "stamp" /\ UNCHANGED <<projection, budget>>
    BY LocalsOf DEF MarkReadmeVerified, env
  <1>2. Keeps(h, l) /\ l.pc = "apply_published"
    BY <1>1, PcFields DEF Keeps
  <1>3. proc[h].pc \in GoingPcs /\ proc[h].pc \in PastPcs /\ proc[h].pc \in LockedPcs \ {"row", "release"}
    BY <1>1, PastPcsFacts DEF LockedPcs, LeasePcs
  <1>4. /\ proc[h].row = projection.snap /\ projection.snap # NoSnap
        /\ MayShow(projection.snap, presentation.readme)
    BY <1>1, <1>3, FaithfulNow, PastPcsFacts DEF Faithful
  <1>5. l.pc \in PastPcs \ GoingPcs
    BY <1>2, PastPcsFacts DEF PastPcs
  <1>6. CASE MayStamp(h)
    <2>1. presentation'.readme = proc[h].row /\ presentation'.known = TRUE
      BY <1>6 DEF MarkReadmeVerified, TypeOK, PresentationOK
    <2>2. Settled'
      BY <1>1, <1>4, <2>1 DEF InTurn, Settled
    <2>3. {g \in Handlers \ {h} : Publishing(g)} = {}
      <3>1. "idle" \notin LeasePcs
        BY DEF LeasePcs
      <3> QED BY <1>1, <3>1 DEF OneAtATime, Publishing
    <2>4. proc' = [g \in Handlers |-> IF g = h THEN l ELSE proc[g]]
      BY <1>6, <2>3 DEF MarkReadmeVerified
    <2>5. Become(h, l)
      BY <2>4 DEF Become, TypeOK, ProcOK
    <2> HIDE DEF l
    <2>6. presentation'.readme = projection.snap /\ projection'.snap = projection.snap
          /\ l.row = projection.snap /\ l.pc \in PastPcs /\ l.pc \notin GoingPcs
      BY <1>1, <1>2, <1>4, <1>5, <2>1 DEF Keeps
    <2>7. InTurn'
      BY <1>2, <1>3, <2>2, <2>5, <2>6, PastTurn
    <2> QED BY <1>4, <2>1, <2>7
  <1>7. CASE ~MayStamp(h) /\ presentation.readme = proc[h].row /\ presentation.known
    <2>1. Become(h, l) /\ UNCHANGED presentation
      BY <1>7 DEF MarkReadmeVerified, Goto
    <2>2. Settled' /\ projection'.snap = projection.snap
      BY <1>1, <2>1, RowsStay
    <2> HIDE DEF l
    <2>3. presentation'.readme = projection.snap
          /\ l.row = projection.snap /\ l.pc \in PastPcs /\ l.pc \notin GoingPcs
      BY <1>2, <1>4, <1>5, <1>7, <2>1 DEF Keeps
    <2>4. InTurn'
      BY <1>2, <1>3, <2>1, <2>2, <2>3, PastTurn
    <2> QED BY <2>1, <2>4
  <1>8. CASE ~MayStamp(h) /\ ~(presentation.readme = proc[h].row /\ presentation.known)
    <2>1. FailAfter(h, "github_write") /\ UNCHANGED presentation
      BY <1>8 DEF MarkReadmeVerified
    <2>2. InTurn'
      BY <1>1, <1>3, <2>1, FailTurn
    <2> QED BY <2>1, <2>2
  <1> QED BY <1>6, <1>7, <1>8

LEMMA AppliedSettled ==
    ASSUME TypeOK, InTurn, projection' = Applied(projection, projection.snap),
           UNCHANGED presentation, budget'.misses = budget.misses
    PROVE  Settled' /\ projection'.snap = projection.snap
  <1>1. projection \in Rows
    BY DEF TypeOK, ProjectionOK
  <1>2. /\ projection'.snap = projection.snap /\ projection'.desired = projection.desired
        /\ projection'.reason # "theme"
    BY <1>1, AppliedFields DEF InTurn
  <1> QED BY <1>2 DEF InTurn, Settled

\* The intent is applied for the stamped snapshot.
LEMMA AppliedTurn ==
    ASSUME TypeOK, InTurn, OneAtATime, OneAtATime', NEW h \in Handlers,
           SetReadmeApplied(h) \/ LateStoreFault(h)
    PROVE  /\ InTurn' /\ UNCHANGED presentation
           /\ projection'.status # projection.status => presentation.readme = projection'.desired
  <1> DEFINE l == [proc[h] EXCEPT !.pc = "release", !.current = FALSE]
             m == [proc[h] EXCEPT !.pc = "release", !.cause = "github_write", !.raised = "github_write"]
  <1>0. proc[h] \in Locals /\ proc[h].pc = "apply_published" /\ UNCHANGED presentation
        /\ budget'.misses = budget.misses /\ projection \in Rows
    BY LocalsOf, Spent DEF SetReadmeApplied, LateStoreFault, env, TypeOK, ProjectionOK
  <1>1. Keeps(h, l) /\ l.pc = "release" /\ Keeps(h, m) /\ m.pc = "release"
    BY <1>0 DEF Locals, Keeps
  <1>2. Become(h, l) \/ Become(h, m)
    BY DEF SetReadmeApplied, LateStoreFault
  <1>3. proc[h].pc \in PastPcs /\ "release" \in PastPcs \ GoingPcs
    BY <1>0, PastPcsFacts DEF PastPcs
  <1>4. proc[h].row = projection.snap /\ presentation.readme = projection.snap
        /\ projection.desired = projection.snap
    <2>1. proc[h].pc \in LockedPcs \ {"row", "release"} /\ proc[h].pc # "idle"
      BY <1>0 DEF LockedPcs, LeasePcs
    <2> QED BY <1>0, <2>1, FaithfulNow DEF Faithful, InTurn
  <1>5. UNCHANGED projection \/ projection' = Applied(projection, projection.snap)
    BY <1>4 DEF SetReadmeApplied, LateStoreFault
  <1>6. Settled' /\ projection'.snap = projection.snap
    BY <1>0, <1>5, AppliedSettled, RowsStay
  <1>7. projection'.status # projection.status => presentation.readme = projection'.desired
    <2>1. projection'.desired = projection.desired
      BY <1>0, <1>5, AppliedFields
    <2> QED BY <1>4, <2>1
  <1> HIDE DEF l, m
  <1>8. InTurn'
    BY <1>0, <1>1, <1>2, <1>3, <1>6, PastTurn
  <1> QED BY <1>0, <1>7, <1>8

\* A failure writes the intent of the snapshot that was decided on.
LEMMA EndTurn ==
    ASSUME TypeOK, InTurn, OneAtATime, OneAtATime', NEW h \in Handlers,
           Release(h) \/ NotePublishFailure(h)
    PROVE  InTurn'
  <1>0. proc[h] \in Locals /\ projection \in Rows
    BY LocalsOf DEF TypeOK, ProjectionOK
  <1>1. CASE Release(h)
    <2>1. UNCHANGED <<projection, presentation, budget>> /\ proc[h].pc = "release"
      BY <1>1 DEF Release, env
    <2>2. proc[h].pc \in PastPcs /\ proc[h].pc # "idle"
      BY <2>1 DEF PastPcs
    <2>3. proc[h].op \in {"put", "work"}
      BY <2>2, FaithfulNow DEF Faithful
    <2>4. CASE Finish(h)
      BY <2>1, <2>2, <2>4, Finished, RowsStay
    <2>5. CASE Goto(h, "note")
      <3>1. Become(h, [proc[h] EXCEPT !.pc = "note"])
        BY <2>5 DEF Goto
      <3>2. Keeps(h, [proc[h] EXCEPT !.pc = "note"]) /\ [proc[h] EXCEPT !.pc = "note"].pc = "note"
        BY <1>0, PcFields DEF Keeps
      <3>3. "note" \in PastPcs \ GoingPcs /\ "note" \notin LockedPcs
        BY PastPcsFacts DEF PastPcs
      <3> QED BY <2>1, <2>2, <3>1, <3>2, <3>3, RowsStay, PastTurn
    <2> QED BY <1>1, <2>3, <2>4, <2>5 DEF Release
  <1>2. CASE NotePublishFailure(h)
    <2>1. UNCHANGED <<presentation, budget>> /\ proc[h].pc = "note" /\ Finish(h)
      BY <1>2 DEF NotePublishFailure, env
    <2>2. proc[h].pc \in PastPcs
      BY <2>1 DEF PastPcs
    <2>3. proc[h].op \in {"put", "work"} /\ proc[h].cand = projection.snap
      BY <2>1, <2>2, FaithfulNow, PastPcsFacts DEF Faithful
    <2>4. \E status, palette, due, retry :
            projection' = Intent(projection, proc[h].cand, status, "usage", palette, due, retry)
      BY <1>2, <2>3 DEF NotePublishFailure
    <2>5. projection'.snap = projection.snap /\ projection'.desired = projection.snap
          /\ projection'.reason # "theme"
      BY <1>0, <2>3, <2>4, IntentFields
    <2>6. Settled'
      BY <2>1, <2>5, SettledStays
    <2> QED BY <2>1, <2>6, Finished
  <1> QED BY <1>1, <1>2

LEMMA FaultTurn ==
    ASSUME TypeOK, InTurn, OneAtATime, OneAtATime', NEW h \in Handlers, Fault(h), ~LateStoreFault(h)
    PROVE  InTurn' /\ UNCHANGED <<projection, presentation>>
  <1>1. UNCHANGED <<projection, presentation>> /\ CanSpend("faults") /\ Spend("faults")
    BY DEF Fault, ReadFault, WriteFault, VerifyFault, StoreFault
  <1>2. proc[h].pc \in {"row", "lease", "readme", "previews", "light", "dark", "put_readme", "verify_readme",
                        "verify_light", "verify_dark", "save", "stamp"}
    BY DEF Fault, ReadFault, WriteFault, VerifyFault, StoreFault
  <1>3. PICK cause : FailBefore(h, cause) \/ FailAfter(h, cause)
    BY DEF Fault, ReadFault, WriteFault, VerifyFault, StoreFault
  <1>4. proc[h].pc \in PastPcs
    BY <1>2, PastPcsFacts
  <1>5. budget'.misses = budget.misses
    BY <1>1, Spent
  <1> QED BY <1>1, <1>3, <1>4, <1>5, FailTurn

-----------------------------------------------------------------------------
\* What a handler asks while nothing but a usage change is considered.
LEMMA AskedAlone ==
    ASSUME TypeOK, InTurn, NEW h \in Handlers, proc[h].pc = "decide"
    PROVE  /\ GateInput(h) = Question(projection.snap, ProvenWall(presentation.readme),
                                      PendingIntent(projection), day.today, day.closing, FALSE,
                                      proc[h].op = "work")
           /\ PendingIntent(projection).snap = projection.snap
           /\ PendingIntent(projection).failed \in BOOLEAN
           /\ day.today \in 1..MaxDay /\ day.closing \in BOOLEAN
           /\ proc[h].op \in {"put", "work"} /\ proc[h].cand = projection.snap
           /\ projection.snap # NoSnap
           /\ proc[h].wall = ProvenWall(presentation.readme)
  <1>1. /\ proc[h].op \in {"put", "work"} /\ proc[h].cand = projection.snap
        /\ projection.snap # NoSnap /\ proc[h].wall = ProvenWall(presentation.readme)
    BY FaithfulNow DEF Faithful
  <1>2. (proc[h].op = "theme") = FALSE
    BY <1>1
  <1>3. PendingIntent(projection).snap = projection.snap /\ PendingIntent(projection).failed \in BOOLEAN
    BY DEF PendingIntent, InTurn
  <1>4. day.today \in 1..MaxDay /\ day.closing \in BOOLEAN
    BY DEF TypeOK, EnvOK
  <1>5. PICK pending : pending = PendingIntent(projection)
    OBVIOUS
  <1>6. GateInput(h) = Question(projection.snap, ProvenWall(presentation.readme), pending,
                                day.today, day.closing, FALSE, proc[h].op = "work")
    BY <1>1, <1>2, <1>5, Zenon DEF GateInput, Question
  <1> QED BY <1>1, <1>3, <1>4, <1>5, <1>6

\* Where a decision leads.
LEMMA DecidedLocals ==
    ASSUME TypeOK, InTurn, NEW h \in Handlers, proc[h].pc = "decide",
           NEW l, l = Decided(h, GateInput(h))
    PROVE  l.pc = "idle" \/ Faithful(l, projection.snap, presentation.readme)
  <1>0. proc[h] \in Locals
    BY LocalsOf
  <1> DEFINE proceed(pc) == [proc[h] EXCEPT !.pc = pc, !.wall = NoWall]
             write(i) == [proceed("intent") EXCEPT !.intent = i]
             decision == DecidePublication(GateInput(h))
             row(status, reason, due) ==
               Intent(NoProjection, proc[h].cand, status, reason, NoPalette, due, 0)
  <1>1. /\ \A pc : proceed(pc).pc = pc /\ proceed(pc).op = proc[h].op /\ proceed(pc).cand = proc[h].cand
        /\ \A i : write(i).pc = "intent" /\ write(i).op = proc[h].op /\ write(i).cand = proc[h].cand
                  /\ write(i).intent = i
    BY <1>0 DEF Locals
  <1>2. NoProjection \in Rows
    BY NoProjectionOK
  <1>3. \A status, reason, due : /\ row(status, reason, due).desired = proc[h].cand
                                 /\ row(status, reason, due).status = status
                                 /\ row(status, reason, due).reason = reason
    BY <1>2, IntentFields
  <1>4. decision.action = "BLOCKED" => decision.reason # "theme"
    BY DEF DecidePublication, Decision
  <1>5. l = CASE decision.action = "PUBLISH_NOW" -> proceed("pick_palette")
              [] decision.action = "RETRY_PENDING" -> proceed("coalesce")
              [] decision.action = "WAIT_UNTIL" -> write(row("pending", "cooldown", "midnight"))
              [] decision.action = "BLOCKED" /\ decision.reason # "unknown_verified" ->
                   write(row("blocked_data", decision.reason, "none"))
              [] decision.action = "NO_CHANGE" /\ proc[h].cand = proc[h].wall.snap ->
                   proceed("apply_same")
              [] OTHER -> Idle
    BY Zenon DEF Decided
  <1> HIDE DEF proceed, write, decision, row
  <1>6. \/ l = proceed("pick_palette") /\ decision.action = "PUBLISH_NOW"
        \/ l = proceed("coalesce")
        \/ l = write(row("pending", "cooldown", "midnight"))
        \/ l = write(row("blocked_data", decision.reason, "none")) /\ decision.action = "BLOCKED"
        \/ l = proceed("apply_same") /\ proc[h].cand = proc[h].wall.snap
        \/ l = Idle
    BY <1>5
  <1>7. /\ proc[h].op \in {"put", "work"} /\ proc[h].cand = projection.snap /\ projection.snap # NoSnap
        /\ proc[h].wall = ProvenWall(presentation.readme)
    BY AskedAlone
  <1>8. decision.action = "PUBLISH_NOW" => MayShow(projection.snap, presentation.readme)
    <2>1. PICK p : p = PendingIntent(projection)
      OBVIOUS
    <2>2. PICK work \in BOOLEAN : work = (proc[h].op = "work")
      OBVIOUS
    <2>3. GateInput(h) = Question(projection.snap, ProvenWall(presentation.readme), p, day.today,
                                  day.closing, FALSE, work)
          /\ p.snap = projection.snap /\ p.failed \in BOOLEAN
          /\ day.today \in 1..MaxDay /\ day.closing \in BOOLEAN
      BY <2>1, <2>2, AskedAlone
    <2> QED BY <2>3, DecisionMayShow DEF decision
  <1>9. CASE l = proceed("pick_palette") /\ decision.action = "PUBLISH_NOW"
    <2>1. l.pc = "pick_palette" /\ l.op = proc[h].op /\ l.cand = proc[h].cand
      BY <1>1, <1>9
    <2> QED BY <1>7, <1>8, <1>9, <2>1, PastPcsFacts DEF Faithful
  <1>10. CASE l = proceed("coalesce")
    <2>1. l.pc = "coalesce" /\ l.op = proc[h].op /\ l.cand = proc[h].cand
      BY <1>1, <1>10
    <2> QED BY <1>7, <2>1 DEF Faithful, GoingPcs, LockedPcs, LeasePcs
  <1>11. ASSUME NEW status \in {"pending", "blocked_data"}, NEW reason, NEW due, reason # "theme",
                l = write(row(status, reason, due))
         PROVE  Faithful(l, projection.snap, presentation.readme)
    <2>1. l.pc = "intent" /\ l.op = proc[h].op /\ l.cand = proc[h].cand
          /\ l.intent.desired = proc[h].cand /\ l.intent.status = status /\ l.intent.reason = reason
      BY <1>1, <1>3, <1>11
    <2> QED BY <1>7, <1>11, <2>1 DEF Faithful, GoingPcs, LockedPcs, LeasePcs
  <1>12. CASE l = proceed("apply_same") /\ proc[h].cand = proc[h].wall.snap
    <2>1. l.pc = "apply_same" /\ l.op = proc[h].op /\ l.cand = proc[h].cand
      BY <1>1, <1>12
    <2>2. presentation.readme = projection.snap
      BY <1>7, <1>12 DEF ProvenWall, NoWall
    <2> QED BY <1>7, <2>1, <2>2 DEF Faithful, GoingPcs, LockedPcs, LeasePcs
  <1>13. CASE l = Idle
    <2>1. Idle.pc = "idle"
      BY DEF Idle
    <2> QED BY <1>13, <2>1
  <1>14. CASE l = write(row("pending", "cooldown", "midnight"))
    <2>1. Faithful(l, projection.snap, presentation.readme)
      BY <1>11, <1>14
    <2> QED BY <2>1
  <1>15. CASE l = write(row("blocked_data", decision.reason, "none")) /\ decision.action = "BLOCKED"
    <2>1. Faithful(l, projection.snap, presentation.readme)
      BY <1>4, <1>11, <1>15
    <2> QED BY <2>1
  <1> QED BY <1>6, <1>9, <1>10, <1>12, <1>13, <1>14, <1>15

\* The steps of a decision read the rows and leave them.
LEMMA DecisionTurn ==
    ASSUME TypeOK, InTurn, OneAtATime, OneAtATime', NEW h \in Handlers,
           ReadWall(h) \/ Decide(h) \/ CoalesceRead(h) \/ PickPalette(h) \/ WorkRow(h) \/ WorkerTick(h)
    PROVE  InTurn'
  <1>0. proc[h] \in Locals
    BY LocalsOf
  <1>1. UNCHANGED <<projection, presentation, budget>>
    BY DEF ReadWall, Decide, CoalesceRead, PickPalette, WorkRow, WorkerTick, store, env
  <1>2. Settled' /\ projection'.snap = projection.snap /\ presentation'.readme = presentation.readme
    BY <1>1, RowsStay
  <1>3. ASSUME NEW l, Become(h, l), proc[h].pc # "idle" \/ l.pc # "idle",
               l.pc = "idle" \/ Faithful(l, projection.snap, presentation.readme)
        PROVE  InTurn'
    BY <1>2, <1>3, TurnStep
  <1>4. CASE ReadWall(h)
    <2> DEFINE l == [proc[h] EXCEPT !.wall = VerifiedWall(presentation), !.pc = "decide"]
    <2>1. Become(h, l) /\ proc[h].pc = "read_wall"
      BY <1>4 DEF ReadWall
    <2>2. l.pc = "decide" /\ l.op = proc[h].op /\ l.cand = proc[h].cand /\ l.wall = VerifiedWall(presentation)
      BY <1>0 DEF Locals
    <2>3. VerifiedWall(presentation) = ProvenWall(presentation.readme)
      BY DEF InTurn, VerifiedWall, ProvenWall
    <2> HIDE DEF l
    <2>4. Faithful(l, projection.snap, presentation.readme)
      BY <2>1, <2>2, <2>3, FaithfulNow DEF Faithful, GoingPcs, LockedPcs, LeasePcs
    <2> QED BY <1>3, <2>1, <2>4
  <1>5. CASE Decide(h)
    <2>1. proc[h].pc = "decide" /\ Become(h, Decided(h, GateInput(h)))
      BY <1>5 DEF Decide
    <2> QED BY <1>3, <2>1, DecidedLocals
  <1>6. CASE CoalesceRead(h)
    <2> DEFINE i == Intent(NoProjection, proc[h].cand, "failed", "retry", NoPalette,
                           projection.due, projection.retry)
               l == [proc[h] EXCEPT !.pc = "intent", !.intent = i]
    <2>1. Become(h, l) /\ proc[h].pc = "coalesce"
      BY <1>6 DEF CoalesceRead, InTurn
    <2>2. i.desired = proc[h].cand /\ i.status = "failed" /\ i.reason = "retry"
      BY NoProjectionOK, IntentFields
    <2> HIDE DEF i
    <2>3. l.pc = "intent" /\ l.op = proc[h].op /\ l.cand = proc[h].cand /\ l.intent = i
      BY <1>0 DEF Locals
    <2> HIDE DEF l
    <2>4. Faithful(l, projection.snap, presentation.readme)
      BY <2>1, <2>2, <2>3, FaithfulNow DEF Faithful, GoingPcs, LockedPcs, LeasePcs
    <2> QED BY <1>3, <2>1, <2>4
  <1>7. CASE PickPalette(h)
    <2> DEFINE l == [proc[h] EXCEPT !.palette = UsagePalette(presentation), !.pc = "announce"]
    <2>1. Become(h, l) /\ proc[h].pc = "pick_palette"
      BY <1>7 DEF PickPalette
    <2>2. Keeps(h, l) /\ l.pc = "announce"
      BY <1>0 DEF Locals, Keeps
    <2> HIDE DEF l
    <2> QED BY <1>2, <2>1, <2>2, GoTurn, PastPcsFacts
  <1>8. CASE WorkRow(h)
    <2> DEFINE l == [proc[h] EXCEPT !.cand = projection.snap, !.op = "work", !.palette = NoPalette,
                                    !.pc = "read_wall"]
    <2>1. Become(h, l) /\ proc[h].pc = "work_row"
      BY <1>8 DEF WorkRow, InTurn
    <2>2. l.pc = "read_wall" /\ l.op = "work" /\ l.cand = projection.snap
      BY <1>0 DEF Locals
    <2> HIDE DEF l
    <2>3. Faithful(l, projection.snap, presentation.readme)
      BY <2>1, <2>2, FaithfulNow DEF Faithful, GoingPcs, LockedPcs, LeasePcs
    <2> QED BY <1>3, <2>1, <2>3
  <1>9. CASE WorkerTick(h)
    <2> DEFINE l == [Idle EXCEPT !.pc = "work_row", !.op = "work"]
    <2>1. Become(h, l) /\ projection.snap # NoSnap
      BY <1>9 DEF WorkerTick, Due
    <2>2. l.pc = "work_row" /\ l.op = "work"
      BY DEF Idle
    <2> HIDE DEF l
    <2>3. Faithful(l, projection.snap, presentation.readme)
      BY <2>1, <2>2 DEF Faithful, GoingPcs, LockedPcs, LeasePcs
    <2> QED BY <1>3, <2>1, <2>2, <2>3
  <1> QED BY <1>1, <1>4, <1>5, <1>6, <1>7, <1>8, <1>9

\* The steps that write an intent: it is the stored snapshot's, and only one
\* that finds the same snapshot verified applies it.
LEMMA IntentTurn ==
    ASSUME TypeOK, InTurn, OneAtATime, OneAtATime', NEW h \in Handlers,
           ApplySame(h) \/ WriteIntent(h) \/ Announce(h) \/ Unconfigured(h)
    PROVE  /\ InTurn' /\ UNCHANGED presentation /\ projection'.snap = projection.snap
           /\ projection'.status = "applied" /\ projection.status # "applied" =>
                presentation.readme = projection'.desired
  <1>0. proc[h] \in Locals /\ projection \in Rows
    BY LocalsOf DEF TypeOK, ProjectionOK
  <1>1. UNCHANGED <<presentation, budget>> /\ proc[h].pc \in {"apply_same", "intent", "announce", "unconfigured"}
    BY DEF ApplySame, WriteIntent, Announce, Unconfigured, env
  <1>2. proc[h].cand = projection.snap /\ proc[h].pc # "idle"
    BY <1>1, FaithfulNow DEF Faithful
  <1>3. CASE ApplySame(h)
    <2>1. presentation.readme = projection.snap
      BY <1>2, <1>3, FaithfulNow DEF Faithful, ApplySame
    <2>2. Finish(h) /\ projection' = Applied(projection, projection.snap)
      BY <1>2, <1>3 DEF ApplySame
    <2>3. Settled' /\ projection'.snap = projection.snap
      BY <1>1, <2>2, AppliedSettled
    <2>4. InTurn'
      BY <1>2, <2>2, <2>3, Finished
    <2>5. projection'.desired = projection.snap
      BY <1>0, <2>2, AppliedFields DEF InTurn
    <2> QED BY <1>1, <2>1, <2>3, <2>4, <2>5
  <1>4. ASSUME NEW status, NEW reason, NEW palette, NEW due, NEW retry,
               projection' = Intent(projection, projection.snap, status, reason, palette, due, retry),
               reason # "theme", status # "applied"
        PROVE  Settled' /\ projection'.snap = projection.snap /\ projection'.status # "applied"
    <2>1. /\ projection'.snap = projection.snap /\ projection'.desired = projection.snap
          /\ projection'.reason # "theme" /\ projection'.status # "applied"
      BY <1>0, <1>4, IntentFields
    <2> QED BY <1>1, <2>1, SettledStays
  <1>5. CASE WriteIntent(h)
    <2>1. PICK i : i = proc[h].intent
      OBVIOUS
    <2>2. i.desired = projection.snap /\ i.status # "applied" /\ i.reason # "theme"
      BY <1>2, <1>5, <2>1, FaithfulNow DEF Faithful, WriteIntent
    <2>3. /\ projection' = Intent(projection, projection.snap, i.status, i.reason, i.palette, i.due, i.retry)
          /\ Finish(h)
      BY <1>5, <2>1, <2>2 DEF WriteIntent
    <2>4. Settled' /\ projection'.snap = projection.snap /\ projection'.status # "applied"
      BY <1>4, <2>2, <2>3
    <2>5. InTurn'
      BY <1>2, <2>3, <2>4, Finished
    <2> QED BY <1>1, <2>4, <2>5
  <1>6. CASE Unconfigured(h)
    <2>1. \E retry : projection' = Intent(projection, projection.snap, "failed", "usage", NoPalette,
                                          "none", retry)
      BY <1>2, <1>6 DEF Unconfigured
    <2>2. Settled' /\ projection'.snap = projection.snap /\ projection'.status # "applied"
      BY <1>4, <2>1
    <2>3. InTurn'
      BY <1>2, <1>6, <2>2, Finished DEF Unconfigured
    <2> QED BY <1>1, <2>2, <2>3
  <1>7. CASE Announce(h)
    <2>1. \E retry : projection' = Intent(projection, projection.snap, "pending", "usage", NoPalette,
                                          "now", retry)
      BY <1>2, <1>7 DEF Announce
    <2>2. Settled' /\ projection'.snap = projection.snap /\ projection'.status # "applied"
      BY <1>4, <2>1
    <2>3. PICK pc \in {"unconfigured", "lock"} : Become(h, [proc[h] EXCEPT !.pc = pc])
      BY <1>7 DEF Announce, Goto
    <2> DEFINE l == [proc[h] EXCEPT !.pc = pc]
    <2>4. Keeps(h, l) /\ l.pc = pc
      BY <1>0, PcFields DEF Keeps
    <2>5. proc[h].pc \in GoingPcs /\ l.pc \in PastPcs /\ l.pc \notin LockedPcs
          /\ l.pc # "apply_published" /\ proc[h].pc \in PastPcs
      BY <1>7, <2>4, PastPcsFacts DEF PastPcs, Announce
    <2> HIDE DEF l
    <2>6. Become(h, l)
      BY <2>3 DEF l
    <2>7. InTurn'
      BY <1>1, <2>2, <2>4, <2>5, <2>6, PastTurn
    <2> QED BY <1>1, <2>2, <2>7
  <1> QED BY <1>3, <1>5, <1>6, <1>7

\* Without owners, nothing else of Consider and Publish can run.
LEMMA NoOwnerSteps ==
    ASSUME Owners = {}, TypeOK, InTurn, NEW h \in Handlers
    PROVE  /\ ~ThemeRow(h) /\ ~ThemeDecide(h) /\ ~NoteRow(h)
           /\ \A palette : ~ReceiveTheme(h, palette) /\ ~ReceiveRetry(h, palette)
  <1>1. proc[h].pc \notin {"theme_row", "theme_decide", "note_row"}
    BY FaithfulNow DEF Faithful
  <1> QED BY <1>1 DEF ThemeRow, ThemeDecide, NoteRow, ReceiveTheme, ReceiveRetry

\* Processes and clients that go take their requests with them.
LEMMA LostTurn ==
    ASSUME TypeOK, InTurn, NEW hs \in SUBSET Handlers, Gone(hs),
           UNCHANGED <<projection, presentation>>, budget'.misses = budget.misses
    PROVE  InTurn'
  <1>1. Idle.pc = "idle"
    BY DEF Idle
  <1>2. \A g \in Handlers : proc'[g] = Idle \/ proc'[g] = proc[g]
    BY DEF Gone
  <1>3. Settled'
    BY RowsStay
  <1>4. \A g \in Handlers : proc'[g].pc # "idle" =>
          Faithful(proc'[g], projection'.snap, presentation'.readme)
    BY <1>1, <1>2 DEF InTurn
  <1> QED BY <1>3, <1>4 DEF InTurn, Settled

LEMMA LossTurn ==
    ASSUME TypeOK, InTurn,
           (\E h \in Handlers : ClientGone(h)) \/ (\E s \in Servers : Restart(s))
    PROVE  InTurn' /\ UNCHANGED <<projection, presentation>>
  <1>1. ASSUME NEW h \in Handlers, ClientGone(h)
        PROVE  InTurn' /\ UNCHANGED <<projection, presentation>>
    <2>1. Gone({h}) /\ UNCHANGED <<projection, presentation>> /\ budget'.misses = budget.misses
      BY <1>1, Spent DEF ClientGone
    <2> QED BY <2>1, LostTurn
  <1>2. ASSUME NEW s \in Servers, Restart(s)
        PROVE  InTurn' /\ UNCHANGED <<projection, presentation>>
    <2> DEFINE hs == {h \in Handlers : ServerOf[h] = s}
    <2>1. Gone(hs) /\ projection' = projection /\ presentation' = Backfilled(presentation)
          /\ budget'.misses = budget.misses
      BY <1>2, Spent DEF Restart
    <2>2. Backfilled(presentation) = presentation
      BY DEF Backfilled, InTurn
    <2>3. hs \in SUBSET Handlers
      OBVIOUS
    <2> HIDE DEF hs
    <2> QED BY <2>1, <2>2, <2>3, LostTurn
  <1> QED BY <1>1, <1>2

\* Steps that leave the handlers and the rows alone.
LEMMA StillTurn ==
    ASSUME TypeOK, InTurn, UNCHANGED <<projection, presentation, proc>>, budget'.misses = budget.misses
    PROVE  InTurn'
  BY DEF InTurn

\* A due instant that is reached is nothing the promise reads.
LEMMA ReachTurn ==
    ASSUME TypeOK, InTurn, NEW due, Reach(due), UNCHANGED <<presentation>>,
           budget'.misses = budget.misses
    PROVE  /\ InTurn' /\ projection'.snap = projection.snap /\ projection'.status = projection.status
  <1>0. projection \in Rows /\ \A g \in Handlers : proc[g] \in Locals
    BY LocalsOf DEF TypeOK, ProjectionOK
  <1>1. PICK d : projection' = [projection EXCEPT !.due = d]
    BY DEF Reach
  <1>2. /\ projection'.snap = projection.snap /\ projection'.desired = projection.desired
        /\ projection'.reason = projection.reason /\ projection'.status = projection.status
    BY <1>0, <1>1 DEF Rows
  <1>3. Settled'
    BY <1>2, SettledStays DEF InTurn
  <1>4. ASSUME NEW g \in Handlers, proc'[g].pc # "idle"
        PROVE  Faithful(proc'[g], projection'.snap, presentation'.readme)
    <2>1. PICK e : proc'[g] = [proc[g] EXCEPT !.intent.due = e]
      BY DEF Reach
    <2>2. PICK i : i = proc[g].intent /\ i \in Rows
      BY <1>0 DEF Locals
    <2>3. /\ proc'[g].pc = proc[g].pc /\ proc'[g].op = proc[g].op /\ proc'[g].cand = proc[g].cand
          /\ proc'[g].row = proc[g].row /\ proc'[g].wall = proc[g].wall
          /\ proc'[g].intent = [i EXCEPT !.due = e]
      BY <1>0, <2>1, <2>2 DEF Locals
    <2>4. [i EXCEPT !.due = e].desired = i.desired /\ [i EXCEPT !.due = e].status = i.status
          /\ [i EXCEPT !.due = e].reason = i.reason
      BY <2>2 DEF Rows
    <2>5. Faithful(proc[g], projection.snap, presentation.readme)
      BY <1>4, <2>3, FaithfulNow
    <2> QED BY <1>2, <2>2, <2>3, <2>4, <2>5 DEF Faithful
  <1> QED BY <1>2, <1>3, <1>4 DEF InTurn, Settled

-----------------------------------------------------------------------------
(* The promise, step by step. *)

\* The two registers of PublicWall move as it allows.
RegistersMove ==
    \/ projection'.snap = projection.snap /\ presentation'.readme = presentation.readme
    \/ /\ presentation'.readme = presentation.readme /\ projection'.snap \in Snapshots
       /\ projection.snap # NoSnap => /\ ShouldReplaceProjection(projection.snap, projection'.snap)
                                      /\ ~TokenRegressed(projection.snap, projection'.snap)
    \/ /\ projection'.snap = projection.snap /\ presentation'.readme = projection.snap
       /\ projection.snap # NoSnap /\ MayShow(projection.snap, presentation.readme)

\* An intent becomes applied for the snapshot that is stamped.
AppliedNow ==
    projection'.status = "applied" /\ projection.status # "applied"
      => presentation.readme = projection'.desired

LEMMA PutMoves ==
    ASSUME TypeOK, InTurn, NEW h \in Handlers,
           (\E d \in Devices : ReceivePut(h, d)) \/ PutRead(h) \/ PutSave(h)
    PROVE  RegistersMove /\ AppliedNow
  <1>1. CASE PutSave(h)
    <2>1. projection'.snap = proc[h].cand /\ projection'.status = projection.status
          /\ UNCHANGED presentation /\ proc[h].pc = "put_save"
      BY <1>1 DEF PutSave, TypeOK, ProjectionOK, Rows
    <2>2. /\ proc[h].cand \in Snapshots
          /\ projection.snap # NoSnap => /\ ShouldReplaceProjection(projection.snap, proc[h].cand)
                                         /\ ~TokenRegressed(projection.snap, proc[h].cand)
      BY <2>1, FaithfulNow DEF Faithful
    <2> QED BY <2>1, <2>2 DEF RegistersMove, AppliedNow
  <1>2. CASE ~PutSave(h)
    <2>1. UNCHANGED <<projection, presentation>>
      BY <1>2 DEF ReceivePut, PutRead, store
    <2> QED BY <2>1 DEF RegistersMove, AppliedNow
  <1> QED BY <1>1, <1>2

LEMMA NoteMoves ==
    ASSUME TypeOK, NEW h \in Handlers, NotePublishFailure(h)
    PROVE  RegistersMove /\ AppliedNow
  <1>1. projection \in Rows /\ UNCHANGED presentation
    BY DEF TypeOK, ProjectionOK, NotePublishFailure
  <1>2. NoteStatus(proc[h].cause) # "applied"
    BY DEF NoteStatus
  <1>3. \E desired, reason, palette, due, retry :
          projection' = Intent(projection, desired, NoteStatus(proc[h].cause), reason, palette, due, retry)
    BY DEF NotePublishFailure
  <1>4. projection'.snap = projection.snap /\ projection'.status # "applied"
    BY <1>1, <1>2, <1>3, IntentFields
  <1> QED BY <1>1, <1>4 DEF RegistersMove, AppliedNow

LEMMA HandlerTurn ==
    ASSUME Owners = {}, TypeOK, InTurn, OneAtATime, OneAtATime', NEW h \in Handlers,
           \/ Receive(h) \/ Consider(h) \/ Lock(h) \/ Publish(h) \/ WorkerTick(h)
           \/ Fault(h) \/ Miss(h) \/ ClientGone(h)
    PROVE  InTurn' /\ RegistersMove /\ AppliedNow
  <1>1. ASSUME UNCHANGED <<projection, presentation>>
        PROVE  RegistersMove /\ AppliedNow
    BY <1>1 DEF RegistersMove, AppliedNow
  <1>2. CASE (\E d \in Devices : ReceivePut(h, d)) \/ PutRead(h) \/ PutSave(h)
    BY <1>2, PutTurn, PutMoves
  <1>3. CASE ReadWall(h) \/ Decide(h) \/ CoalesceRead(h) \/ PickPalette(h) \/ WorkRow(h) \/ WorkerTick(h)
    <2>1. UNCHANGED <<projection, presentation>>
      BY <1>3 DEF ReadWall, Decide, CoalesceRead, PickPalette, WorkRow, WorkerTick, store
    <2> QED BY <1>1, <1>3, <2>1, DecisionTurn
  <1>4. CASE ApplySame(h) \/ WriteIntent(h) \/ Announce(h) \/ Unconfigured(h)
    BY <1>4, IntentTurn DEF RegistersMove, AppliedNow
  <1>5. CASE \/ Lock(h) \/ ReadRow(h) \/ AcquirePublishLease(h) \/ GetReadme(h) \/ GetPreviews(h)
             \/ PutLight(h) \/ PutDark(h) \/ PutReadme(h)
             \/ VerifyReadme(h) \/ VerifyLight(h) \/ VerifyDark(h)
    <2>1. UNCHANGED <<projection, presentation>>
      BY <1>5 DEF Lock, ReadRow, AcquirePublishLease, GetReadme, GetPreviews, PutLight, PutDark, PutReadme,
             VerifyReadme, VerifyLight, VerifyDark, Verify, store
    <2> QED BY <1>1, <1>5, <2>1, PublishTurn
  <1>6. CASE SavePresentation(h)
    <2>1. UNCHANGED projection /\ presentation'.readme = presentation.readme
      BY <1>6 DEF SavePresentation, TypeOK, PresentationOK
    <2> QED BY <1>6, <2>1, SaveTurn DEF RegistersMove, AppliedNow
  <1>7. CASE MarkReadmeVerified(h)
    <2>1. UNCHANGED projection
      BY <1>7 DEF MarkReadmeVerified
    <2> QED BY <1>7, <2>1, StampTurn DEF RegistersMove, AppliedNow
  <1>8. CASE SetReadmeApplied(h) \/ LateStoreFault(h)
    <2>1. projection \in Rows
      BY DEF TypeOK, ProjectionOK
    <2>2. projection'.snap = projection.snap
      BY <1>8, <2>1, AppliedFields DEF SetReadmeApplied, LateStoreFault
    <2> QED BY <1>8, <2>2, AppliedTurn DEF RegistersMove, AppliedNow
  <1>9. CASE Release(h)
    <2>1. UNCHANGED <<projection, presentation>>
      BY <1>9 DEF Release
    <2> QED BY <1>1, <1>9, <2>1, EndTurn
  <1>10. CASE NotePublishFailure(h)
    BY <1>10, EndTurn, NoteMoves
  <1>11. CASE Fault(h) /\ ~LateStoreFault(h)
    BY <1>1, <1>11, FaultTurn
  <1>12. CASE ClientGone(h)
    BY <1>1, <1>12, LossTurn
  <1>13. /\ ~ThemeRow(h) /\ ~ThemeDecide(h) /\ ~NoteRow(h) /\ ~Miss(h)
         /\ \A palette : ~ReceiveTheme(h, palette) /\ ~ReceiveRetry(h, palette)
    BY NoOwnerSteps, NoMiss
  <1> QED BY <1>2, <1>3, <1>4, <1>5, <1>6, <1>7, <1>8, <1>9, <1>10, <1>11, <1>12, <1>13
          DEF Receive, Consider, Publish

LEMMA TurnStays ==
    ASSUME Owners = {}, TypeOK, InTurn, OneAtATime, OneAtATime', [Next]_vars
    PROVE  InTurn' /\ RegistersMove /\ AppliedNow
  <1>1. ASSUME UNCHANGED <<projection, presentation>>
        PROVE  RegistersMove /\ AppliedNow
    BY <1>1 DEF RegistersMove, AppliedNow
  <1>2. CASE (\E d \in Devices : Scan(d)) \/ LastFourHours \/ LeaseLapse \/ OwnerCommit \/ UNCHANGED vars
    <2>1. UNCHANGED <<projection, presentation, proc>>
      BY <1>2 DEF Scan, LastFourHours, LeaseLapse, OwnerCommit, vars, store
    <2>2. budget'.misses = budget.misses
      BY <1>2, Spent DEF Scan, LastFourHours, LeaseLapse, OwnerCommit, vars, env
    <2> QED BY <1>1, <2>1, <2>2, StillTurn
  <1>3. CASE Midnight \/ DueReached
    <2>1. PICK due : Reach(due) /\ UNCHANGED presentation /\ budget'.misses = budget.misses
      BY <1>3 DEF Midnight, DueReached, env
    <2>2. InTurn' /\ projection'.snap = projection.snap /\ projection'.status = projection.status
      BY <2>1, ReachTurn
    <2> QED BY <2>1, <2>2 DEF RegistersMove, AppliedNow
  <1>4. CASE \E s \in Servers : Restart(s)
    BY <1>1, <1>4, LossTurn
  <1>5. ASSUME NEW h \in Handlers,
               \/ Receive(h) \/ Consider(h) \/ Lock(h) \/ Publish(h) \/ WorkerTick(h)
               \/ Fault(h) \/ Miss(h) \/ ClientGone(h)
        PROVE  InTurn' /\ RegistersMove /\ AppliedNow
    BY <1>5, HandlerTurn
  <1> QED BY <1>2, <1>3, <1>4, <1>5 DEF Next, Calendar, Rest

LEMMA TurnInit ==
    ASSUME ~LegacyWall, MaxMisses = 0, Init
    PROVE  InTurn /\ projection.snap = NoSnap /\ presentation.readme = NoSnap
  <1>1. projection = NoProjection /\ presentation = NoPresentation
    BY DEF Init, FreshStart, LegacyStart
  <1>2. NoProjection.snap = NoSnap /\ NoProjection.desired = NoSnap /\ NoPresentation.readme = NoSnap
    BY DEF NoProjection, NoPresentation
  <1>3. PICK none : none = ""
    OBVIOUS
  <1>4. NoProjection.reason = none /\ none # "theme"
    BY <1>3, Zenon DEF NoProjection
  <1>5. budget.misses = 0
    BY DEF Init
  <1>6. \A h \in Handlers : proc[h].pc = "idle"
    <2>1. Idle.pc = "idle"
      BY DEF Idle
    <2> QED BY <2>1 DEF Init
  <1> QED BY <1>1, <1>2, <1>4, <1>5, <1>6 DEF InTurn

\* While one request at a time is served, the invariant of that stays.
LEMMA TurnInvariant ==
    ASSUME Owners = {}, MaxMisses = 0, ~LegacyWall
    PROVE  Spec /\ []OneAtATime => [](TypeOK /\ InTurn /\ OneAtATime)
  <1>1. Init => InTurn
    BY TurnInit
  <1>2. TypeOK /\ InTurn /\ OneAtATime /\ OneAtATime' /\ [Next]_vars => InTurn'
    BY TurnStays
  <1> QED BY <1>1, <1>2, TypeCorrect, PTL DEF Spec

\* As long as no two requests or worker passes overlap and no owner asks for a
\* theme, an intent becomes applied only for the snapshot that GitHub was
\* verified to show.
THEOREM AppliedMeansVerified ==
    ASSUME Owners = {}, MaxMisses = 0, ~LegacyWall
    PROVE  Spec /\ []OneAtATime => AppliedIsVerified
  <1>1. TypeOK /\ InTurn /\ OneAtATime /\ OneAtATime' /\ [Next]_vars =>
          [projection'.status = "applied" /\ projection.status # "applied"
             => presentation.readme = projection'.desired]_vars
    BY TurnStays DEF AppliedNow
  <1> QED BY <1>1, TurnInvariant, PTL DEF Spec, AppliedIsVerified

\* Then the two registers of the database move as PublicWall says: an upload is
\* stored when both gates let it, and GitHub comes to show the stored snapshot
\* when it may be published.  Two requests at once break this.
THEOREM WallIsImplemented ==
    ASSUME Owners = {}, MaxMisses = 0, ~LegacyWall
    PROVE  Spec /\ []OneAtATime => ImplementsPublicWall
  <1>1. Init => Wall!Init
    BY TurnInit DEF Wall!Init
  <1>2. TypeOK /\ InTurn /\ OneAtATime /\ OneAtATime' /\ [Next]_vars => [Wall!Next]_(Wall!wallVars)
    <2> SUFFICES ASSUME TypeOK, InTurn, OneAtATime, OneAtATime', [Next]_vars
                 PROVE  [Wall!Next]_(Wall!wallVars)
      OBVIOUS
    <2>1. RegistersMove
      BY TurnStays
    <2>2. CASE projection'.snap = projection.snap /\ presentation'.readme = presentation.readme
      BY <2>2 DEF Wall!wallVars
    <2>3. CASE /\ presentation'.readme = presentation.readme /\ projection'.snap \in Snapshots
               /\ projection.snap # NoSnap => /\ ShouldReplaceProjection(projection.snap, projection'.snap)
                                              /\ ~TokenRegressed(projection.snap, projection'.snap)
      <3>1. Wall!Accept(projection'.snap)
        BY <2>3, SameGates DEF Wall!Accept
      <3> QED BY <2>3, <3>1 DEF Wall!Next
    <2>4. CASE /\ projection'.snap = projection.snap /\ presentation'.readme = projection.snap
               /\ projection.snap # NoSnap /\ MayShow(projection.snap, presentation.readme)
      BY <2>4 DEF Wall!Next, Wall!Show, MayShow
    <2> QED BY <2>1, <2>2, <2>3, <2>4 DEF RegistersMove
  <1> QED BY <1>1, <1>2, TurnInvariant, PTL DEF Spec, ImplementsPublicWall, Wall!Spec

-----------------------------------------------------------------------------
(* Publishing adds no fall of its own to those of the stored row.            *)

\* The check of a PUT on the two totals (public_profile_http.go:106), from one
\* snapshot to a later one.
NotBehind(s, t) == s # NoSnap => t # NoSnap /\ ~TokenRegressed(s, t)

\* What is stored passes the check beside what it replaces.  Two PUTs that
\* overlap, or one whose read of the row failed, can break this.
StoredRises == NotBehind(projection.snap, projection'.snap)

\* A publisher has a row that is not behind the wall, nor ahead of the table.
RowsInOrder ==
    /\ NotBehind(presentation.readme, projection.snap)
    /\ \A h \in Handlers :
         proc[h].pc \in RowPcs =>
           NotBehind(presentation.readme, proc[h].row) /\ NotBehind(proc[h].row, projection.snap)

LEMMA BehindTransitive ==
    ASSUME \A s \in Snapshots : s.total \in Int \cup {None}, NEW r \in MaybeSnap, NEW s \in MaybeSnap,
           NEW t \in MaybeSnap, NotBehind(r, s), NotBehind(s, t)
    PROVE  NotBehind(r, t)
  <1> SUFFICES ASSUME r # NoSnap PROVE t # NoSnap /\ ~TokenRegressed(r, t)
    BY DEF NotBehind
  <1>1. s # NoSnap /\ t # NoSnap /\ ~TokenRegressed(r, s) /\ ~TokenRegressed(s, t)
    BY DEF NotBehind
  <1>2. \A x \in {r, s, t} : x.total \in Int \cup {None}
    BY <1>1 DEF MaybeSnap
  <1> QED BY <1>1, <1>2, PolicyAssumption DEF TokenRegressed

LEMMA BehindReflexive ==
    ASSUME \A s \in Snapshots : s.total \in Int \cup {None}, NEW s \in MaybeSnap
    PROVE  NotBehind(s, s)
  <1>1. s # NoSnap => s.total \in Int \cup {None}
    BY DEF MaybeSnap
  <1> QED BY <1>1, PolicyAssumption DEF NotBehind, TokenRegressed

\* A publisher reads its row once.
LEMMA InsideRow ==
    ASSUME TypeOK, NEW h \in Handlers, Inside(h)
    PROVE  \/ proc'[h].pc = "release"
           \/ proc[h].pc = "row" /\ proc'[h].row = projection.snap
           \/ proc[h].pc \in RowPcs /\ proc'[h].row = proc[h].row
  <1>0. ProcOK /\ proc[h] \in Locals
    BY LocalsOf DEF TypeOK
  <1>1. ASSUME NEW l, Become(h, l)
        PROVE  proc'[h] = l
    BY <1>0, <1>1, BecomePc
  <1>2. ASSUME NEW cause, FailBefore(h, cause) \/ FailAfter(h, cause)
        PROVE  proc'[h].pc = "release"
    BY <1>2, FailPc
  <1>3. ASSUME NEW pc, Goto(h, pc)
        PROVE  proc'[h].row = proc[h].row
    <2>1. [proc[h] EXCEPT !.pc = pc].row = proc[h].row
      BY <1>0 DEF Locals
    <2> QED BY <1>3, <2>1, GotoPc
  <1>4. CASE ReadRow(h)
    <2>1. [proc[h] EXCEPT !.row = projection.snap, !.pc = "lease"].row = projection.snap
      BY <1>0 DEF Locals
    <2> QED BY <1>1, <1>2, <1>4, <2>1 DEF ReadRow
  <1>5. ASSUME ~ReadRow(h), proc[h].pc = "row"
        PROVE  proc'[h].pc = "release"
    BY <1>2, <1>5 DEF Inside, AcquirePublishLease, GetReadme, GetPreviews, PutLight, PutDark, PutReadme,
           VerifyReadme, VerifyLight, VerifyDark, Verify, SavePresentation, MarkReadmeVerified,
           SetReadmeApplied, Fault, ReadFault, WriteFault, VerifyFault, StoreFault, LateStoreFault
  <1>6. proc[h].pc # "release" /\ proc[h].pc \in LockedPcs
    BY InsideFrame DEF Inside, ReadRow, AcquirePublishLease, GetReadme, GetPreviews, PutLight, PutDark, PutReadme,
           VerifyReadme, VerifyLight, VerifyDark, Verify, SavePresentation, MarkReadmeVerified,
           SetReadmeApplied, Fault, ReadFault, WriteFault, VerifyFault, StoreFault, LateStoreFault
  <1>7. ASSUME ~ReadRow(h)
        PROVE  proc'[h].pc = "release" \/ proc'[h].row = proc[h].row
    <2>1. CASE \E cause : FailBefore(h, cause) \/ FailAfter(h, cause)
      BY <1>2, <2>1
    <2>2. CASE \E pc : Goto(h, pc)
      BY <1>3, <2>2
    <2>3. CASE Become(h, [proc[h] EXCEPT !.pc = "verify_readme", !.readme = Idle.readme])
      <3>1. [proc[h] EXCEPT !.pc = "verify_readme", !.readme = Idle.readme].row = proc[h].row
        BY <1>0 DEF Locals
      <3> QED BY <1>1, <2>3, <3>1
    <2>4. CASE GetReadme(h)
      <3> DEFINE l(current) == [proc[h] EXCEPT !.readme = repo.readme, !.pc = "previews", !.current = current]
      <3>1. \A current : l(current).row = proc[h].row
        BY <1>0 DEF Locals
      <3>2. PICK current : Become(h, l(current))
        BY <2>4 DEF GetReadme
      <3> HIDE DEF l
      <3> QED BY <1>1, <3>1, <3>2
    <2>5. CASE GetPreviews(h)
      <3> DEFINE l(pc, current) == [proc[h] EXCEPT !.pc = pc, !.current = current]
      <3>1. \A pc, current : l(pc, current).row = proc[h].row
        BY <1>0 DEF Locals
      <3>2. PICK pc, current : Become(h, l(pc, current))
        BY <2>5 DEF GetPreviews
      <3> HIDE DEF l
      <3> QED BY <1>1, <3>1, <3>2
    <2>6. CASE SetReadmeApplied(h) \/ LateStoreFault(h)
      <3>1. /\ [proc[h] EXCEPT !.pc = "release", !.current = FALSE].pc = "release"
            /\ [proc[h] EXCEPT !.pc = "release", !.cause = "github_write",
                               !.raised = "github_write"].pc = "release"
        BY <1>0 DEF Locals
      <3> QED BY <1>1, <2>6, <3>1 DEF SetReadmeApplied, LateStoreFault
    <2>7. CASE MarkReadmeVerified(h) /\ MayStamp(h)
      <3>1. proc'[h] = [proc[h] EXCEPT !.pc = "apply_published"]
        BY <2>7 DEF MarkReadmeVerified
      <3> QED BY <1>0, <3>1 DEF Locals
    <2> QED BY <1>7, <2>1, <2>2, <2>3, <2>4, <2>5, <2>6, <2>7
            DEF Inside, AcquirePublishLease, PutLight, PutDark, PutReadme, VerifyReadme, VerifyLight,
                VerifyDark, Verify, SavePresentation, MarkReadmeVerified,
                Fault, ReadFault, WriteFault, VerifyFault, StoreFault
  <1> QED BY <1>4, <1>5, <1>6, <1>7 DEF RowPcs, ReadRow

\* The wall moves only to the row of the publisher that stamps it.
LEMMA InsideWall ==
    ASSUME TypeOK, NEW h \in Handlers, Inside(h)
    PROVE  \/ presentation'.readme = presentation.readme /\ presentation'.known = presentation.known
           \/ /\ presentation'.readme = proc[h].row /\ presentation'.known /\ proc[h].pc = "stamp"
              /\ proc'[h].pc = "apply_published" /\ proc'[h].row = proc[h].row
  <1>0. proc[h] \in Locals
    BY LocalsOf
  <1>1. CASE MarkReadmeVerified(h) /\ MayStamp(h)
    <2>1. /\ proc'[h] = [proc[h] EXCEPT !.pc = "apply_published"] /\ proc[h].pc = "stamp"
          /\ presentation' = [presentation EXCEPT !.readme = proc[h].row, !.known = TRUE]
      BY <1>1 DEF MarkReadmeVerified
    <2> QED BY <1>0, <2>1 DEF Locals, TypeOK, PresentationOK
  <1>2. CASE SavePresentation(h)
    BY <1>2 DEF SavePresentation, TypeOK, PresentationOK
  <1>3. CASE ~SavePresentation(h) /\ ~(MarkReadmeVerified(h) /\ MayStamp(h))
    BY <1>3 DEF Inside, ReadRow, AcquirePublishLease, GetReadme, GetPreviews, PutLight, PutDark, PutReadme,
           VerifyReadme, VerifyLight, VerifyDark, Verify, MarkReadmeVerified, SetReadmeApplied,
           Fault, ReadFault, WriteFault, VerifyFault, StoreFault, LateStoreFault, store
  <1> QED BY <1>1, <1>2, <1>3

\* The wall keeps up with the row, and a known total stays known.
WallRises ==
    /\ NotBehind(presentation.readme, presentation'.readme)
    /\ presentation.readme # NoSnap /\ presentation.known => presentation'.known

LEMMA RowsStep ==
    ASSUME \A g, h \in Handlers : ServerOf[g] = ServerOf[h],
           \A s \in Snapshots : s.total \in Int \cup {None},
           TypeOK, TypeOK', LockHeld, RowsInOrder, StoredRises, [Next]_vars
    PROVE  RowsInOrder' /\ WallRises
  <1>1. /\ projection.snap \in MaybeSnap /\ projection'.snap \in MaybeSnap
        /\ presentation.readme \in MaybeSnap /\ presentation'.readme \in MaybeSnap
        /\ \A g \in Handlers : proc[g].row \in MaybeSnap /\ proc'[g].row \in MaybeSnap
    BY DEF TypeOK, ProjectionOK, PresentationOK, ProcOK, Rows, Locals
  <1>2. NotBehind(presentation.readme, projection'.snap)
    BY <1>1, BehindTransitive DEF RowsInOrder, StoredRises
  <1>3. ASSUME NEW g \in Handlers, proc[g].pc \in RowPcs
        PROVE  NotBehind(presentation.readme, proc[g].row) /\ NotBehind(proc[g].row, projection'.snap)
    BY <1>1, <1>3, BehindTransitive DEF RowsInOrder, StoredRises
  <1>4. NotBehind(presentation.readme, presentation.readme)
    BY <1>1, BehindReflexive
  <1>5. ASSUME presentation'.readme = presentation.readme, presentation.known => presentation'.known,
               \A g \in Handlers : proc'[g].pc \in RowPcs => proc[g].pc \in RowPcs /\ proc'[g].row = proc[g].row
        PROVE  RowsInOrder' /\ WallRises
    BY <1>2, <1>3, <1>4, <1>5 DEF RowsInOrder, WallRises
  <1>6. CASE Outside
    BY <1>5, <1>6, OutsideFrame, PublisherPcs DEF Same
  <1>7. ASSUME NEW h \in Handlers, Lock(h) \/ Release(h)
        PROVE  RowsInOrder' /\ WallRises
    BY <1>5, <1>7, LockFrame, PublisherPcs DEF Same
  <1>8. ASSUME NEW hs \in SUBSET Handlers, Lost(hs)
        PROVE  RowsInOrder' /\ WallRises
    <2>1. Idle.pc \notin RowPcs
      BY OpenPcs, PublisherPcs DEF Idle
    <2>2. \A g \in Handlers : proc'[g].pc \in RowPcs => proc'[g] = proc[g]
      BY <1>8, <2>1 DEF Lost, Gone
    <2> QED BY <1>5, <1>8, <2>2 DEF Lost
  <1>9. ASSUME NEW h \in Handlers, Inside(h)
        PROVE  RowsInOrder' /\ WallRises
    <2>1. \A g \in Handlers \ {h} : proc'[g].pc \notin RowPcs
      <3>1. proc[h].pc \in LockedPcs /\ \A g \in Handlers \ {h} : Same(g)
        BY <1>9, InsideFrame
      <3> QED BY <3>1, PublisherPcs DEF LockHeld, Same
    <2>2. CASE presentation'.readme = presentation.readme /\ presentation'.known = presentation.known
      <3>1. ASSUME proc'[h].pc \in RowPcs
            PROVE  NotBehind(presentation.readme, proc'[h].row) /\ NotBehind(proc'[h].row, projection'.snap)
        <4>1. CASE proc[h].pc = "row" /\ proc'[h].row = projection.snap
          BY <4>1 DEF RowsInOrder, StoredRises
        <4>2. CASE proc[h].pc \in RowPcs /\ proc'[h].row = proc[h].row
          BY <1>3, <4>2
        <4> QED BY <1>9, <3>1, <4>1, <4>2, InsideRow, PublisherPcs
      <3> QED BY <1>2, <1>4, <2>1, <2>2, <3>1 DEF RowsInOrder, WallRises
    <2>3. CASE /\ presentation'.readme = proc[h].row /\ presentation'.known /\ proc[h].pc = "stamp"
               /\ proc'[h].pc = "apply_published" /\ proc'[h].row = proc[h].row
      <3>1. proc[h].pc \in RowPcs
        BY <2>3 DEF RowPcs, LockedPcs, LeasePcs
      <3>2. NotBehind(proc[h].row, proc[h].row)
        BY <1>1, BehindReflexive
      <3> QED BY <1>3, <2>1, <2>3, <3>1, <3>2 DEF RowsInOrder, WallRises
    <2> QED BY <1>9, <2>2, <2>3, InsideWall
  <1> QED BY <1>6, <1>7, <1>8, <1>9, EveryStep

\* "A smaller total is blocked": in one process the total of the verified wall
\* falls only if the stored one did.  Whatever requests, worker passes and
\* owner's publishes overlap, and whatever fails, is dropped or restarts in
\* between, a publisher never shows less than another one has verified, for it
\* reads its row under publishMu and not before (publish_job.go:109, 125).
THEOREM VerifiedFallsOnlyWithTheRow ==
    ASSUME \A g, h \in Handlers : ServerOf[g] = ServerOf[h],
           \A s \in Snapshots : s.total \in Int \cup {None}
    PROVE  Spec /\ [][StoredRises]_vars => VerifiedTotalNeverFalls
  <1>1. Init => RowsInOrder
    <2>1. ASSUME Init, NEW h \in Handlers PROVE proc[h].pc \notin RowPcs
      BY <2>1, OpenPcs, PublisherPcs DEF Init, Idle
    <2>2. ASSUME Init PROVE NotBehind(presentation.readme, projection.snap)
      <3>1. CASE FreshStart
        BY <3>1 DEF FreshStart, NoPresentation, NotBehind
      <3>2. CASE LegacyStart
        <4>1. presentation.readme = projection.snap
          BY <3>2 DEF LegacyStart, NoProjection
        <4>2. projection.snap \in MaybeSnap
          BY <2>2, InitOK DEF TypeOK, ProjectionOK, Rows
        <4> QED BY <4>1, <4>2, BehindReflexive
      <3> QED BY <2>2, <3>1, <3>2 DEF Init
    <2> QED BY <2>1, <2>2 DEF RowsInOrder
  <1>2. ASSUME TypeOK, TypeOK', LockHeld, RowsInOrder, [StoredRises]_vars, [Next]_vars
        PROVE  RowsInOrder' /\ WallRises
    <2>1. StoredRises
      <3>1. projection.snap \in MaybeSnap
        BY <1>2 DEF TypeOK, ProjectionOK, Rows
      <3> QED BY <1>2, <3>1, BehindReflexive DEF StoredRises, vars
    <2> QED BY <1>2, <2>1, RowsStep
  <1>3. ASSUME TypeOK, TypeOK', LockHeld, RowsInOrder, [StoredRises]_vars, [Next]_vars
        PROVE  [VerifiedWall(presentation).total # None =>
                  /\ VerifiedWall(presentation').total # None
                  /\ VerifiedWall(presentation').total >= VerifiedWall(presentation).total]_vars
    <2> SUFFICES ASSUME VerifiedWall(presentation).total # None
                 PROVE  /\ VerifiedWall(presentation').total # None
                        /\ VerifiedWall(presentation').total >= VerifiedWall(presentation).total
      OBVIOUS
    <2>1. /\ presentation.readme # NoSnap /\ presentation.known /\ presentation.readme.total # None
          /\ VerifiedWall(presentation).total = presentation.readme.total
      BY DEF VerifiedWall, NoWall
    <2>2. /\ presentation'.readme # NoSnap /\ presentation'.known
          /\ ~TokenRegressed(presentation.readme, presentation'.readme)
      BY <1>2, <1>3, <2>1 DEF WallRises, NotBehind
    <2>3. VerifiedWall(presentation').total = presentation'.readme.total
      BY <2>2 DEF VerifiedWall
    <2>4. presentation.readme.total \in Int \cup {None} /\ presentation'.readme.total \in Int \cup {None}
      BY <1>3, <2>1, <2>2 DEF TypeOK, PresentationOK, MaybeSnap
    <2> QED BY <2>1, <2>2, <2>3, <2>4, PolicyAssumption DEF TokenRegressed
  <1> QED BY <1>1, <1>2, <1>3, TypeCorrect, LockHeldInit, LockHeldStep, PTL DEF Spec, VerifiedTotalNeverFalls

-----------------------------------------------------------------------------
(* A wall GitHub shows half of *)

\* What a device may upload: validate.go checks the date and the totals, and
\* dataStatus is unavailable only for a snapshot that measured nothing.
SoundSnapshots ==
    \A s \in Snapshots : /\ s.total \in Int \cup {None} /\ s.date \in Int
                         /\ MeasuredIn(s) # {} => s.dataStatus \in {"available", "partial"}

\* No upload brings back the snapshot of the verified wall once another one is
\* stored.
NeverBack == projection'.snap # projection.snap => projection'.snap # presentation.readme

\* What DuePublicationUserIDs selects sooner or later.
Awaited == {"failed", "pending", "blocked_auth"}

\* From the announcement on, the intent is pending.
AnnouncedPcs == GoingPcs \ {"pick_palette", "announce"}

Broken == ~Shows(repo, presentation.asset)

\* The intent behind files that differ.
Repairable ==
    /\ projection.snap \in Snapshots /\ projection.snap # presentation.readme
    /\ projection.status \in Awaited /\ Publishable(projection.snap)

\* A verified total is known, and so is the stored one, which is not behind.
TotalsKept ==
    presentation.readme # NoSnap =>
      /\ projection.snap \in Snapshots
      /\ projection.snap.total \in Int /\ presentation.readme.total \in Int
      /\ projection.snap.total >= presentation.readme.total

\* A handler that is going to write files has something to show, and has said
\* so; an intent that nobody would select is written only for a whole wall.
Ahead(l, snap, readme, status, broken) ==
    /\ l.pc \in GoingPcs => snap # readme
    /\ l.pc \in AnnouncedPcs => status \in Awaited
    /\ l.pc = "intent" /\ broken => l.intent.status \in Awaited

Prepared ==
    /\ Broken => Repairable
    /\ TotalsKept
    /\ \A h \in Handlers :
         Ahead(proc[h], projection.snap, presentation.readme, projection.status, Broken)

-----------------------------------------------------------------------------
LEMMA AnnouncedFacts ==
    /\ {"lock", "row", "lease", "readme", "previews", "light", "dark", "put_readme", "verify_readme",
        "verify_light", "verify_dark", "save", "stamp"} \subseteq AnnouncedPcs
    /\ AnnouncedPcs \subseteq GoingPcs
    /\ {"pick_palette", "announce"} \cap AnnouncedPcs = {}
    /\ "intent" \notin LockedPcs /\ "lock" \notin LockedPcs
    /\ LockedPcs \cap GoingPcs \subseteq AnnouncedPcs
    /\ {"idle", "put_read", "put_save", "work_row", "read_wall", "decide", "coalesce", "intent",
        "apply_same", "apply_published", "release", "note", "unconfigured"} \cap GoingPcs = {}
  BY DEF AnnouncedPcs, GoingPcs, LockedPcs, LeasePcs

\* What may be shown is publishable, and not smaller than the wall.
LEMMA ShownIsPublishable ==
    ASSUME NEW snap, NEW readme, MayShow(snap, readme)
    PROVE  Publishable(snap)
  <1>1. PICK in \in Wall!Inputs(snap, Wall!WallOf(readme)) : DecidePublication(in).action = "PUBLISH_NOW"
    BY SameGates DEF MayShow
  <1>2. in.cand = snap
    BY <1>1 DEF Wall!Inputs
  <1>3. Publishable(in.cand)
    BY <1>1 DEF DecidePublication, Decision
  <1> QED BY <1>2, <1>3

\* An upload that replaces a publishable snapshot is publishable.
LEMMA AcceptedIsPublishable ==
    ASSUME SoundSnapshots, NEW prev, NEW next \in Snapshots, prev # NoSnap,
           ShouldReplaceProjection(prev, next), ~TokenRegressed(prev, next), Publishable(prev)
    PROVE  Publishable(next)
  <1>1. next.total # None
    BY DEF TokenRegressed, Publishable
  <1>2. CASE coverageRank(next.dataStatus) >= coverageRank(prev.dataStatus)
    <2>1. coverageRank(prev.dataStatus) \in {2, 3}
      BY DEF Publishable, coverageRank
    <2>2. next.dataStatus \in {"available", "partial"}
      BY <1>2, <2>1 DEF coverageRank
    <2> QED BY <1>1, <2>2 DEF Publishable
  <1>3. CASE measuredSetHeld(prev, next)
    <2>1. MeasuredIn(next) # {}
      BY <1>3 DEF measuredSetHeld
    <2> QED BY <1>1, <2>1 DEF SoundSnapshots, Publishable
  <1> QED BY <1>2, <1>3 DEF ShouldReplaceProjection

LEMMA TotalsStay ==
    ASSUME SoundSnapshots, TypeOK, TypeOK', InTurn, TotalsKept, RegistersMove
    PROVE  TotalsKept'
  <1>1. /\ projection.snap \in Snapshots \cup {NoSnap} /\ projection'.snap \in Snapshots \cup {NoSnap}
        /\ presentation.readme \in Snapshots \cup {NoSnap} /\ NoSnap \notin Snapshots
    BY Constants DEF TypeOK, ProjectionOK, PresentationOK, Rows, MaybeSnap
  <1>2. \A s \in Snapshots : s.total \in Int \cup {None}
    BY DEF SoundSnapshots
  <1>3. None \notin Int
    BY PolicyAssumption
  <1>4. CASE projection'.snap = projection.snap /\ presentation'.readme = presentation.readme
    BY <1>4 DEF TotalsKept
  <1>5. CASE /\ presentation'.readme = presentation.readme /\ projection'.snap \in Snapshots
             /\ projection.snap # NoSnap => /\ ShouldReplaceProjection(projection.snap, projection'.snap)
                                            /\ ~TokenRegressed(projection.snap, projection'.snap)
    <2> SUFFICES ASSUME presentation.readme # NoSnap
                 PROVE  /\ projection'.snap.total \in Int /\ presentation.readme.total \in Int
                        /\ projection'.snap.total >= presentation.readme.total
      BY <1>5 DEF TotalsKept
    <2>1. /\ projection.snap.total \in Int /\ presentation.readme.total \in Int
          /\ projection.snap.total >= presentation.readme.total
          /\ ~TokenRegressed(projection.snap, projection'.snap)
      BY <1>1, <1>5 DEF TotalsKept
    <2>2. projection'.snap.total # None /\ ~(projection'.snap.total < projection.snap.total)
      BY <1>3, <2>1 DEF TokenRegressed
    <2>3. projection'.snap.total \in Int
      BY <1>2, <1>5, <2>2
    <2> QED BY <2>1, <2>2, <2>3
  <1>6. CASE /\ projection'.snap = projection.snap /\ presentation'.readme = projection.snap
             /\ projection.snap # NoSnap /\ MayShow(projection.snap, presentation.readme)
    <2>1. projection.snap.total # None
      BY <1>6, ShownIsPublishable DEF Publishable
    <2>2. projection.snap.total \in Int /\ projection.snap \in Snapshots
      BY <1>1, <1>2, <1>6, <2>1
    <2> QED BY <1>6, <2>2 DEF TotalsKept
  <1> QED BY <1>4, <1>5, <1>6 DEF RegistersMove

-----------------------------------------------------------------------------
\* A question about the verified snapshot itself is not answered by a publish,
\* and a publishable one that is not behind the wall is not blocked.
LEMMA NoSecondPublish ==
    ASSUME NEW in, ~in.theme, ~CoverageLost(in), ~Shrinks(in), ~dateRollover(in.wall, in.cand),
           ~retryable(in), in.wall.proven, in.cand = in.wall.snap
    PROVE  DecidePublication(in).action # "PUBLISH_NOW"
  BY DEF DecidePublication, Decision

LEMMA NotBlocked ==
    ASSUME NEW in, ~in.offline, ~CoverageLost(in), ~Shrinks(in), Publishable(in.cand),
           DecidePublication(in).action = "BLOCKED"
    PROVE  DecidePublication(in).reason = "unknown_verified"
  BY DEF DecidePublication, Decision

\* A usage change is published only when the stored snapshot is not the one
\* GitHub shows, and a stored one that could be published is not blocked.
LEMMA AskedAhead ==
    ASSUME SoundSnapshots, NEW snap \in Snapshots, NEW readme,
           readme # NoSnap => snap.total \in Int /\ readme.total \in Int /\ snap.total >= readme.total,
           NEW in, in.cand = snap, in.accepted = snap, in.wall = ProvenWall(readme),
           ~in.theme, ~in.offline
    PROVE  /\ DecidePublication(in).action = "PUBLISH_NOW" => snap # readme
           /\ DecidePublication(in).action = "BLOCKED" /\ DecidePublication(in).reason # "unknown_verified" =>
                ~Publishable(snap)
  <1>2. NoSnap \notin Snapshots /\ snap.date \in Int
    BY Constants DEF SoundSnapshots
  <1>3. ~CoverageLost(in)
    BY DEF CoverageLost
  <1>4. ~Shrinks(in)
    <2>1. CASE readme = NoSnap
      BY <2>1 DEF Shrinks, ProvenWall, NoWall
    <2>2. CASE readme # NoSnap
      BY <2>2 DEF Shrinks, ProvenWall
    <2> QED BY <2>1, <2>2
  <1>5. ASSUME snap = readme
        PROVE  DecidePublication(in).action # "PUBLISH_NOW"
    <2>1. in.wall.proven = TRUE /\ in.wall.snap = snap /\ in.wall.date = snap.date
      BY <1>2, <1>5 DEF ProvenWall
    <2>2. ~dateRollover(in.wall, in.cand) /\ ~retryable(in)
      BY <1>2, <2>1 DEF dateRollover, laterLocalDate, retryable
    <2> QED BY <1>3, <1>4, <2>1, <2>2, NoSecondPublish
  <1>6. ASSUME DecidePublication(in).action = "BLOCKED", Publishable(snap)
        PROVE  DecidePublication(in).reason = "unknown_verified"
    BY <1>3, <1>4, <1>6, NotBlocked
  <1> QED BY <1>5, <1>6

\* Where a decision leads.
LEMMA DecidedAhead ==
    ASSUME SoundSnapshots, TypeOK, InTurn, Prepared, NEW h \in Handlers, proc[h].pc = "decide",
           NEW l, l = Decided(h, GateInput(h))
    PROVE  Ahead(l, projection.snap, presentation.readme, projection.status, Broken)
  <1>0. proc[h] \in Locals
    BY LocalsOf
  <1> DEFINE proceed(pc) == [proc[h] EXCEPT !.pc = pc, !.wall = NoWall]
             write(i) == [proceed("intent") EXCEPT !.intent = i]
             decision == DecidePublication(GateInput(h))
             row(status, reason, due) ==
               Intent(NoProjection, proc[h].cand, status, reason, NoPalette, due, 0)
  <1>1. (\A pc : proceed(pc).pc = pc) /\ (\A i : write(i).pc = "intent" /\ write(i).intent = i)
    BY <1>0 DEF Locals
  <1>2. \A status, reason, due : row(status, reason, due).status = status
    BY NoProjectionOK, IntentFields
  <1>3. l = CASE decision.action = "PUBLISH_NOW" -> proceed("pick_palette")
              [] decision.action = "RETRY_PENDING" -> proceed("coalesce")
              [] decision.action = "WAIT_UNTIL" -> write(row("pending", "cooldown", "midnight"))
              [] decision.action = "BLOCKED" /\ decision.reason # "unknown_verified" ->
                   write(row("blocked_data", decision.reason, "none"))
              [] decision.action = "NO_CHANGE" /\ proc[h].cand = proc[h].wall.snap ->
                   proceed("apply_same")
              [] OTHER -> Idle
    BY Zenon DEF Decided
  <1>4. /\ decision.action = "PUBLISH_NOW" => projection.snap # presentation.readme
        /\ decision.action = "BLOCKED" /\ decision.reason # "unknown_verified" =>
             ~Publishable(projection.snap)
    <2>1. PICK p : p = PendingIntent(projection)
      OBVIOUS
    <2>2. PICK work \in BOOLEAN : work = (proc[h].op = "work")
      OBVIOUS
    <2>3. /\ GateInput(h) = Question(projection.snap, ProvenWall(presentation.readme), p, day.today,
                                     day.closing, FALSE, work)
          /\ projection.snap # NoSnap
      BY <2>1, <2>2, AskedAlone
    <2>4. PICK in : in = GateInput(h)
      OBVIOUS
    <2>5. /\ in.cand = projection.snap /\ in.accepted = projection.snap
          /\ in.wall = ProvenWall(presentation.readme) /\ ~in.theme /\ ~in.offline
      BY <2>3, <2>4 DEF Question
    <2>6. projection.snap \in Snapshots /\ presentation.readme \in MaybeSnap
      BY <2>3 DEF TypeOK, ProjectionOK, PresentationOK, Rows, MaybeSnap
    <2>7. presentation.readme # NoSnap =>
            /\ projection.snap.total \in Int /\ presentation.readme.total \in Int
            /\ projection.snap.total >= presentation.readme.total
      BY DEF Prepared, TotalsKept
    <2> QED BY <2>4, <2>5, <2>6, <2>7, AskedAhead
  <1> HIDE DEF proceed, write, decision, row
  <1>5. \/ l = proceed("pick_palette") /\ decision.action = "PUBLISH_NOW"
        \/ l = proceed("coalesce") \/ l = proceed("apply_same") \/ l = Idle
        \/ l = write(row("pending", "cooldown", "midnight"))
        \/ /\ l = write(row("blocked_data", decision.reason, "none"))
           /\ decision.action = "BLOCKED" /\ decision.reason # "unknown_verified"
    BY <1>3
  <1>6. Idle.pc = "idle"
    BY DEF Idle
  <1>7. CASE l = proceed("pick_palette") /\ decision.action = "PUBLISH_NOW"
    BY <1>1, <1>4, <1>7, AnnouncedFacts DEF Ahead
  <1>8. CASE l = proceed("coalesce") \/ l = proceed("apply_same") \/ l = Idle
    BY <1>1, <1>6, <1>8, AnnouncedFacts DEF Ahead
  <1>9. CASE l = write(row("pending", "cooldown", "midnight"))
    BY <1>1, <1>2, <1>9, AnnouncedFacts DEF Ahead, Awaited
  <1>10. CASE /\ l = write(row("blocked_data", decision.reason, "none"))
              /\ decision.action = "BLOCKED" /\ decision.reason # "unknown_verified"
    <2>1. ~Broken
      BY <1>4, <1>10 DEF Prepared, Repairable
    <2>2. l.pc = "intent"
      BY <1>1, <1>10
    <2> QED BY <2>1, <2>2, AnnouncedFacts DEF Ahead
  <1> QED BY <1>5, <1>7, <1>8, <1>9, <1>10

-----------------------------------------------------------------------------
(* Steps of a request that is served alone. *)

\* With the others idle, what is left to be shown of a step of h are its own
\* locals and the rows.
LEMMA AheadStep ==
    ASSUME TypeOK, OneAtATime, OneAtATime', NEW h \in Handlers, proc[h].pc # "idle" \/ proc'[h].pc # "idle",
           \A g \in Handlers \ {h} : proc'[g].pc = proc[g].pc,
           Ahead(proc'[h], projection'.snap, presentation'.readme, projection'.status, Broken'),
           Broken' => Repairable', TotalsKept'
    PROVE  Prepared'
  <1>1. \A g \in Handlers \ {h} : proc'[g].pc = "idle"
    BY DEF OneAtATime
  <1>2. \A g \in Handlers \ {h} :
          Ahead(proc'[g], projection'.snap, presentation'.readme, projection'.status, Broken')
    BY <1>1, AnnouncedFacts DEF Ahead
  <1> QED BY <1>2 DEF Prepared

\* A handler that is somewhere else has nothing ahead of it.
LEMMA NothingAhead ==
    ASSUME NEW l, l.pc \notin GoingPcs, l.pc # "intent", NEW snap, NEW readme, NEW status, NEW broken
    PROVE  Ahead(l, snap, readme, status, broken)
  BY AnnouncedFacts DEF Ahead

\* The rows and the files as a step leaves them.
LEMMA FilesStay ==
    ASSUME SameFiles, presentation'.asset = presentation.asset
    PROVE  Broken' = Broken
  BY DEF Broken, Shows, SameFiles

LEMMA StillRepairable ==
    ASSUME Prepared, Broken' = Broken, projection'.snap = projection.snap,
           presentation'.readme = presentation.readme, projection'.status = projection.status
    PROVE  Broken' => Repairable'
  BY DEF Prepared, Repairable

\* Whoever may write a file has something to show and has said so.
LEMMA WriterRepairs ==
    ASSUME TypeOK, InTurn, Prepared, NEW h \in Handlers, proc[h].pc \in AnnouncedPcs,
           projection'.snap = projection.snap,
           presentation'.readme = presentation.readme, projection'.status = projection.status
    PROVE  Repairable'
  <1>1. proc[h].pc \in GoingPcs /\ proc[h].pc # "idle"
    BY AnnouncedFacts
  <1>2. MayShow(projection.snap, presentation.readme) /\ projection.snap # NoSnap
    BY <1>1, FaithfulNow, PastPcsFacts DEF Faithful, GoingPcs
  <1>3. Publishable(projection.snap)
    BY <1>2, ShownIsPublishable
  <1>4. projection.snap \in Snapshots
    BY <1>2 DEF TypeOK, ProjectionOK, Rows, MaybeSnap
  <1>5. projection.snap # presentation.readme /\ projection.status \in Awaited
    BY <1>1 DEF Prepared, Ahead
  <1> QED BY <1>3, <1>4, <1>5 DEF Repairable

LEMMA BecomeAhead ==
    ASSUME TypeOK, OneAtATime, OneAtATime', NEW h \in Handlers, NEW l, Become(h, l),
           proc[h].pc # "idle" \/ l.pc # "idle",
           Ahead(l, projection'.snap, presentation'.readme, projection'.status, Broken'),
           Broken' => Repairable', TotalsKept'
    PROVE  Prepared'
  <1>1. proc'[h] = l /\ \A g \in Handlers \ {h} : proc'[g] = proc[g]
    BY BecomePc DEF TypeOK
  <1> QED BY <1>1, AheadStep

\* A step that leaves the rows and the files is about the locals only.
LEMMA SameAhead ==
    ASSUME TypeOK, Prepared, OneAtATime, OneAtATime', NEW h \in Handlers, NEW l, Become(h, l),
           proc[h].pc # "idle" \/ l.pc # "idle", UNCHANGED <<projection, presentation, repo>>,
           Ahead(l, projection.snap, presentation.readme, projection.status, Broken)
    PROVE  Prepared'
  <1>1. Broken' = Broken
    BY DEF Broken, Shows
  <1>2. Broken' => Repairable'
    BY <1>1, StillRepairable
  <1>3. TotalsKept'
    BY DEF Prepared, TotalsKept
  <1>4. Ahead(l, projection'.snap, presentation'.readme, projection'.status, Broken')
    BY <1>1 DEF Ahead
  <1> QED BY <1>2, <1>3, <1>4, BecomeAhead

\* The steps that read the rows, and the steps of a request that ends.
LEMMA DecisionAhead ==
    ASSUME SoundSnapshots, TypeOK, InTurn, Prepared, OneAtATime, OneAtATime', NEW h \in Handlers,
           \/ \E d \in Devices : ReceivePut(h, d)
           \/ PutRead(h) \/ ReadWall(h) \/ Decide(h) \/ CoalesceRead(h) \/ PickPalette(h)
           \/ WorkRow(h) \/ WorkerTick(h) \/ Release(h)
    PROVE  Prepared'
  <1>0. proc[h] \in Locals
    BY LocalsOf
  <1>1. UNCHANGED <<projection, presentation, repo>>
    BY DEF ReceivePut, PutRead, ReadWall, Decide, CoalesceRead, PickPalette, WorkRow, WorkerTick, Release, store
  <1>2. ASSUME NEW l, Become(h, l), proc[h].pc # "idle" \/ l.pc # "idle",
               l.pc \in {"idle", "put_read", "put_save", "work_row", "read_wall", "decide", "note"}
        PROVE  Prepared'
    <2>1. l.pc \notin GoingPcs /\ l.pc # "intent"
      BY <1>2, AnnouncedFacts, PastPcsFacts DEF GoingPcs, LockedPcs, LeasePcs
    <2>2. Ahead(l, projection.snap, presentation.readme, projection.status, Broken)
      BY <2>1, AnnouncedFacts DEF Ahead
    <2> QED BY <1>1, <1>2, <2>2, SameAhead
  <1>3. ASSUME Finish(h), proc[h].pc # "idle"
        PROVE  Prepared'
    <2>1. Idle.pc = "idle"
      BY DEF Idle
    <2> QED BY <1>2, <1>3, <2>1 DEF Finish
  <1>4. ASSUME NEW pc \in {"put_save", "note"}, Goto(h, pc)
        PROVE  Prepared'
    <2>1. Become(h, [proc[h] EXCEPT !.pc = pc]) /\ [proc[h] EXCEPT !.pc = pc].pc = pc
      BY <1>0, <1>4, PcFields DEF Goto
    <2> QED BY <1>2, <2>1
  <1>5. ASSUME NEW d \in Devices, ReceivePut(h, d)
        PROVE  Prepared'
    <2> DEFINE l == [Idle EXCEPT !.pc = "put_read", !.op = "put", !.cand = Feed[d][device[d]]]
    <2>1. Become(h, l)
      BY <1>5 DEF ReceivePut
    <2>2. l.pc = "put_read"
      BY DEF Idle
    <2> QED BY <1>2, <2>1, <2>2
  <1>6. CASE PutRead(h)
    BY <1>3, <1>4, <1>6 DEF PutRead
  <1>7. CASE ReadWall(h)
    <2> DEFINE l == [proc[h] EXCEPT !.wall = VerifiedWall(presentation), !.pc = "decide"]
    <2>1. Become(h, l)
      BY <1>7 DEF ReadWall
    <2>2. l.pc = "decide"
      BY <1>0 DEF Locals
    <2> QED BY <1>2, <2>1, <2>2
  <1>8. CASE Decide(h)
    <2>1. PICK l : l = Decided(h, GateInput(h))
      OBVIOUS
    <2>2. Become(h, l) /\ proc[h].pc = "decide"
      BY <1>8, <2>1 DEF Decide
    <2>3. Ahead(l, projection.snap, presentation.readme, projection.status, Broken)
      BY <2>1, <2>2, DecidedAhead
    <2> QED BY <1>1, <2>2, <2>3, SameAhead
  <1>9. CASE CoalesceRead(h)
    <2> DEFINE i == Intent(NoProjection, proc[h].cand, "failed", "retry", NoPalette,
                           projection.due, projection.retry)
               l == [proc[h] EXCEPT !.pc = "intent", !.intent = i]
    <2>1. Become(h, l) /\ proc[h].pc = "coalesce"
      BY <1>9 DEF CoalesceRead, InTurn
    <2>2. i.status = "failed"
      BY NoProjectionOK, IntentFields
    <2> HIDE DEF i
    <2>3. l.pc = "intent" /\ l.intent = i
      BY <1>0 DEF Locals
    <2> HIDE DEF l
    <2>4. Ahead(l, projection.snap, presentation.readme, projection.status, Broken)
      BY <2>2, <2>3, AnnouncedFacts DEF Ahead, Awaited
    <2> QED BY <1>1, <2>1, <2>4, SameAhead
  <1>10. CASE PickPalette(h)
    <2> DEFINE l == [proc[h] EXCEPT !.palette = UsagePalette(presentation), !.pc = "announce"]
    <2>1. Become(h, l) /\ proc[h].pc = "pick_palette"
      BY <1>10 DEF PickPalette
    <2>2. l.pc = "announce"
      BY <1>0 DEF Locals
    <2>3. projection.snap # presentation.readme
      BY <2>1, PastPcsFacts DEF Prepared, Ahead
    <2> HIDE DEF l
    <2>4. Ahead(l, projection.snap, presentation.readme, projection.status, Broken)
      BY <2>2, <2>3, AnnouncedFacts DEF Ahead
    <2> QED BY <1>1, <2>1, <2>4, SameAhead
  <1>11. CASE WorkRow(h)
    <2> DEFINE l == [proc[h] EXCEPT !.cand = projection.snap, !.op = "work", !.palette = NoPalette,
                                    !.pc = "read_wall"]
    <2>1. Become(h, l)
      BY <1>11 DEF WorkRow, InTurn
    <2>2. l.pc = "read_wall"
      BY <1>0 DEF Locals
    <2> QED BY <1>2, <2>1, <2>2
  <1>12. CASE WorkerTick(h)
    <2> DEFINE l == [Idle EXCEPT !.pc = "work_row", !.op = "work"]
    <2>1. Become(h, l)
      BY <1>12 DEF WorkerTick
    <2>2. l.pc = "work_row"
      BY DEF Idle
    <2> QED BY <1>2, <2>1, <2>2
  <1>13. CASE Release(h)
    <2>1. proc[h].pc = "release"
      BY <1>13 DEF Release
    <2>2. proc[h].op \in {"put", "work"}
      BY <2>1, FaithfulNow DEF Faithful
    <2> QED BY <1>3, <1>4, <1>13, <2>1, <2>2 DEF Release
  <1> QED BY <1>5, <1>6, <1>7, <1>8, <1>9, <1>10, <1>11, <1>12, <1>13

\* The steps that write an intent.
LEMMA IntentAhead ==
    ASSUME SoundSnapshots, TypeOK, InTurn, Prepared, OneAtATime, OneAtATime', NeverBack, TotalsKept',
           NEW h \in Handlers,
           \/ PutSave(h) \/ ApplySame(h) \/ WriteIntent(h) \/ Announce(h) \/ Unconfigured(h)
           \/ NotePublishFailure(h)
    PROVE  Prepared'
  <1>0. proc[h] \in Locals /\ projection \in Rows
    BY LocalsOf DEF TypeOK, ProjectionOK
  <1>1. /\ UNCHANGED <<presentation, repo>>
        /\ proc[h].pc \in {"put_save", "apply_same", "intent", "announce", "unconfigured", "note"}
    BY DEF PutSave, ApplySame, WriteIntent, Announce, Unconfigured, NotePublishFailure
  <1>2. Broken' = Broken /\ proc[h].pc # "idle"
    BY <1>1 DEF Broken, Shows
  <1>3. ASSUME NEW l, Become(h, l), l.pc \notin GoingPcs, l.pc # "intent", Broken' => Repairable'
        PROVE  Prepared'
    <2>1. Ahead(l, projection'.snap, presentation'.readme, projection'.status, Broken')
      BY <1>3, AnnouncedFacts DEF Ahead
    <2> QED BY <1>2, <1>3, <2>1, BecomeAhead
  <1>4. ASSUME Finish(h), Broken' => Repairable'
        PROVE  Prepared'
    <2>1. Idle.pc = "idle"
      BY DEF Idle
    <2>2. Idle.pc \notin GoingPcs /\ Idle.pc # "intent"
      BY <2>1, AnnouncedFacts
    <2> QED BY <1>3, <1>4, <2>2 DEF Finish
  <1>5. ASSUME projection'.snap = projection.snap, projection'.status \in Awaited, Broken
        PROVE  Repairable'
    BY <1>1, <1>5 DEF Prepared, Repairable
  <1>6. CASE PutSave(h)
    <2>1. Become(h, [proc[h] EXCEPT !.pc = "read_wall"]) /\ [proc[h] EXCEPT !.pc = "read_wall"].pc = "read_wall"
      BY <1>0, <1>6, PcFields DEF PutSave, Goto
    <2>2. projection'.snap = proc[h].cand /\ projection'.status = projection.status /\ proc[h].pc = "put_save"
      BY <1>0, <1>6 DEF PutSave, Rows
    <2>3. /\ proc[h].cand \in Snapshots
          /\ projection.snap # NoSnap => /\ ShouldReplaceProjection(projection.snap, proc[h].cand)
                                         /\ ~TokenRegressed(projection.snap, proc[h].cand)
      BY <1>2, <2>2, FaithfulNow DEF Faithful
    <2>4. ASSUME Broken
          PROVE  Repairable'
      <3>1. Repairable /\ projection.snap # NoSnap
        BY <2>4, Constants DEF Prepared, Repairable
      <3>2. Publishable(proc[h].cand)
        BY <2>3, <3>1, AcceptedIsPublishable DEF Repairable
      <3>3. proc[h].cand # presentation.readme
        BY <2>2, <3>1 DEF NeverBack, Repairable
      <3> QED BY <1>1, <2>2, <2>3, <3>1, <3>2, <3>3 DEF Repairable
    <2>5. "read_wall" \notin GoingPcs
      BY AnnouncedFacts
    <2> QED BY <1>2, <1>3, <2>1, <2>4, <2>5
  <1>7. CASE ApplySame(h)
    <2>1. presentation.readme = projection.snap
      BY <1>2, <1>7, FaithfulNow DEF Faithful, ApplySame
    <2>2. ~Broken
      BY <2>1 DEF Prepared, Repairable
    <2> QED BY <1>2, <1>4, <1>7, <2>2 DEF ApplySame
  <1>8. CASE WriteIntent(h)
    <2>1. PICK i : i = proc[h].intent
      OBVIOUS
    <2>2. projection' = Intent(projection, i.desired, i.status, i.reason, i.palette, i.due, i.retry)
          /\ Finish(h) /\ proc[h].pc = "intent"
      BY <1>8, <2>1 DEF WriteIntent
    <2>3. projection'.snap = projection.snap /\ projection'.status = i.status
      BY <1>0, <2>2, IntentFields
    <2>4. Broken => i.status \in Awaited
      BY <2>1, <2>2 DEF Prepared, Ahead
    <2> QED BY <1>2, <1>4, <1>5, <2>2, <2>3, <2>4
  <1>9. ASSUME NEW desired, NEW status \in Awaited, NEW reason, NEW palette, NEW due, NEW retry,
               projection' = Intent(projection, desired, status, reason, palette, due, retry)
        PROVE  projection'.snap = projection.snap /\ projection'.status \in Awaited
    BY <1>0, <1>9, IntentFields
  <1>10. CASE Unconfigured(h)
    <2>1. \E desired, reason, palette, due, retry :
            projection' = Intent(projection, desired, "failed", reason, palette, due, retry)
      BY <1>10 DEF Unconfigured
    <2>2. "failed" \in Awaited
      BY DEF Awaited
    <2>3. projection'.snap = projection.snap /\ projection'.status \in Awaited
      BY <1>9, <2>1, <2>2
    <2> QED BY <1>2, <1>4, <1>5, <1>10, <2>3 DEF Unconfigured
  <1>11. CASE NotePublishFailure(h)
    <2>1. \E desired, reason, palette, due, retry :
            projection' = Intent(projection, desired, NoteStatus(proc[h].cause), reason, palette, due, retry)
      BY <1>11 DEF NotePublishFailure
    <2>2. NoteStatus(proc[h].cause) \in Awaited
      BY DEF Awaited, NoteStatus
    <2>3. projection'.snap = projection.snap /\ projection'.status \in Awaited
      BY <1>9, <2>1, <2>2
    <2> QED BY <1>2, <1>4, <1>5, <1>11, <2>3 DEF NotePublishFailure
  <1>12. CASE Announce(h)
    <2>1. \E desired, reason, palette, due, retry :
            projection' = Intent(projection, desired, "pending", reason, palette, due, retry)
      BY <1>12 DEF Announce
    <2>2. "pending" \in Awaited
      BY DEF Awaited
    <2>3. projection'.snap = projection.snap /\ projection'.status \in Awaited
      BY <1>9, <2>1, <2>2
    <2>4. PICK pc \in {"unconfigured", "lock"} : Become(h, [proc[h] EXCEPT !.pc = pc])
      BY <1>12 DEF Announce, Goto
    <2>5. [proc[h] EXCEPT !.pc = pc].pc = pc /\ pc # "intent"
      BY <1>0, PcFields
    <2>6. projection.snap # presentation.readme
      <3>1. proc[h].pc \in GoingPcs
        BY <1>12, PastPcsFacts DEF Announce
      <3> QED BY <3>1 DEF Prepared, Ahead
    <2> DEFINE l == [proc[h] EXCEPT !.pc = pc]
    <2>7. l.pc # "intent" /\ Become(h, l)
      BY <2>4, <2>5
    <2> HIDE DEF l
    <2>8. Ahead(l, projection'.snap, presentation'.readme, projection'.status, Broken')
      BY <1>1, <2>3, <2>6, <2>7 DEF Ahead
    <2> QED BY <1>2, <1>5, <2>3, <2>7, <2>8, BecomeAhead
  <1> QED BY <1>6, <1>7, <1>8, <1>10, <1>11, <1>12

\* A publisher's step ends in its section.
LEMMA InsideStays ==
    ASSUME TypeOK, NEW h \in Handlers, Inside(h)
    PROVE  /\ proc'[h].pc \in LockedPcs
           /\ MarkReadmeVerified(h) \/ SetReadmeApplied(h) \/ LateStoreFault(h) =>
                proc'[h].pc \in {"apply_published", "release"}
  <1>0. ProcOK /\ proc[h] \in Locals
    BY LocalsOf DEF TypeOK
  <1>1. ASSUME NEW l, Become(h, l)
        PROVE  proc'[h] = l
    BY <1>0, <1>1, BecomePc
  <1>2. ASSUME NEW cause, FailBefore(h, cause) \/ FailAfter(h, cause)
        PROVE  proc'[h].pc = "release"
    BY <1>2, FailPc
  <1>3. ASSUME NEW pc, Goto(h, pc)
        PROVE  proc'[h].pc = pc
    BY <1>3, GotoPc
  <1>4. /\ {"lease", "readme", "previews", "save", "light", "dark", "put_readme", "verify_readme",
            "verify_light", "verify_dark", "stamp", "apply_published", "release"} \subseteq LockedPcs
    BY DEF LockedPcs, LeasePcs
  <1>5. CASE MarkReadmeVerified(h)
    <2>1. CASE MayStamp(h)
      <3>1. proc'[h] = [proc[h] EXCEPT !.pc = "apply_published"]
        BY <1>5, <2>1 DEF MarkReadmeVerified
      <3>2. proc'[h].pc = "apply_published"
        BY <1>0, <3>1 DEF Locals
      <3> QED BY <1>4, <3>2
    <2>2. CASE ~MayStamp(h)
      <3>1. Goto(h, "apply_published") \/ FailAfter(h, "github_write")
        BY <1>5, <2>2 DEF MarkReadmeVerified
      <3> QED BY <1>2, <1>3, <1>4, <3>1
    <2> QED BY <2>1, <2>2
  <1>6. CASE SetReadmeApplied(h) \/ LateStoreFault(h)
    <2>1. /\ [proc[h] EXCEPT !.pc = "release", !.current = FALSE].pc = "release"
          /\ [proc[h] EXCEPT !.pc = "release", !.cause = "github_write",
                             !.raised = "github_write"].pc = "release"
      BY <1>0 DEF Locals
    <2>2. proc'[h].pc = "release"
      BY <1>1, <1>6, <2>1 DEF SetReadmeApplied, LateStoreFault
    <2> QED BY <1>4, <2>2
  <1>7. ASSUME ~MarkReadmeVerified(h), ~SetReadmeApplied(h), ~LateStoreFault(h)
        PROVE  proc'[h].pc \in LockedPcs
    <2>1. CASE \E cause : FailBefore(h, cause) \/ FailAfter(h, cause)
      BY <1>2, <1>4, <2>1
    <2>2. CASE \E pc \in {"readme", "dark", "put_readme", "verify_light", "verify_dark", "save", "stamp"} :
                 Goto(h, pc)
      BY <1>3, <1>4, <2>2
    <2>3. CASE Become(h, [proc[h] EXCEPT !.row = projection.snap, !.pc = "lease"])
      <3>1. [proc[h] EXCEPT !.row = projection.snap, !.pc = "lease"].pc = "lease"
        BY <1>0 DEF Locals
      <3> QED BY <1>1, <1>4, <2>3, <3>1
    <2>4. CASE Become(h, [proc[h] EXCEPT !.pc = "verify_readme", !.readme = Idle.readme])
      <3>1. [proc[h] EXCEPT !.pc = "verify_readme", !.readme = Idle.readme].pc = "verify_readme"
        BY <1>0 DEF Locals
      <3> QED BY <1>1, <1>4, <2>4, <3>1
    <2>5. CASE GetReadme(h)
      <3> DEFINE l(current) == [proc[h] EXCEPT !.readme = repo.readme, !.pc = "previews", !.current = current]
      <3>1. \A current : l(current).pc = "previews"
        BY <1>0 DEF Locals
      <3>2. PICK current : Become(h, l(current))
        BY <2>5 DEF GetReadme
      <3> HIDE DEF l
      <3> QED BY <1>1, <1>4, <3>1, <3>2
    <2>6. CASE GetPreviews(h)
      <3> DEFINE l(pc, current) == [proc[h] EXCEPT !.pc = pc, !.current = current]
      <3>1. \A pc, current : l(pc, current).pc = pc
        BY <1>0 DEF Locals
      <3>2. PICK pc, current : Become(h, l(pc, current)) /\ pc \in {"save", "light"}
        BY <2>6 DEF GetPreviews
      <3> HIDE DEF l
      <3> QED BY <1>1, <1>4, <3>1, <3>2
    <2> QED BY <1>7, <2>1, <2>2, <2>3, <2>4, <2>5, <2>6
            DEF Inside, ReadRow, AcquirePublishLease, PutLight, PutDark, PutReadme, VerifyReadme, VerifyLight,
                VerifyDark, Verify, SavePresentation, Fault, ReadFault, WriteFault, VerifyFault, StoreFault
  <1> QED BY <1>5, <1>6, <1>7

\* Up to the stamp a publisher has announced what it shows; from then on the
\* files are what the wall says.
LEMMA PublishAhead ==
    ASSUME TypeOK, InTurn, Proven, Prepared, OneAtATime, OneAtATime', TotalsKept',
           NEW h \in Handlers, Lock(h) \/ Inside(h)
    PROVE  Prepared'
  <1>0. PresentationOK
    BY DEF TypeOK
  <1>1. /\ \A g \in Handlers \ {h} : proc'[g].pc = proc[g].pc
        /\ proc'[h].pc \in LockedPcs
    <2>1. {"row", "release"} \subseteq LockedPcs
      BY DEF LockedPcs, LeasePcs
    <2> QED BY <2>1, LockFrame, InsideFrame, InsideStays DEF Same
  <1>2. proc'[h].pc # "intent" /\ proc'[h].pc # "idle"
    BY <1>1, AnnouncedFacts, OpenPcs
  <1>3. CASE /\ proc[h].pc \in AnnouncedPcs /\ UNCHANGED projection
             /\ presentation'.readme = presentation.readme
    <2>1. Repairable'
      BY <1>3, WriterRepairs
    <2>2. proc[h].pc \in GoingPcs
      BY <1>3, AnnouncedFacts
    <2>3. projection.snap # presentation.readme /\ projection.status \in Awaited
      BY <1>3, <2>2 DEF Prepared, Ahead
    <2>4. Ahead(proc'[h], projection'.snap, presentation'.readme, projection'.status, Broken')
      BY <1>2, <1>3, <2>3 DEF Ahead
    <2> QED BY <1>1, <1>2, <2>1, <2>4, AheadStep
  <1>4. CASE /\ ~Broken /\ repo' = repo /\ presentation'.asset = presentation.asset
             /\ proc'[h].pc \in {"apply_published", "release"}
    <2>1. ~Broken'
      BY <1>4 DEF Broken, Shows
    <2>2. proc'[h].pc \notin GoingPcs
      BY <1>4, AnnouncedFacts
    <2>3. Ahead(proc'[h], projection'.snap, presentation'.readme, projection'.status, Broken')
      BY <1>2, <2>2, AnnouncedFacts DEF Ahead
    <2> QED BY <1>1, <1>2, <2>1, <2>3, AheadStep
  <1>5. CASE Inside(h) /\ MarkReadmeVerified(h)
    <2>1. ~Broken
      BY <1>5 DEF MarkReadmeVerified, Proven, Broken, Shows
    <2>2. repo' = repo /\ presentation'.asset = presentation.asset
      BY <1>0, <1>5 DEF MarkReadmeVerified, PresentationOK
    <2> QED BY <1>4, <1>5, <2>1, <2>2, InsideStays
  <1>6. CASE Inside(h) /\ (SetReadmeApplied(h) \/ LateStoreFault(h))
    <2>1. proc[h].pc = "apply_published" /\ UNCHANGED <<presentation, repo>>
      BY <1>6 DEF SetReadmeApplied, LateStoreFault
    <2>2. presentation.readme = projection.snap
      BY <2>1, FaithfulNow DEF Faithful
    <2>3. ~Broken
      BY <2>2 DEF Prepared, Repairable
    <2> QED BY <1>4, <1>6, <2>1, <2>3, InsideStays
  <1>7. ASSUME Lock(h) \/ Inside(h), ~MarkReadmeVerified(h), ~SetReadmeApplied(h), ~LateStoreFault(h)
        PROVE  /\ proc[h].pc \in AnnouncedPcs /\ UNCHANGED projection
               /\ presentation'.readme = presentation.readme
    <2>1. proc[h].pc \in {"lock", "row", "lease", "readme", "previews", "light", "dark", "put_readme",
                          "verify_readme", "verify_light", "verify_dark", "save", "stamp"}
      BY <1>7 DEF Lock, Inside, ReadRow, AcquirePublishLease, GetReadme, GetPreviews, PutLight, PutDark, PutReadme,
             VerifyReadme, VerifyLight, VerifyDark, Verify, SavePresentation,
             Fault, ReadFault, WriteFault, VerifyFault, StoreFault
    <2>2. UNCHANGED projection /\ (SavePresentation(h) \/ UNCHANGED presentation)
      BY <1>7 DEF Lock, Inside, ReadRow, AcquirePublishLease, GetReadme, GetPreviews, PutLight, PutDark, PutReadme,
             VerifyReadme, VerifyLight, VerifyDark, Verify, SavePresentation,
             Fault, ReadFault, WriteFault, VerifyFault, StoreFault, store
    <2>3. presentation'.readme = presentation.readme
      BY <1>0, <2>2 DEF SavePresentation, PresentationOK
    <2> QED BY <2>1, <2>2, <2>3, AnnouncedFacts
  <1>8. Lock(h) => ~MarkReadmeVerified(h) /\ ~SetReadmeApplied(h) /\ ~LateStoreFault(h)
    BY DEF Lock, MarkReadmeVerified, SetReadmeApplied, LateStoreFault
  <1> QED BY <1>3, <1>5, <1>6, <1>7, <1>8

\* Requests that are lost and steps of nobody.
LEMMA OtherAhead ==
    ASSUME TypeOK, Prepared, TotalsKept', \A g \in Handlers : proc'[g].pc = proc[g].pc \/ proc'[g].pc = "idle",
           \A g \in Handlers : proc[g].pc = "intent" /\ proc'[g].pc = "intent" =>
             proc'[g].intent.status = proc[g].intent.status,
           SameFiles, presentation'.asset = presentation.asset, presentation'.readme = presentation.readme,
           projection'.snap = projection.snap, projection'.status = projection.status
    PROVE  Prepared'
  <1>1. Broken' = Broken
    BY FilesStay
  <1>2. Broken' => Repairable'
    BY <1>1, StillRepairable
  <1>3. ASSUME NEW g \in Handlers
        PROVE  Ahead(proc'[g], projection'.snap, presentation'.readme, projection'.status, Broken')
    <2>1. Ahead(proc[g], projection.snap, presentation.readme, projection.status, Broken)
      BY DEF Prepared
    <2> QED BY <1>1, <2>1, AnnouncedFacts DEF Ahead
  <1> QED BY <1>2, <1>3 DEF Prepared

LEMMA StillAhead ==
    ASSUME TypeOK, Prepared, TotalsKept', NEW due,
           \/ UNCHANGED <<projection, presentation, repo, proc>>
           \/ OwnerCommit
           \/ Reach(due) /\ UNCHANGED <<presentation, repo>>
    PROVE  Prepared'
  <1>0. projection \in Rows /\ \A g \in Handlers : proc[g] \in Locals
    BY LocalsOf DEF TypeOK, ProjectionOK
  <1>1. CASE UNCHANGED <<projection, presentation, repo, proc>>
    BY <1>1, OtherAhead DEF SameFiles
  <1>2. CASE OwnerCommit
    <2>1. SameFiles
      <3>1. repo' = [repo EXCEPT !.readme.text = repo.readme.text + 1]
        BY <1>2 DEF OwnerCommit
      <3> QED BY <3>1 DEF TypeOK, RepoOK, Readmes, SameFiles
    <2> QED BY <1>2, <2>1, OtherAhead DEF OwnerCommit, store
  <1>3. CASE Reach(due) /\ UNCHANGED <<presentation, repo>>
    <2>1. PICK d : projection' = [projection EXCEPT !.due = d]
      BY <1>3 DEF Reach
    <2>2. projection'.snap = projection.snap /\ projection'.status = projection.status
      BY <1>0, <2>1 DEF Rows
    <2>3. ASSUME NEW g \in Handlers
          PROVE  proc'[g].pc = proc[g].pc /\ proc'[g].intent.status = proc[g].intent.status
      <3>1. PICK e : proc'[g] = [proc[g] EXCEPT !.intent.due = e]
        BY <1>3 DEF Reach
      <3>2. PICK i : i = proc[g].intent /\ i \in Rows
        BY <1>0 DEF Locals
      <3>3. proc'[g].pc = proc[g].pc /\ proc'[g].intent = [i EXCEPT !.due = e]
        BY <1>0, <3>1, <3>2 DEF Locals
      <3>4. [i EXCEPT !.due = e].status = i.status
        BY <3>2 DEF Rows
      <3> QED BY <3>2, <3>3, <3>4
    <2> QED BY <1>3, <2>2, <2>3, OtherAhead DEF SameFiles
  <1> QED BY <1>1, <1>2, <1>3

LEMMA LossAhead ==
    ASSUME TypeOK, InTurn, Prepared, TotalsKept',
           (\E h \in Handlers : ClientGone(h)) \/ (\E s \in Servers : Restart(s))
    PROVE  Prepared'
  <1>1. UNCHANGED <<projection, presentation>>
    BY LossTurn
  <1>2. UNCHANGED repo /\ \E hs \in SUBSET Handlers : Gone(hs)
    BY DEF ClientGone, Restart
  <1>3. \A g \in Handlers : proc'[g] = Idle \/ proc'[g] = proc[g]
    BY <1>2 DEF Gone
  <1>4. Idle.pc = "idle"
    BY DEF Idle
  <1> QED BY <1>1, <1>2, <1>3, <1>4, OtherAhead DEF SameFiles

\* No two at a time: the writers of the files among them.
LEMMA OneIsOneWriter == OneAtATime => OneWriter
  <1>1. "idle" \notin WritePcs
    BY DEF WritePcs, LeasePcs
  <1> QED BY <1>1 DEF OneAtATime, OneWriter

LEMMA PreparedStep ==
    ASSUME SoundSnapshots, Owners = {}, TypeOK, TypeOK', InTurn, Proven, Prepared, OneAtATime, OneAtATime',
           NeverBack \/ UNCHANGED vars, [Next]_vars
    PROVE  Prepared'
  <1>1. TotalsKept'
    <2>1. RegistersMove
      BY TurnStays
    <2> QED BY <2>1, TotalsStay DEF Prepared
  <1>2. CASE \/ \E d \in Devices : Scan(d)
             \/ LastFourHours \/ LeaseLapse \/ OwnerCommit \/ UNCHANGED vars
    <2>1. UNCHANGED <<projection, presentation, repo, proc>> \/ OwnerCommit
      BY <1>2 DEF Scan, LastFourHours, LeaseLapse, vars, store
    <2> QED BY <1>1, <2>1, StillAhead
  <1>3. CASE Midnight \/ DueReached
    <2>1. PICK due : Reach(due) /\ UNCHANGED <<presentation, repo>>
      BY <1>3 DEF Midnight, DueReached
    <2> QED BY <1>1, <2>1, StillAhead
  <1>4. CASE \E s \in Servers : Restart(s)
    BY <1>1, <1>4, LossAhead
  <1>5. ASSUME NEW h \in Handlers,
               \/ Receive(h) \/ Consider(h) \/ Lock(h) \/ Publish(h) \/ WorkerTick(h)
               \/ Fault(h) \/ Miss(h) \/ ClientGone(h),
               NeverBack
        PROVE  Prepared'
    <2>1. CASE \/ \E d \in Devices : ReceivePut(h, d)
               \/ PutRead(h) \/ ReadWall(h) \/ Decide(h) \/ CoalesceRead(h) \/ PickPalette(h)
               \/ WorkRow(h) \/ WorkerTick(h) \/ Release(h)
      BY <2>1, DecisionAhead
    <2>2. CASE \/ PutSave(h) \/ ApplySame(h) \/ WriteIntent(h) \/ Announce(h) \/ Unconfigured(h)
               \/ NotePublishFailure(h)
      BY <1>1, <1>5, <2>2, IntentAhead
    <2>3. CASE Lock(h) \/ Inside(h)
      BY <1>1, <2>3, PublishAhead
    <2>4. CASE ClientGone(h)
      BY <1>1, <2>4, LossAhead
    <2>5. /\ ~ThemeRow(h) /\ ~ThemeDecide(h) /\ ~NoteRow(h) /\ ~Miss(h)
          /\ \A palette : ~ReceiveTheme(h, palette) /\ ~ReceiveRetry(h, palette)
      BY NoOwnerSteps, NoMiss
    <2> QED BY <1>5, <2>1, <2>2, <2>3, <2>4, <2>5 DEF Receive, Consider, Publish, Inside
  <1> QED BY <1>2, <1>3, <1>4, <1>5 DEF Next, Calendar, Rest

LEMMA PreparedInit ==
    ASSUME ~LegacyWall, Init
    PROVE  Prepared
  <1>1. projection = NoProjection /\ presentation = NoPresentation
        /\ repo = [readme |-> [text |-> 0, shot |-> NoShot], light |-> NoShot, dark |-> NoShot]
    BY DEF Init, FreshStart, LegacyStart
  <1>2. ~Broken /\ presentation.readme = NoSnap
    BY <1>1 DEF Broken, Shows, NoPresentation
  <1>3. TotalsKept
    BY <1>2 DEF TotalsKept
  <1>4. \A h \in Handlers : proc[h].pc = "idle"
    <2>1. Idle.pc = "idle"
      BY DEF Idle
    <2> QED BY <2>1 DEF Init
  <1> QED BY <1>2, <1>3, <1>4, AnnouncedFacts DEF Prepared, Ahead

\* A wall that GitHub shows half of, or that differs from the stored
\* presentation, has an intent that the worker selects: as long as no two
\* requests or worker passes overlap, no owner asks for a theme, and no upload
\* brings back the snapshot of the verified wall after another was stored.
THEOREM BrokenIsPursued ==
    ASSUME Owners = {}, MaxMisses = 0, ~LegacyWall, SoundSnapshots
    PROVE  Spec /\ []OneAtATime /\ [][NeverBack]_vars => []BrokenWallIsPursued
  <1>1. Init => InTurn /\ Proven /\ Prepared
    BY TurnInit, LeaseInit, PreparedInit
  <1>2. TypeOK /\ OneAtATime /\ InTurn /\ Proven /\ Prepared /\ [Next]_vars /\ [NeverBack]_vars
          /\ TypeOK' /\ OneAtATime'
          => InTurn' /\ Proven' /\ Prepared'
    <2> SUFFICES ASSUME TypeOK, OneAtATime, InTurn, Proven, Prepared, [Next]_vars, [NeverBack]_vars,
                        TypeOK', OneAtATime'
                 PROVE  InTurn' /\ Proven' /\ Prepared'
      OBVIOUS
    <2>1. InTurn'
      BY TurnStays
    <2>2. Proven'
      BY OneIsOneWriter, ProvenStep
    <2>3. Prepared'
      BY PreparedStep
    <2> QED BY <2>1, <2>2, <2>3
  <1>3. InTurn /\ Prepared => BrokenWallIsPursued
    BY DEF InTurn, Prepared, Broken, Repairable, Awaited, BrokenWallIsPursued, Pursued
  <1> QED BY <1>1, <1>2, <1>3, TypeCorrect, PTL DEF Spec

-----------------------------------------------------------------------------
(* The owner's own commits *)

\* A README is written only over the version that was read, and keeps the text
\* around the activity block.
LEMMA TextStays ==
    ASSUME TypeOK, [Next]_vars
    PROVE  repo'.readme.text >= repo.readme.text
  <1>0. repo.readme \in Readmes /\ repo.readme.text \in Nat
        /\ repo \in [readme : Readmes, light : Shots \cup {NoShot}, dark : Shots \cup {NoShot}]
    BY Constants DEF TypeOK, RepoOK, Readmes
  <1>1. CASE repo'.readme = repo.readme
    BY <1>0, <1>1
  <1>2. CASE OwnerCommit
    <2>1. PICK t : repo' = [repo EXCEPT !.readme.text = t] /\ t = repo.readme.text + 1
      BY <1>2 DEF OwnerCommit
    <2>2. repo'.readme.text = t
      BY <1>0, <2>1 DEF Readmes
    <2> QED BY <1>0, <2>1, <2>2
  <1>3. ASSUME NEW shot, repo' = [repo EXCEPT !.light = shot] \/ repo' = [repo EXCEPT !.dark = shot]
        PROVE  repo'.readme = repo.readme
    BY <1>0, <1>3
  <1>4. ASSUME NEW h \in Handlers, repo.readme = proc[h].readme, repo' = [repo EXCEPT !.readme = ReadmeOf(h)]
        PROVE  repo'.readme.text >= repo.readme.text
    <2>1. repo'.readme.text = repo.readme.text
      BY <1>0, <1>4 DEF ReadmeOf
    <2> QED BY <1>0, <2>1
  <1>5. ASSUME NEW h \in Handlers, PutReadme(h)
        PROVE  repo'.readme.text >= repo.readme.text
    BY <1>1, <1>4, <1>5 DEF PutReadme
  <1>6. ASSUME NEW h \in Handlers, PutLight(h) \/ PutDark(h)
        PROVE  repo'.readme = repo.readme
    BY <1>3, <1>6 DEF PutLight, PutDark
  <1>7. ASSUME NEW h \in Handlers, NEW cause, WriteFault(h, cause)
        PROVE  repo'.readme.text >= repo.readme.text
    BY <1>1, <1>3, <1>4, <1>7 DEF WriteFault
  <1>8. CASE \E h \in Handlers :
               \/ Receive(h) \/ Consider(h) \/ Lock(h) \/ WorkerTick(h) \/ Miss(h) \/ ClientGone(h)
               \/ (Publish(h) /\ ~PutReadme(h) /\ ~PutLight(h) /\ ~PutDark(h))
               \/ (\E cause : ReadFault(h, cause)) \/ VerifyFault(h) \/ StoreFault(h) \/ LateStoreFault(h)
    <2>1. ASSUME NEW h \in Handlers, Receive(h) \/ WorkerTick(h) \/ Consider(h) \/ Lock(h)
          PROVE  UNCHANGED repo
      BY <2>1 DEF Receive, ReceivePut, ReceiveTheme, ReceiveRetry, WorkerTick, Lock, Consider, PutRead,
             PutSave, ReadWall, Decide, ApplySame, CoalesceRead, WriteIntent, PickPalette, Announce,
             Unconfigured, ThemeRow, ThemeDecide, WorkRow
    <2>2. ASSUME NEW h \in Handlers, Publish(h), ~PutReadme(h), ~PutLight(h), ~PutDark(h)
          PROVE  UNCHANGED repo
      BY <2>2 DEF Publish, ReadRow, AcquirePublishLease, GetReadme, GetPreviews, VerifyReadme, VerifyLight,
             VerifyDark, Verify, SavePresentation, MarkReadmeVerified, SetReadmeApplied, Release, NoteRow,
             NotePublishFailure
    <2>3. ASSUME NEW h \in Handlers,
                 \/ Miss(h) \/ ClientGone(h) \/ (\E cause : ReadFault(h, cause))
                 \/ VerifyFault(h) \/ StoreFault(h) \/ LateStoreFault(h)
          PROVE  UNCHANGED repo
      BY <2>3 DEF Miss, ReadMiss, WriteMiss, ClientGone, ReadFault, VerifyFault, StoreFault, LateStoreFault
    <2>4. UNCHANGED repo
      BY <1>8, <2>1, <2>2, <2>3
    <2> QED BY <1>1, <2>4
  <1>9. CASE \/ \E d \in Devices : Scan(d)
             \/ \E s \in Servers : Restart(s)
             \/ Calendar \/ Rest \/ UNCHANGED vars
    <2>1. UNCHANGED repo
      BY <1>9 DEF Scan, Restart, Calendar, LastFourHours, Midnight, DueReached, LeaseLapse, Rest, vars
    <2> QED BY <1>1, <2>1
  <1> QED BY <1>1, <1>2, <1>5, <1>6, <1>7, <1>8, <1>9 DEF Next, Fault

\* No publisher, however many there are and whatever fails between the read and
\* the write, discards a commit the owner made to the README.
THEOREM EditsSurvive == Spec => OwnerEditsSurvive
  <1>1. TypeOK /\ [Next]_vars => [repo'.readme.text >= repo.readme.text]_vars
    BY TextStays
  <1> QED BY <1>1, TypeCorrect, PTL DEF Spec, OwnerEditsSurvive

-----------------------------------------------------------------------------
(* The owner's palette *)

\* From its choice of a palette to its release.
PublishPcs == LockedPcs \cup {"announce", "lock"}

\* At most one handler has a palette it may publish.
OnePublishes ==
    \A g, h \in Handlers :
      /\ proc[g].pc \in PublishPcs /\ ServerOf[g] \notin Misconfigured
      /\ proc[h].pc \in PublishPcs /\ ServerOf[h] \notin Misconfigured
      => g = h

\* The requests that bring a palette with them.
OwnerOps == {"theme", "retry", "worktheme"}

\* A usage publish holds the palette of the wall, once there is one.
HoldsPalette(h, l, pres) ==
    /\ l.pc \in LockedPcs \ {"release"} => ServerOf[h] \notin Misconfigured
    /\ l.pc \in {"theme_row", "theme_decide"} => l.op \in OwnerOps
    /\ /\ l.op \notin OwnerOps /\ l.pc \in PublishPcs
       /\ ServerOf[h] \notin Misconfigured /\ pres.asset # NoShot
       => l.palette = pres.palette

PaletteHeld ==
    budget.misses = 0 /\ \A h \in Handlers : HoldsPalette(h, proc[h], presentation)

\* What a step of h may make of its locals.
PaletteMove(h, l) ==
    \/ l.pc \notin PublishPcs \cup {"theme_row", "theme_decide"}
    \/ /\ l.op \in OwnerOps
       /\ l.pc \in LockedPcs \ {"release"} => ServerOf[h] \notin Misconfigured
    \/ /\ SamePalette(h, l) /\ proc[h].pc \in PublishPcs /\ l.pc \in PublishPcs
       /\ l.pc \in LockedPcs \ {"release"} => ServerOf[h] \notin Misconfigured

LEMMA PublishPcsFacts ==
    /\ {"idle", "put_read", "put_save", "read_wall", "decide", "apply_same", "coalesce", "intent",
        "pick_palette", "unconfigured", "note_row", "note", "theme_row", "theme_decide", "work_row"}
         \cap PublishPcs = {}
    /\ {"lock", "announce"} \cap LockedPcs = {} /\ {"lock", "announce"} \subseteq PublishPcs
    /\ {"row", "lease", "readme", "previews", "light", "dark", "put_readme", "verify_readme",
        "verify_light", "verify_dark", "save", "stamp", "apply_published"} \subseteq LockedPcs \ {"release"}
    /\ LockedPcs \subseteq PublishPcs
  BY DEF PublishPcs, LockedPcs, LeasePcs

LEMMA PaletteStep ==
    ASSUME TypeOK, PaletteHeld, NEW h \in Handlers, NEW l, Become(h, l), PaletteMove(h, l),
           presentation'.asset = presentation.asset, presentation'.palette = presentation.palette,
           budget'.misses = budget.misses
    PROVE  PaletteHeld'
  <1>1. proc'[h] = l /\ \A g \in Handlers \ {h} : proc'[g] = proc[g]
    BY BecomePc DEF TypeOK
  <1>2. HoldsPalette(h, l, presentation)
    BY PublishPcsFacts DEF PaletteMove, PaletteHeld, HoldsPalette, SamePalette
  <1> QED BY <1>1, <1>2 DEF PaletteHeld, HoldsPalette

LEMMA PaletteStays ==
    ASSUME TypeOK, PaletteHeld, presentation'.asset = presentation.asset,
           presentation'.palette = presentation.palette, budget'.misses = budget.misses,
           \A g \in Handlers : \/ proc'[g].pc = "idle"
                               \/ /\ proc'[g].pc = proc[g].pc /\ proc'[g].op = proc[g].op
                                  /\ proc'[g].palette = proc[g].palette
    PROVE  PaletteHeld'
  <1>1. "idle" \notin PublishPcs /\ "idle" \notin LockedPcs
    BY DEF PublishPcs, LockedPcs, LeasePcs
  <1> QED BY <1>1 DEF PaletteHeld, HoldsPalette

LEMMA GotoMove ==
    ASSUME TypeOK, NEW h \in Handlers, NEW pc, Goto(h, pc)
    PROVE  \E l : /\ Become(h, l) /\ l.pc = pc /\ SamePalette(h, l)
  <1>1. proc[h] \in Locals
    BY LocalsOf
  <1>2. SamePalette(h, [proc[h] EXCEPT !.pc = pc]) /\ [proc[h] EXCEPT !.pc = pc].pc = pc
    BY <1>1 DEF SamePalette, Locals
  <1> QED BY <1>2 DEF Goto

\* Requests, decisions and what comes after a publish.
LEMMA OpenMoves ==
    ASSUME TypeOK, PaletteHeld, NEW h \in Handlers,
           \/ Receive(h) \/ WorkerTick(h) \/ (Consider(h) /\ ~PickPalette(h))
           \/ NoteRow(h) \/ NotePublishFailure(h) \/ Release(h)
    PROVE  \E l : Become(h, l) /\ PaletteMove(h, l)
  <1>0. proc[h] \in Locals
    BY LocalsOf
  <1>1. ASSUME Finish(h)
        PROVE  \E l : Become(h, l) /\ PaletteMove(h, l)
    <2>1. Idle.pc = "idle"
      BY DEF Idle
    <2> QED BY <1>1, <2>1, PublishPcsFacts DEF Finish, PaletteMove
  <1>2. ASSUME NEW pc, Goto(h, pc), pc \notin PublishPcs \cup {"theme_row", "theme_decide"}
        PROVE  \E l : Become(h, l) /\ PaletteMove(h, l)
    BY <1>2, GotoMove DEF PaletteMove
  <1>3. CASE Receive(h)
    <2> DEFINE asked(pc, op, palette) == [Idle EXCEPT !.pc = pc, !.op = op, !.palette = palette]
               put(cand) == [Idle EXCEPT !.pc = "put_read", !.op = "put", !.cand = cand]
    <2>1. /\ \A cand : put(cand).pc = "put_read"
          /\ \A pc, op, palette : asked(pc, op, palette).pc = pc /\ asked(pc, op, palette).op = op
      BY DEF Idle
    <2>2. \/ \E cand : Become(h, put(cand))
          \/ \E palette : \/ Become(h, asked("theme_row", "theme", palette))
                         \/ Become(h, asked("lock", "retry", palette))
      BY <1>3 DEF Receive, ReceivePut, ReceiveTheme, ReceiveRetry
    <2> HIDE DEF asked, put
    <2> QED BY <2>1, <2>2, PublishPcsFacts DEF PaletteMove, OwnerOps
  <1>4. CASE WorkerTick(h)
    <2>1. [Idle EXCEPT !.pc = "work_row", !.op = "work"].pc = "work_row"
      BY DEF Idle
    <2>2. PICK l : Become(h, l) /\ l.pc = "work_row"
      BY <1>4, <2>1 DEF WorkerTick
    <2> QED BY <2>2, PublishPcsFacts DEF PaletteMove
  <1>5. CASE PutRead(h) \/ PutSave(h) \/ ApplySame(h) \/ WriteIntent(h) \/ Unconfigured(h)
             \/ NotePublishFailure(h) \/ Release(h)
    <2>1. Finish(h) \/ \E pc \in {"put_save", "read_wall", "note_row", "note"} : Goto(h, pc)
      BY <1>5 DEF PutRead, PutSave, ApplySame, WriteIntent, Unconfigured, NotePublishFailure, Release
    <2> QED BY <1>1, <1>2, <2>1, PublishPcsFacts
  <1>6. CASE ReadWall(h) \/ CoalesceRead(h) \/ NoteRow(h)
    <2>1. /\ [proc[h] EXCEPT !.wall = VerifiedWall(presentation), !.pc = "decide"].pc = "decide"
          /\ \A i : [proc[h] EXCEPT !.pc = "intent", !.intent = i].pc = "intent"
          /\ [proc[h] EXCEPT !.cand = projection.snap, !.pc = "note"].pc = "note"
      BY <1>0 DEF Locals
    <2>2. Finish(h) \/ \E l : Become(h, l) /\ l.pc \in {"decide", "intent", "note"}
      BY <1>6, <2>1 DEF ReadWall, CoalesceRead, NoteRow
    <2> QED BY <1>1, <2>2, PublishPcsFacts DEF PaletteMove
  <1>7. CASE Decide(h)
    <2>1. PICK in : Become(h, Decided(h, in))
      BY <1>7 DEF Decide
    <2>2. \A pc : [proc[h] EXCEPT !.pc = pc, !.wall = NoWall].pc = pc
      BY <1>0 DEF Locals
    <2>3. \A i : [[proc[h] EXCEPT !.pc = "intent", !.wall = NoWall] EXCEPT !.intent = i].pc = "intent"
      BY <1>0 DEF Locals
    <2>4. Idle.pc = "idle"
      BY DEF Idle
    <2>5. Decided(h, in).pc \in {"pick_palette", "coalesce", "intent", "apply_same", "idle"}
      BY <2>2, <2>3, <2>4 DEF Decided
    <2> QED BY <2>1, <2>5, PublishPcsFacts DEF PaletteMove
  <1>8. CASE Announce(h)
    <2>1. PICK pc \in {"unconfigured", "lock"} : Goto(h, pc)
      BY <1>8 DEF Announce
    <2>2. PICK l : Become(h, l) /\ l.pc = pc /\ SamePalette(h, l)
      BY <2>1, GotoMove
    <2>3. proc[h].pc = "announce"
      BY <1>8 DEF Announce
    <2> QED BY <2>2, <2>3, PublishPcsFacts DEF PaletteMove
  <1>9. CASE ThemeRow(h)
    <2> DEFINE l(pc) == [proc[h] EXCEPT !.cand = projection.snap, !.pc = pc]
    <2>1. \A pc : l(pc).pc = pc /\ l(pc).op = proc[h].op
      BY <1>0 DEF Locals
    <2>2. PICK pc \in {"lock", "theme_decide"} : Become(h, l(pc))
      BY <1>9 DEF ThemeRow
    <2>3. proc[h].pc = "theme_row"
      BY <1>9 DEF ThemeRow
    <2> HIDE DEF l
    <2>4. proc[h].op \in OwnerOps
      BY <2>3 DEF PaletteHeld, HoldsPalette
    <2> QED BY <2>1, <2>2, <2>4, PublishPcsFacts DEF PaletteMove
  <1>10. CASE ThemeDecide(h)
    <2>1. proc[h].pc = "theme_decide" /\ (Finish(h) \/ Goto(h, "lock"))
      BY <1>10 DEF ThemeDecide
    <2>2. proc[h].op \in OwnerOps
      BY <2>1 DEF PaletteHeld, HoldsPalette
    <2>3. CASE Goto(h, "lock")
      BY <2>2, <2>3, GotoMove, PublishPcsFacts DEF PaletteMove, SamePalette
    <2> QED BY <1>1, <2>1, <2>3
  <1>11. CASE WorkRow(h)
    <2> DEFINE l(op, palette, pc) == [proc[h] EXCEPT !.cand = projection.snap, !.op = op,
                                                     !.palette = palette, !.pc = pc]
    <2>1. \A op, palette, pc : l(op, palette, pc).pc = pc /\ l(op, palette, pc).op = op
      BY <1>0 DEF Locals
    <2>2. \E palette : Become(h, l("worktheme", palette, "lock")) \/ Become(h, l("work", palette, "read_wall"))
      BY <1>11 DEF WorkRow
    <2> HIDE DEF l
    <2> QED BY <2>1, <2>2, PublishPcsFacts DEF PaletteMove, OwnerOps
  <1> QED BY <1>3, <1>4, <1>5, <1>6, <1>7, <1>8, <1>9, <1>10, <1>11 DEF Consider

\* A publisher keeps its palette; only one of a configured process locks.
LEMMA InsideMoves ==
    ASSUME TypeOK, PaletteHeld, NEW h \in Handlers,
           Lock(h) \/ (Inside(h) /\ ~(MarkReadmeVerified(h) /\ MayStamp(h)))
    PROVE  \E l : Become(h, l) /\ PaletteMove(h, l)
  <1>0. proc[h] \in Locals
    BY LocalsOf
  <1>1. ASSUME NEW l, Become(h, l), SamePalette(h, l), proc[h].pc \in LockedPcs \ {"release"},
               l.pc \in LockedPcs
        PROVE  \E k : Become(h, k) /\ PaletteMove(h, k)
    BY <1>1, PublishPcsFacts DEF PaletteMove, PaletteHeld, HoldsPalette
  <1>2. ASSUME NEW cause, FailBefore(h, cause) \/ FailAfter(h, cause), proc[h].pc \in PublishPcs
        PROVE  \E l : Become(h, l) /\ PaletteMove(h, l)
    <2>1. PICK l : Become(h, l) /\ l.pc = "release" /\ SamePalette(h, l)
      BY <1>2, FailedLocals
    <2>2. "release" \in PublishPcs
      BY DEF PublishPcs, LockedPcs, LeasePcs
    <2> QED BY <1>2, <2>1, <2>2 DEF PaletteMove
  <1>3. CASE Lock(h)
    <2>1. CASE FailBefore(h, "github_write")
      BY <1>2, <1>3, <2>1, PublishPcsFacts DEF Lock
    <2>2. CASE ServerOf[h] \notin Misconfigured /\ Goto(h, "row")
      <3>1. PICK l : Become(h, l) /\ l.pc = "row" /\ SamePalette(h, l)
        BY <2>2, GotoMove
      <3> QED BY <1>3, <2>2, <3>1, PublishPcsFacts DEF PaletteMove, Lock
    <2> QED BY <1>3, <2>1, <2>2 DEF Lock
  <1>4. CASE Inside(h) /\ ~(MarkReadmeVerified(h) /\ MayStamp(h))
    <2>1. proc[h].pc \in LockedPcs \ {"release"} /\ proc[h].pc \in PublishPcs
      <3>1. proc[h].pc \in {"row", "lease", "readme", "previews", "light", "dark", "put_readme",
               "verify_readme", "verify_light", "verify_dark", "save", "stamp", "apply_published"}
        BY <1>4 DEF Inside, ReadRow, AcquirePublishLease, GetReadme, GetPreviews, PutLight, PutDark, PutReadme,
           VerifyReadme, VerifyLight, VerifyDark, Verify, SavePresentation, MarkReadmeVerified,
           SetReadmeApplied, Fault, ReadFault, WriteFault, VerifyFault, StoreFault, LateStoreFault
      <3> QED BY <3>1, PublishPcsFacts
    <2>2. \/ \E cause : FailBefore(h, cause) \/ FailAfter(h, cause)
          \/ \E pc \in {"readme", "dark", "put_readme", "verify_light", "verify_dark", "save", "stamp",
                        "apply_published"} : Goto(h, pc)
          \/ ReadRow(h) \/ GetReadme(h) \/ GetPreviews(h) \/ PutReadme(h) \/ SetReadmeApplied(h)
          \/ LateStoreFault(h)
      BY <1>4 DEF Inside, AcquirePublishLease, PutLight, PutDark, VerifyReadme, VerifyLight, VerifyDark,
           Verify, SavePresentation, MarkReadmeVerified, Fault, ReadFault, WriteFault, VerifyFault, StoreFault
    <2>3. CASE \E pc \in {"readme", "dark", "put_readme", "verify_light", "verify_dark", "save", "stamp",
                        "apply_published"} : Goto(h, pc)
      BY <1>1, <2>1, <2>3, GotoMove, PublishPcsFacts
    <2>4. CASE ReadRow(h)
      <3> DEFINE l == [proc[h] EXCEPT !.row = projection.snap, !.pc = "lease"]
      <3>1. SamePalette(h, l) /\ l.pc = "lease"
        BY <1>0 DEF Locals, SamePalette
      <3>2. Become(h, l) \/ FailBefore(h, "github_write")
        BY <2>4 DEF ReadRow
      <3> HIDE DEF l
      <3> QED BY <1>1, <1>2, <2>1, <3>1, <3>2, PublishPcsFacts
    <2>5. CASE GetReadme(h)
      <3> DEFINE l(current) == [proc[h] EXCEPT !.readme = repo.readme, !.pc = "previews", !.current = current]
      <3>1. \A current : SamePalette(h, l(current)) /\ l(current).pc = "previews"
        BY <1>0 DEF Locals, SamePalette
      <3>2. PICK current : Become(h, l(current))
        BY <2>5 DEF GetReadme
      <3> HIDE DEF l
      <3> QED BY <1>1, <2>1, <3>1, <3>2, PublishPcsFacts
    <2>6. CASE GetPreviews(h)
      <3> DEFINE l(pc, current) == [proc[h] EXCEPT !.pc = pc, !.current = current]
      <3>1. \A pc, current : SamePalette(h, l(pc, current)) /\ l(pc, current).pc = pc
        BY <1>0 DEF Locals, SamePalette
      <3>2. PICK pc, current : Become(h, l(pc, current)) /\ pc \in {"save", "light"}
        BY <2>6 DEF GetPreviews
      <3> HIDE DEF l
      <3> QED BY <1>1, <2>1, <3>1, <3>2, PublishPcsFacts
    <2>7. CASE PutReadme(h)
      <3> DEFINE l == [proc[h] EXCEPT !.pc = "verify_readme", !.readme = Idle.readme]
      <3>1. SamePalette(h, l) /\ l.pc = "verify_readme"
        BY <1>0 DEF Locals, SamePalette
      <3>2. Become(h, l) \/ FailAfter(h, "conflict")
        BY <2>7 DEF PutReadme
      <3> HIDE DEF l
      <3> QED BY <1>1, <1>2, <2>1, <3>1, <3>2, PublishPcsFacts
    <2>8. CASE SetReadmeApplied(h) \/ LateStoreFault(h)
      <3> DEFINE l == [proc[h] EXCEPT !.pc = "release", !.current = FALSE]
                 m == [proc[h] EXCEPT !.pc = "release", !.cause = "github_write", !.raised = "github_write"]
      <3>1. SamePalette(h, l) /\ l.pc = "release" /\ SamePalette(h, m) /\ m.pc = "release"
        BY <1>0 DEF Locals, SamePalette
      <3>2. Become(h, l) \/ Become(h, m)
        BY <2>8 DEF SetReadmeApplied, LateStoreFault
      <3>3. "release" \in LockedPcs
        BY DEF LockedPcs, LeasePcs
      <3> HIDE DEF l, m
      <3> QED BY <1>1, <2>1, <3>1, <3>2, <3>3
    <2> QED BY <1>2, <2>1, <2>2, <2>3, <2>4, <2>5, <2>6, <2>7, <2>8
  <1> QED BY <1>3, <1>4

LEMMA PickMove ==
    ASSUME TypeOK, PaletteHeld, NEW h \in Handlers, PickPalette(h)
    PROVE  PaletteHeld'
  <1>0. proc[h] \in Locals /\ UNCHANGED <<presentation, budget>>
    BY LocalsOf DEF PickPalette, store, env
  <1> DEFINE l == [proc[h] EXCEPT !.palette = UsagePalette(presentation), !.pc = "announce"]
  <1>1. Become(h, l)
    BY DEF PickPalette
  <1>2. l.pc = "announce" /\ l.palette = UsagePalette(presentation)
    BY <1>0 DEF Locals
  <1> HIDE DEF l
  <1>3. HoldsPalette(h, l, presentation)
    BY <1>2, PublishPcsFacts DEF HoldsPalette, UsagePalette
  <1>4. proc'[h] = l /\ \A g \in Handlers \ {h} : proc'[g] = proc[g]
    BY <1>1, BecomePc DEF TypeOK
  <1> QED BY <1>0, <1>3, <1>4 DEF PaletteHeld

\* A promotion finds no other publisher that has chosen a palette.
LEMMA SaveMove ==
    ASSUME TypeOK, PaletteHeld, OnePublishes, NEW h \in Handlers, SavePresentation(h)
    PROVE  PaletteHeld'
  <1>1. PICK l : Become(h, l) /\ l.pc = "stamp" /\ SamePalette(h, l)
    BY GotoMove DEF SavePresentation
  <1>2. proc[h].pc = "save" /\ presentation'.palette = proc[h].palette /\ UNCHANGED budget
    BY DEF SavePresentation, TypeOK, PresentationOK, env
  <1>3. proc'[h] = l /\ \A g \in Handlers \ {h} : proc'[g] = proc[g]
    BY <1>1, BecomePc DEF TypeOK
  <1>4. proc[h].pc \in PublishPcs /\ ServerOf[h] \notin Misconfigured
    BY <1>2, PublishPcsFacts DEF PaletteHeld, HoldsPalette
  <1>5. HoldsPalette(h, l, presentation')
    BY <1>1, <1>2, <1>4 DEF HoldsPalette, SamePalette
  <1>6. \A g \in Handlers \ {h} : HoldsPalette(g, proc[g], presentation')
    BY <1>4 DEF OnePublishes, PaletteHeld, HoldsPalette
  <1> QED BY <1>2, <1>3, <1>5, <1>6 DEF PaletteHeld

LEMMA StampMove ==
    ASSUME TypeOK, PaletteHeld, NEW h \in Handlers, MarkReadmeVerified(h), MayStamp(h)
    PROVE  PaletteHeld'
  <1>0. \A g \in Handlers : proc[g] \in Locals
    BY LocalsOf
  <1>1. PICK late \in SUBSET {g \in Handlers \ {h} : Publishing(g)} :
          proc' = [g \in Handlers |->
                     IF g = h THEN [proc[h] EXCEPT !.pc = "apply_published"]
                     ELSE IF g \in late THEN [proc[g] EXCEPT !.late = TRUE]
                     ELSE proc[g]]
    BY DEF MarkReadmeVerified
  <1>2. /\ proc'[h].pc = "apply_published" /\ SamePalette(h, proc'[h])
        /\ \A g \in Handlers \ {h} : /\ proc'[g].pc = proc[g].pc /\ proc'[g].op = proc[g].op
                                     /\ proc'[g].palette = proc[g].palette
    BY <1>0, <1>1 DEF Locals, SamePalette
  <1>3. /\ presentation'.asset = presentation.asset /\ presentation'.palette = presentation.palette
        /\ UNCHANGED budget /\ proc[h].pc = "stamp"
    BY DEF MarkReadmeVerified, TypeOK, PresentationOK, env
  <1>4. HoldsPalette(h, proc'[h], presentation)
    BY <1>2, <1>3, PublishPcsFacts DEF PaletteHeld, HoldsPalette, SamePalette
  <1> QED BY <1>2, <1>3, <1>4 DEF PaletteHeld, HoldsPalette

\* Who is at work keeps or chooses its palette; only a promotion moves the
\* stored one.
LEMMA PaletteTurn ==
    ASSUME TypeOK, PaletteHeld, OnePublishes, NEW h \in Handlers,
           \/ Receive(h) \/ Consider(h) \/ Lock(h) \/ Publish(h) \/ WorkerTick(h)
           \/ Fault(h) \/ Miss(h) \/ ClientGone(h)
    PROVE  /\ PaletteHeld'
           /\ presentation'.palette # presentation.palette \/ presentation'.asset # presentation.asset
                => SavePresentation(h)
  <1>0. ~Miss(h)
    BY DEF PaletteHeld, Miss, ReadMiss, WriteMiss, CanSpend
  <1>1. CASE SavePresentation(h)
    BY <1>1, SaveMove
  <1>2. CASE ClientGone(h)
    <2>1. Gone({h}) /\ UNCHANGED presentation /\ budget'.misses = budget.misses
      BY <1>2, Spent DEF ClientGone
    <2>2. Idle.pc = "idle"
      BY DEF Idle
    <2>3. PaletteHeld'
      BY <2>1, <2>2, PaletteStays DEF Gone
    <2> QED BY <2>1, <2>3
  <1>3. CASE PickPalette(h)
    BY <1>3, PickMove DEF PickPalette, store
  <1>4. CASE MarkReadmeVerified(h) /\ MayStamp(h)
    BY <1>4, StampMove DEF MarkReadmeVerified, TypeOK, PresentationOK
  <1>5. ASSUME \/ Receive(h) \/ WorkerTick(h) \/ (Consider(h) /\ ~PickPalette(h))
               \/ NoteRow(h) \/ NotePublishFailure(h) \/ Release(h) \/ Lock(h)
               \/ (Inside(h) /\ ~(MarkReadmeVerified(h) /\ MayStamp(h)) /\ ~SavePresentation(h))
        PROVE  PaletteHeld' /\ UNCHANGED presentation
    <2>1. UNCHANGED presentation
      <3>1. CASE Receive(h) \/ WorkerTick(h) \/ Consider(h) \/ NoteRow(h) \/ NotePublishFailure(h)
        <4>1. Outside
          BY <3>1 DEF Outside
        <4> QED BY <4>1, OutsideFrame
      <3>2. CASE Release(h) \/ Lock(h)
        BY <3>2 DEF Release, Lock
      <3>3. CASE Inside(h) /\ ~(MarkReadmeVerified(h) /\ MayStamp(h)) /\ ~SavePresentation(h)
        BY <3>3 DEF Inside, ReadRow, AcquirePublishLease, GetReadme, GetPreviews, PutLight, PutDark, PutReadme,
           VerifyReadme, VerifyLight, VerifyDark, Verify, MarkReadmeVerified, SetReadmeApplied,
           Fault, ReadFault, WriteFault, VerifyFault, StoreFault, LateStoreFault, store
      <3> QED BY <1>5, <3>1, <3>2, <3>3
    <2>2. budget'.misses = budget.misses
      <3>1. CASE Receive(h)
        BY <3>1, Spent DEF Receive, ReceivePut, ReceiveTheme, ReceiveRetry
      <3>2. CASE Fault(h)
        BY <3>2, Spent DEF Fault, ReadFault, WriteFault, VerifyFault, StoreFault, LateStoreFault
      <3>3. CASE WorkerTick(h) \/ Consider(h) \/ NoteRow(h) \/ NotePublishFailure(h) \/ Release(h) \/ Lock(h)
        BY <3>3 DEF WorkerTick, Consider, PutRead, PutSave, ReadWall, Decide, ApplySame, CoalesceRead,
             WriteIntent, PickPalette, Announce, Unconfigured, ThemeRow, ThemeDecide, WorkRow, NoteRow,
             NotePublishFailure, Release, Lock, env
      <3>4. CASE Inside(h) /\ ~Fault(h)
        BY <3>4 DEF Inside, ReadRow, AcquirePublishLease, GetReadme, GetPreviews, PutLight, PutDark, PutReadme,
           VerifyReadme, VerifyLight, VerifyDark, Verify, SavePresentation, MarkReadmeVerified,
           SetReadmeApplied, env
      <3> QED BY <1>5, <3>1, <3>2, <3>3, <3>4
    <2>3. \E l : Become(h, l) /\ PaletteMove(h, l)
      BY <1>5, OpenMoves, InsideMoves
    <2> QED BY <2>1, <2>2, <2>3, PaletteStep
  <1>6. Publish(h) => Inside(h) \/ Release(h) \/ NoteRow(h) \/ NotePublishFailure(h)
    BY DEF Publish, Inside
  <1>7. Fault(h) => Inside(h)
    BY DEF Inside
  <1> QED BY <1>0, <1>1, <1>2, <1>3, <1>4, <1>5, <1>6, <1>7

\* The step that changes the palette of the wall publishes an owner's request.
OwnersChange ==
    presentation.asset # NoShot /\ presentation'.palette # presentation.palette =>
      \E h \in Handlers : /\ proc[h].pc = "save"
                          /\ proc[h].op \in {"theme", "retry", "worktheme"}

LEMMA PaletteKept ==
    ASSUME TypeOK, PaletteHeld, OnePublishes, [Next]_vars
    PROVE  PaletteHeld' /\ OwnersChange
  <1>1. ASSUME NEW h \in Handlers,
               \/ Receive(h) \/ Consider(h) \/ Lock(h) \/ Publish(h) \/ WorkerTick(h)
               \/ Fault(h) \/ Miss(h) \/ ClientGone(h)
        PROVE  PaletteHeld' /\ OwnersChange
    <2>1. CASE SavePresentation(h) /\ proc[h].op \notin OwnerOps
      <3>1. proc[h].pc \in PublishPcs /\ ServerOf[h] \notin Misconfigured
        BY <2>1, PublishPcsFacts DEF PaletteHeld, HoldsPalette, SavePresentation
      <3>2. presentation.asset # NoShot => proc[h].palette = presentation.palette
        BY <2>1, <3>1 DEF PaletteHeld, HoldsPalette
      <3>3. presentation'.palette = proc[h].palette
        BY <2>1 DEF SavePresentation, TypeOK, PresentationOK
      <3> QED BY <1>1, <3>2, <3>3, PaletteTurn DEF OwnersChange
    <2>2. CASE SavePresentation(h) /\ proc[h].op \in OwnerOps
      BY <1>1, <2>2, PaletteTurn DEF OwnersChange, SavePresentation, OwnerOps
    <2>3. CASE ~SavePresentation(h)
      BY <1>1, <2>3, PaletteTurn DEF OwnersChange
    <2> QED BY <2>1, <2>2, <2>3
  <1>2. ASSUME NEW s \in Servers, Restart(s)
        PROVE  PaletteHeld' /\ OwnersChange
    <2>1. /\ Gone({h \in Handlers : ServerOf[h] = s}) /\ budget'.misses = budget.misses
          /\ presentation'.palette = presentation.palette /\ presentation'.asset = presentation.asset
      BY <1>2, Spent DEF Restart, Backfilled
    <2>2. Idle.pc = "idle"
      BY DEF Idle
    <2>3. PaletteHeld'
      BY <2>1, <2>2, PaletteStays DEF Gone
    <2> QED BY <2>1, <2>3 DEF OwnersChange
  <1>3. CASE (\E d \in Devices : Scan(d)) \/ LastFourHours \/ LeaseLapse \/ OwnerCommit \/ UNCHANGED vars
    <2>1. UNCHANGED <<presentation, proc>>
      BY <1>3 DEF Scan, LastFourHours, LeaseLapse, OwnerCommit, vars, store
    <2>2. budget'.misses = budget.misses
      BY <1>3, Spent DEF Scan, LastFourHours, LeaseLapse, OwnerCommit, vars, env
    <2>3. PaletteHeld'
      BY <2>1, <2>2, PaletteStays
    <2> QED BY <2>1, <2>3 DEF OwnersChange
  <1>4. CASE Midnight \/ DueReached
    <2>1. PICK due : Reach(due) /\ UNCHANGED presentation /\ budget'.misses = budget.misses
      BY <1>4 DEF Midnight, DueReached, env
    <2>2. \A g \in Handlers : /\ proc'[g].pc = proc[g].pc /\ proc'[g].op = proc[g].op
                              /\ proc'[g].palette = proc[g].palette
      <3>1. \A g \in Handlers : proc[g] \in Locals
        BY LocalsOf
      <3> QED BY <2>1, <3>1 DEF Reach, Locals
    <2>3. PaletteHeld'
      BY <2>1, <2>2, PaletteStays
    <2> QED BY <2>1, <2>3 DEF OwnersChange
  <1> QED BY <1>1, <1>2, <1>3, <1>4 DEF Next, Calendar, Rest

\* "It uses the verified palette when one exists": while no two publishes that
\* have chosen their palette overlap, only an owner's request changes the
\* palette of the wall.  The choice is made before publishMu is taken, so two
\* publishes that overlap there can undo it.
THEOREM PaletteSticks ==
    ASSUME MaxMisses = 0
    PROVE  Spec /\ []OnePublishes => OwnerPaletteSticks
  <1>1. Init => PaletteHeld
    <2>1. Idle.pc = "idle"
      BY DEF Idle
    <2>2. "idle" \notin PublishPcs /\ "idle" \notin LockedPcs
      BY DEF PublishPcs, LockedPcs, LeasePcs
    <2> QED BY <2>1, <2>2 DEF Init, PaletteHeld, HoldsPalette
  <1>2. TypeOK /\ PaletteHeld /\ OnePublishes /\ [Next]_vars => PaletteHeld'
    BY PaletteKept
  <1>3. TypeOK /\ PaletteHeld /\ OnePublishes /\ [Next]_vars =>
          [presentation.asset # NoShot /\ presentation'.palette # presentation.palette =>
             \E h \in Handlers : /\ proc[h].pc = "save"
                                /\ proc[h].op \in {"theme", "retry", "worktheme"}]_vars
    BY PaletteKept DEF OwnersChange
  <1> QED BY <1>1, <1>2, <1>3, TypeCorrect, PTL DEF Spec, OwnerPaletteSticks
=============================================================================
