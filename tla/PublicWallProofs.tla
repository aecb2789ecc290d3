-------------------------- MODULE PublicWallProofs --------------------------
(***************************************************************************)
(* The promise of the public wall for every set of uploads and days.       *)
(***************************************************************************)
EXTENDS PublicWall, TLAPS

-----------------------------------------------------------------------------
(* The gates. *)

\* Whatever its reason, a publication that DecidePublication lets through has a
\* known total, does not fall below a known verified total unless a permit
\* explains the drop, and does not go back to an earlier owner-local date.
THEOREM PublishedNeverRegresses ==
    ASSUME NEW in,
           DecidePublication(in).action = "PUBLISH_NOW"
    PROVE  /\ in.cand.total # None
           /\ in.wall.proven /\ in.wall.total # None
                => ~(in.cand.total < in.wall.total) \/ in.explained
           /\ in.wall.proven => ~earlierLocalDate(in.cand.date, in.wall.date)
  BY DEF DecidePublication, Decision, Publishable, Shrinks

\* A replacement measures every agent that was measured.
LEMMA ReplacementKeepsMeasured ==
    ASSUME NEW prev, NEW next, prev # NoSnap,
           ShouldReplaceProjection(prev, next)
    PROVE  MeasuredIn(prev) \subseteq MeasuredIn(next)
  BY DEF ShouldReplaceProjection, lostMeasuredProvider

\* A total that did not regress is known if it was, and is not smaller.
LEMMA NotRegressed ==
    ASSUME NEW prev, NEW next,
           prev.total \in Int \cup {None}, next.total \in Int \cup {None},
           prev.total # None, ~TokenRegressed(prev, next)
    PROVE  next.total # None /\ prev.total <= next.total
  BY PolicyAssumption DEF TokenRegressed

-----------------------------------------------------------------------------
(* The registers. *)

LEMMA UploadTotals ==
    ASSUME NEW s \in Uploads
    PROVE  s # NoSnap /\ s.total \in Int \cup {None} /\ s.date \in Nat
  BY UploadsAssumption

LEMMA RegistersInvariant == Spec => []Registers
  <1>1. Init => Registers
    BY DEF Init, Registers
  <1>2. Registers /\ [Next]_wallVars => Registers'
    BY DEF Registers, Next, Show, Accept, wallVars
  <1> QED BY <1>1, <1>2, PTL DEF Spec

WallInv == Registers /\ ShownIsBehind

\* The stored snapshot never falls behind the wall.  Each upload is compared
\* with the stored snapshot alone; by induction it is also ahead of the wall.
LEMMA AcceptKeepsAhead ==
    ASSUME WallInv, NEW s \in Uploads, Accept(s)
    PROVE  ShownIsBehind'
  <1> USE DEF WallInv, Accept
  <1>1. CASE accepted = NoSnap
    BY <1>1, UploadTotals DEF ShownIsBehind, Known
  <1>2. CASE accepted # NoSnap
    <2>1. accepted \in Uploads
      BY <1>2 DEF Registers
    <2>2. shown # NoSnap => accepted' # NoSnap
      BY UploadTotals
    <2>3. Known(shown)' => Known(accepted)' /\ shown'.total <= accepted'.total
      <3> SUFFICES ASSUME Known(shown)
                   PROVE  Known(s) /\ shown.total <= s.total
        BY DEF Known
      <3>1. shown \in Uploads
        BY DEF Known, Registers
      <3>2. accepted.total # None /\ shown.total <= accepted.total
        BY DEF ShownIsBehind, Known
      <3>3. s.total # None /\ accepted.total <= s.total
        BY <1>2, <2>1, <3>2, UploadTotals, NotRegressed
      <3>4. shown.total \in Int /\ accepted.total \in Int /\ s.total \in Int
        BY <2>1, <3>1, <3>2, <3>3, UploadTotals DEF Known
      <3> QED BY <3>2, <3>3, <3>4, UploadTotals DEF Known
    <2>4. shown' # NoSnap => MeasuredIn(shown') \subseteq MeasuredIn(accepted')
      BY <1>2, ReplacementKeepsMeasured DEF ShownIsBehind
    <2> QED BY <2>2, <2>3, <2>4 DEF ShownIsBehind
  <1> QED BY <1>1, <1>2

LEMMA ShowKeepsAhead ==
    ASSUME WallInv, Show
    PROVE  ShownIsBehind'
  <1>1. accepted \in Uploads /\ accepted' = accepted /\ shown' = accepted
    BY DEF WallInv, Registers, Show
  <1>2. Known(accepted) => accepted.total <= accepted.total
    BY <1>1, UploadTotals DEF Known
  <1> QED BY <1>1, <1>2, UploadTotals DEF ShownIsBehind, Known

\* The stored snapshot is never behind the wall, for any uploads.
THEOREM StoredIsNeverBehind == Spec => []ShownIsBehind
  <1>1. Init => WallInv
    BY DEF Init, WallInv, Registers, ShownIsBehind, Known
  <1>2. WallInv /\ [Next]_wallVars => ShownIsBehind'
    <2> SUFFICES ASSUME WallInv, [Next]_wallVars
                 PROVE  ShownIsBehind'
      OBVIOUS
    <2>1. CASE Show
      BY <2>1, ShowKeepsAhead
    <2>2. ASSUME NEW s \in Uploads, Accept(s)
          PROVE  ShownIsBehind'
      BY <2>2, AcceptKeepsAhead
    <2>3. CASE UNCHANGED wallVars
      BY <2>3 DEF WallInv, ShownIsBehind, Known, wallVars
    <2> QED BY <2>1, <2>2, <2>3 DEF Next
  <1> QED BY <1>1, <1>2, RegistersInvariant, PTL DEF Spec, WallInv

\* What the wall shows after a step is what it showed or the stored snapshot.
LEMMA ShownMoves ==
    ASSUME [Next]_wallVars
    PROVE  shown' = shown \/ (Show /\ shown' = accepted)
  BY DEF Next, Show, Accept, wallVars

\* The total on GitHub never falls and never becomes unknown.
THEOREM TotalNeverFalls == Spec => ShownTotalNeverFalls
  <1>1. WallInv /\ [Next]_wallVars
          => [Known(shown) => Known(shown') /\ shown.total <= shown'.total]_wallVars
    <2> SUFFICES ASSUME WallInv, [Next]_wallVars, Known(shown)
                 PROVE  Known(shown') /\ shown.total <= shown'.total
      OBVIOUS
    <2>1. CASE shown' = shown
      BY <2>1, UploadTotals DEF WallInv, Registers, Known
    <2>2. CASE shown' = accepted
      BY <2>2 DEF WallInv, ShownIsBehind
    <2> QED BY <2>1, <2>2, ShownMoves
  <1> QED BY <1>1, RegistersInvariant, StoredIsNeverBehind, PTL
        DEF Spec, WallInv, ShownTotalNeverFalls

\* An agent measured on the wall stays measured on it.
THEOREM MeasuredAgentsStay == Spec => ShownKeepsMeasuredAgents
  <1>1. WallInv /\ [Next]_wallVars
          => [shown # NoSnap => MeasuredIn(shown) \subseteq MeasuredIn(shown')]_wallVars
    BY ShownMoves DEF WallInv, ShownIsBehind
  <1> QED BY <1>1, RegistersInvariant, StoredIsNeverBehind, PTL
        DEF Spec, WallInv, ShownKeepsMeasuredAgents

\* The date of the wall never goes back: here the decision itself is needed,
\* for the stored snapshot may be of an earlier day.
THEOREM DateNeverFalls == Spec => ShownDateNeverFalls
  <1>1. Registers /\ [Next]_wallVars
          => [shown # NoSnap /\ shown.date # NoDate /\ shown'.date # NoDate
                => shown.date <= shown'.date]_wallVars
    <2> SUFFICES ASSUME Registers, [Next]_wallVars, shown # NoSnap,
                        shown.date # NoDate, shown'.date # NoDate
                 PROVE  shown.date <= shown'.date
      OBVIOUS
    <2>0. shown \in Uploads /\ shown.date \in Nat
      BY UploadTotals DEF Registers
    <2>1. CASE shown' = shown
      BY <2>0, <2>1
    <2>2. CASE Show /\ shown' = accepted
      <3>1. accepted \in Uploads /\ accepted.date \in Nat
        BY <2>2, UploadTotals DEF Registers, Show
      <3>2. PICK in \in Inputs(accepted, WallOf(shown)) :
              DecidePublication(in).action = "PUBLISH_NOW"
        BY <2>2 DEF Show
      <3>3. in.cand = accepted /\ in.wall.proven /\ in.wall.date = shown.date
        BY DEF Inputs, WallOf
      <3>4. ~earlierLocalDate(accepted.date, shown.date)
        BY <3>2, <3>3, PublishedNeverRegresses
      <3> QED BY <2>0, <2>2, <3>1, <3>4 DEF earlierLocalDate
    <2> QED BY <2>1, <2>2, ShownMoves
  <1> QED BY <1>1, RegistersInvariant, PTL DEF Spec, ShownDateNeverFalls

-----------------------------------------------------------------------------
(* The midnight hold. *)

\* What a held change says of the wall: it is proved, its total is known and not
\* above the candidate's, and its date is not another than the candidate's.
LEMMA HeldSays ==
    ASSUME NEW in, Held(in)
    PROVE  /\ ~in.offline
           /\ Publishable(in.cand)
           /\ ~(Shrinks(in) /\ ~in.explained)
           /\ in.wall.proven
           /\ in.wall.total # None
           /\ ~earlierLocalDate(in.cand.date, in.wall.date)
           /\ in.cand.date = in.today
  BY DEF Held, DecidePublication, Decision, MergesWithMidnight

\* A change held before midnight is in the first snapshot of the new day that
\* keeps its total, and DecidePublication lets that one through at whatever
\* hour it comes, from the worker or from an upload: whatever was uploaded and
\* shown before, and whatever the deltas are.
THEOREM HeldIsPublished == Spec => []HeldChangeIsPublishedNextDay
  <1>1. Registers => HeldChangeIsPublishedNextDay
    <2> SUFFICES ASSUME Registers, accepted # NoSnap,
                        NEW in \in Inputs(accepted, WallOf(shown)), Held(in),
                        NEW closing \in BOOLEAN, NEW fromWorker \in BOOLEAN
                 PROVE  DecidePublication(AfterMidnight(in, [in.cand EXCEPT !.date = in.today + 1],
                                                        fromWorker, closing)).action
                          = "PUBLISH_NOW"
      BY DEF HeldChangeIsPublishedNextDay
    <2> DEFINE cand == [in.cand EXCEPT !.date = in.today + 1]
               then == AfterMidnight(in, cand, fromWorker, closing)
    <2>1. accepted \in Uploads /\ in.cand = accepted /\ in.wall = WallOf(shown)
          /\ in.today \in Nat /\ in.offline = FALSE /\ in.explained = FALSE
      BY UploadsAssumption DEF Registers, Inputs
    <2>2. shown \in Uploads /\ in.wall.date = shown.date /\ shown.date \in Nat \ {NoDate}
      BY <2>1, HeldSays, UploadsAssumption DEF Registers, WallOf, NoWall
    <2>3. cand.date = in.today + 1 /\ cand.total = in.cand.total
          /\ cand.dataStatus = in.cand.dataStatus
      BY <2>1, UploadsAssumption
    <2>4. /\ then.cand = cand /\ then.accepted = cand /\ then.wall = in.wall
          /\ then.offline = FALSE /\ then.explained = FALSE
      BY <2>1 DEF AfterMidnight, Inputs
    <2> HIDE DEF cand, then
    <2>5. Publishable(then.cand) /\ ~CoverageLost(then) /\ ~Shrinks(then)
      BY <2>1, <2>3, <2>4, HeldSays DEF Publishable, CoverageLost, Shrinks
    <2>6. in.today >= in.wall.date
      <3>1. in.today \in Nat \ {NoDate}
        BY <2>1, HeldSays, UploadsAssumption
      <3> QED BY <2>1, <2>2, <3>1, HeldSays DEF earlierLocalDate
    <2>7. in.wall.date # NoDate /\ cand.date # NoDate /\ cand.date > in.wall.date
          /\ ~(cand.date < in.wall.date)
      BY <2>1, <2>2, <2>3, <2>6 DEF NoDate
    <2>8. ~earlierLocalDate(then.cand.date, then.wall.date) /\ dateRollover(then.wall, then.cand)
      BY <2>4, <2>7, HeldSays DEF earlierLocalDate, laterLocalDate, dateRollover
    <2>9. then.wall.total # None
      BY <2>4, HeldSays
    <2>10. DecidePublication(then).action = "PUBLISH_NOW"
      BY <2>4, <2>5, <2>8, <2>9 DEF DecidePublication, Decision
    <2> QED BY <2>10 DEF then, cand
  <1> QED BY <1>1, RegistersInvariant, PTL

\* Until that snapshot comes, the worker that wakes at midnight with the held
\* change as its pending intent finds nothing to publish.
THEOREM HeldIsNotPublishedAlone == Spec => []HeldChangeIsNotPublishedAlone
  <1>1. Registers => HeldChangeIsNotPublishedAlone
    <2> SUFFICES ASSUME Registers, accepted # NoSnap,
                        NEW in \in Inputs(accepted, WallOf(shown)), Held(in)
                 PROVE  DecidePublication(AfterMidnight(in, in.cand, TRUE, FALSE)).action
                          = "NO_CHANGE"
      BY DEF HeldChangeIsNotPublishedAlone
    <2> DEFINE then == AfterMidnight(in, in.cand, TRUE, FALSE)
    <2>1. /\ in.cand = accepted /\ in.offline = FALSE /\ in.explained = FALSE
          /\ in.today \in Nat /\ in.cand.date \in Nat \ {NoDate}
      BY UploadsAssumption DEF Registers, Inputs
    <2>2. /\ then.cand = in.cand /\ then.accepted = in.cand /\ then.wall = in.wall
          /\ then.offline = FALSE /\ then.explained = FALSE /\ then.theme = in.theme
          /\ then.today = in.today + 1
          /\ then.pending = [snap |-> in.cand, reason |-> "cooldown", failed |-> FALSE]
      BY <2>1 DEF AfterMidnight, Inputs
    <2> HIDE DEF then
    <2>3. ~in.theme /\ ~dateRollover(in.wall, in.cand) /\ in.cand # in.wall.snap
      BY DEF Held, DecidePublication, Decision
    <2>4. Publishable(then.cand) /\ ~CoverageLost(then) /\ ~Shrinks(then)
      BY <2>1, <2>2, HeldSays DEF CoverageLost, Shrinks
    <2>5. ~retryable(then)
      BY <2>2 DEF retryable
    <2>6. HeldForNewDay(then)
      BY <2>1, <2>2, HeldSays DEF HeldForNewDay, earlierLocalDate, NoDate
    <2>7. DecidePublication(then).action = "NO_CHANGE"
      BY <2>2, <2>3, <2>4, <2>5, <2>6, HeldSays DEF DecidePublication, Decision
    <2> QED BY <2>7 DEF then
  <1> QED BY <1>1, RegistersInvariant, PTL
=============================================================================
