------------------------- MODULE PublicationPolicy -------------------------
(***************************************************************************)
(* The pure gates of the public activity wall.                             *)
(*                                                                         *)
(*   ShouldReplaceProjection  may an uploaded snapshot replace the hosted  *)
(*                            one (internal/publicprofile/keep.go)         *)
(*   TokenRegressed           the hosted server's own total check          *)
(*   DecidePublication        may the candidate be written to GitHub       *)
(*                            (internal/publicprofile/publish_policy.go)   *)
(*                                                                         *)
(* A snapshot is its content: the snapshot id is a hash of the canonical   *)
(* document, so equality of ids is equality of records.  Dates are owner   *)
(* calendar days counted from 1; NoDate stands for a missing date.         *)
(***************************************************************************)
EXTENDS Integers, FiniteSets

CONSTANTS
    None,       \* a nil *int64: the total is unknown
    NoSnap,     \* an empty snapshot id: no snapshot
    MinDelta,   \* RefreshMinDelta, the growth worth a commit below Billion
    MinDeltaB,  \* RefreshMinDeltaB, the growth worth a commit above it
    Billion     \* where the larger delta starts to apply

ASSUME PolicyAssumption ==
    /\ None \notin Int
    /\ MinDelta \in Nat \ {0}
    /\ MinDeltaB \in Nat \ {0}
    /\ MinDelta <= MinDeltaB
    /\ Billion \in Nat

NoDate == 0

(***************************************************************************)
(* Agent rows.  `tokens` is coverage.tokens, `status` the status of the    *)
(* total, `failed` one of the three reasons that mean the account read did *)
(* not happen, `held` the shape of a reused account observation.           *)
(***************************************************************************)
coverageRank(status) ==
    CASE status = "available" -> 3 [] status = "partial" -> 2 [] OTHER -> 1

measuredAgent(row) ==
    /\ row.status # "unavailable"
    /\ row.tokens # "unavailable"
    /\ ~row.failed
    /\ row.total # None
    /\ row.total > 0

MeasuredIn(snap) == {a \in DOMAIN snap.agents : measuredAgent(snap.agents[a])}

lostMeasuredProvider(prev, next) == ~(MeasuredIn(prev) \subseteq MeasuredIn(next))

heldAccountObservation(prev, next) ==
    /\ next.held
    /\ next.tokens = "partial"
    /\ prev.total # None /\ next.total # None
    /\ next.total >= prev.total

Weaker(prev, next) ==
    \/ coverageRank(next.tokens) < coverageRank(prev.tokens)
    \/ coverageRank(next.status) < coverageRank(prev.status)

measuredSetHeld(prev, next) ==
    /\ MeasuredIn(prev) # {}
    /\ MeasuredIn(prev) \subseteq MeasuredIn(next)
    /\ \A a \in MeasuredIn(prev) :
         Weaker(prev.agents[a], next.agents[a])
            => heldAccountObservation(prev.agents[a], next.agents[a])

\* Mutant: only the status of the whole document is compared.
ShouldReplaceProjection_StatusOnly(prev, next) ==
    prev = NoSnap \/ coverageRank(next.dataStatus) >= coverageRank(prev.dataStatus)

ShouldReplaceProjection(prev, next) ==
    \/ prev = NoSnap
    \/ /\ ~lostMeasuredProvider(prev, next)
       /\ \/ coverageRank(next.dataStatus) >= coverageRank(prev.dataStatus)
          \/ measuredSetHeld(prev, next)

\* The hosted route's check, made before any save: a total may not shrink,
\* and a known total may not become unknown.
TokenRegressed(prev, next) ==
    prev.total # None /\ (next.total = None \/ next.total < prev.total)

(***************************************************************************)
(* The wall as GitHub last proved it, and the one pending intent.          *)
(***************************************************************************)
NoWall == [proven |-> FALSE, snap |-> NoSnap, total |-> None, date |-> NoDate]

earlierLocalDate(next, prev) == next # NoDate /\ prev # NoDate /\ next < prev
laterLocalDate(next, prev) == next # NoDate /\ prev # NoDate /\ next > prev

\* Mutant: a rollover skips the day after the wall's.
dateRollover_NextButOne(wall, cand) == wall.proven /\ laterLocalDate(cand.date, wall.date + 1)

dateRollover(wall, cand) == wall.proven /\ laterLocalDate(cand.date, wall.date)

retryable(in) ==
    /\ in.pending.failed
    /\ in.pending.snap # NoSnap
    /\ ~(in.wall.proven /\ in.cand = in.wall.snap)

Publishable(cand) == cand.dataStatus \in {"available", "partial"} /\ cand.total # None

CoverageLost(in) ==
    /\ in.accepted # NoSnap
    /\ in.accepted # in.cand
    /\ ~ShouldReplaceProjection(in.accepted, in.cand)

Shrinks(in) == in.wall.proven /\ in.wall.total # None /\ in.cand.total < in.wall.total

\* The midnight-held usage change waits for the snapshot of the new day.
HeldForNewDay(in) ==
    in.pending.reason = "cooldown" /\ earlierLocalDate(in.cand.date, in.today)

MinimumDelta(in) ==
    IF in.cand.total >= Billion \/ in.wall.total >= Billion THEN MinDeltaB ELSE MinDelta

BelowDelta(in) == in.cand.total - in.wall.total < MinimumDelta(in)

MergesWithMidnight(in) == in.cand.date = in.today /\ in.closing

Decision(action, reason) == [action |-> action, reason |-> reason]

(***************************************************************************)
(* One rule for every automatic publication; the first rule that applies   *)
(* decides.  in.closing says that at most four owner-local hours of today  *)
(* remain, in.explained that a ledger permit names exactly this drop.      *)
(***************************************************************************)
DecidePublication(in) ==
    IF in.offline THEN Decision("BLOCKED", "offline")
    ELSE IF ~Publishable(in.cand) THEN Decision("BLOCKED", "unavailable")
    ELSE IF CoverageLost(in) THEN Decision("BLOCKED", "coverage")
    ELSE IF Shrinks(in) /\ ~in.explained THEN Decision("BLOCKED", "negative")
    ELSE IF in.wall.proven /\ earlierLocalDate(in.cand.date, in.wall.date)
         THEN Decision("NO_CHANGE", "earlier_date")
    ELSE IF Shrinks(in) THEN Decision("PUBLISH_NOW", "correction")
    ELSE IF in.theme THEN Decision("PUBLISH_NOW", "theme")
    ELSE IF dateRollover(in.wall, in.cand)
         THEN IF in.wall.total = None THEN Decision("BLOCKED", "unknown_verified")
                                      ELSE Decision("PUBLISH_NOW", "date")
    ELSE IF retryable(in)
         THEN IF in.fromWorker THEN Decision("PUBLISH_NOW", "retry")
                               ELSE Decision("RETRY_PENDING", "retry")
    ELSE IF ~in.wall.proven THEN Decision("PUBLISH_NOW", "first")
    ELSE IF in.cand = in.wall.snap THEN Decision("NO_CHANGE", "same")
    ELSE IF in.wall.total = None THEN Decision("BLOCKED", "unknown_verified")
    ELSE IF HeldForNewDay(in) THEN Decision("NO_CHANGE", "earlier_date")
    ELSE IF BelowDelta(in) THEN Decision("NO_CHANGE", "delta")
    ELSE IF MergesWithMidnight(in) THEN Decision("WAIT_UNTIL", "cooldown")
    ELSE Decision("PUBLISH_NOW", "usage")
=============================================================================
