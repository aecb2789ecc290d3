----------------------------- MODULE PublicWall -----------------------------
(***************************************************************************)
(* What the hosted control plane promises the readers of a public wall     *)
(* (docs/architecture/public-profile-control-plane.md), without handlers,  *)
(* leases, GitHub or failures: two registers.  `accepted` is the stored    *)
(* snapshot, `shown` the one GitHub was last verified to show.  Uploads    *)
(* pass the gates of PublicationPolicy, and so does every publication, at  *)
(* whatever hour and for whatever reason it is considered.                 *)
(***************************************************************************)
EXTENDS PublicationPolicy

CONSTANTS
    Uploads,  \* the snapshots the devices may upload
    Days      \* the owner's calendar days

\* A document without a valid date fails validation (validate.go:46) and is
\* never an upload.
ASSUME UploadsAssumption ==
    /\ NoSnap \notin Uploads
    /\ \A s \in Uploads :
         /\ s = [total |-> s.total, date |-> s.date, dataStatus |-> s.dataStatus,
                 agents |-> s.agents]
         /\ s.total \in Int \cup {None}
         /\ s.date \in Nat \ {NoDate}
    /\ Days \subseteq Nat

VARIABLES accepted, shown

wallVars == <<accepted, shown>>

Pendings(snap) ==
    [snap : {snap, NoSnap}, reason : {"", "usage", "cooldown"}, failed : BOOLEAN]

\* The wall as GitHub proved it.
WallOf(snap) ==
    IF snap = NoSnap THEN NoWall
    ELSE [proven |-> TRUE, snap |-> snap, total |-> snap.total, date |-> snap.date]

\* What DecidePublication may be asked on the hosted side.
Inputs(cand, wall) ==
    [cand : {cand}, accepted : {cand}, wall : {wall}, pending : Pendings(cand),
     today : Days, closing : BOOLEAN, theme : BOOLEAN, fromWorker : BOOLEAN,
     offline : {FALSE}, explained : {FALSE}]

Init == accepted = NoSnap /\ shown = NoSnap

\* Mutant: the coverage of an upload is compared, its total is not.
Accept_AnyTotal(s) ==
    /\ accepted # NoSnap => ShouldReplaceProjection(accepted, s)
    /\ accepted' = s
    /\ UNCHANGED shown

\* An upload replaces the stored snapshot when both gates let it.
Accept(s) ==
    /\ accepted # NoSnap =>
         ShouldReplaceProjection(accepted, s) /\ ~TokenRegressed(accepted, s)
    /\ accepted' = s
    /\ UNCHANGED shown

\* Mutant: an upload is shown before it is compared and stored.
Show_BeforeAccept ==
    /\ accepted # NoSnap
    /\ shown' \in Uploads
    /\ UNCHANGED accepted

\* GitHub comes to show the accepted snapshot once it may be published.
Show ==
    /\ accepted # NoSnap
    /\ \E in \in Inputs(accepted, WallOf(shown)) : DecidePublication(in).action = "PUBLISH_NOW"
    /\ shown' = accepted
    /\ UNCHANGED accepted

Next == Show \/ \E s \in Uploads : Accept(s)

Spec == Init /\ [][Next]_wallVars

-----------------------------------------------------------------------------
Registers == accepted \in Uploads \cup {NoSnap} /\ shown \in Uploads \cup {NoSnap}

Known(s) == s # NoSnap /\ s.total # None

\* The stored snapshot is never behind the wall: a known total shown on GitHub
\* is known and at least as large in the row that will be published next.
ShownIsBehind ==
    /\ shown # NoSnap => accepted # NoSnap
    /\ Known(shown) => Known(accepted) /\ shown.total <= accepted.total
    /\ shown # NoSnap => MeasuredIn(shown) \subseteq MeasuredIn(accepted)

\* "A smaller total is blocked": the total on GitHub never falls, and one that
\* was known stays known.
ShownTotalNeverFalls ==
    [][Known(shown) => Known(shown') /\ shown.total <= shown'.total]_wallVars

\* An agent whose total was measured on the wall is measured on every later
\* wall, whatever chain of uploads led there ("a provider that previously had
\* measured tokens and is now missing or failed keeps the current projection").
ShownKeepsMeasuredAgents ==
    [][shown # NoSnap => MeasuredIn(shown) \subseteq MeasuredIn(shown')]_wallVars

\* The date of the wall never goes back ("an earlier date [does] not publish").
ShownDateNeverFalls ==
    [][shown # NoSnap /\ shown.date # NoDate /\ shown'.date # NoDate
         => shown.date <= shown'.date]_wallVars

-----------------------------------------------------------------------------
(* The usage change of the last four hours of a day, held for the rollover. *)

Held(in) == DecidePublication(in).action = "WAIT_UNTIL"

\* The input after midnight, with the change that was held before it.
AfterMidnight(in, cand, fromWorker, closing) ==
    [in EXCEPT !.cand = cand, !.accepted = cand, !.today = @ + 1, !.closing = closing,
               !.fromWorker = fromWorker,
               !.pending = [snap |-> in.cand, reason |-> "cooldown", failed |-> FALSE]]

\* A held change is in the first snapshot of the new day that keeps its total,
\* and that one is published at whatever hour it comes.
HeldChangeIsPublishedNextDay ==
    accepted # NoSnap =>
      \A in \in {i \in Inputs(accepted, WallOf(shown)) : Held(i)}, closing, fromWorker \in BOOLEAN :
        DecidePublication(AfterMidnight(in, [in.cand EXCEPT !.date = in.today + 1],
                                        fromWorker, closing)).action = "PUBLISH_NOW"

\* Until that snapshot comes, the worker that wakes at midnight does not
\* publish the held one by itself, which "would create two GitHub commits".
HeldChangeIsNotPublishedAlone ==
    accepted # NoSnap =>
      \A in \in {i \in Inputs(accepted, WallOf(shown)) : Held(i)} :
        DecidePublication(AfterMidnight(in, in.cand, TRUE, FALSE)).action = "NO_CHANGE"
=============================================================================
