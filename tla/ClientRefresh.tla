--------------------------- MODULE ClientRefresh ---------------------------
(***************************************************************************)
(* The refresh of the public wall from one machine: `profile refresh` and    *)
(* its watch loop (cli/profile_refresh.go, publicprofile/refresh_apply.go), *)
(* the upload of a hosted sync beside them (cli/sync.go), the network, and   *)
(* a server that keeps the promises of PublicWall.                          *)
(*                                                                         *)
(* A snapshot is made of what is used and the local day.  A refresh holds   *)
(* the scan lock from its scan to its last answer; a sync uploads without   *)
(* it.  A request may reach the server after its sender has given up.       *)
(***************************************************************************)
EXTENDS PublicWall

CONSTANTS
    Watchers,   \* the watch loop: it remembers what was refused
    Commands,   \* `wheretoken profile refresh`, once each time
    Syncers,    \* the dashboard's timer and `wheretoken sync`
    Free,       \* nobody holds the scan lock
    SnapOf(_, _),    \* the snapshot of a day and a total
    Refusable,  \* snapshots the server may refuse with 4xx
    MaxUsed, MaxDate, MaxRuns, MaxTroubles    \* bounds

ASSUME ClientAssumption ==
    /\ Watchers \cap Commands = {} /\ Syncers \cap (Watchers \cup Commands) = {}
    /\ Free \notin Watchers \cup Commands
    /\ Refusable \subseteq Uploads
    /\ MaxUsed \in Nat /\ MaxDate \in Nat \ {0} /\ MaxRuns \in Nat /\ MaxTroubles \in Nat
    /\ \A d \in 1..MaxDate, n \in 1..MaxUsed : SnapOf(d, n) \in Uploads

Refreshers == Watchers \cup Commands

VARIABLES
    intent,    \* readme_status and pending_reason of the stored snapshot
    refused,   \* what it refuses
    used, date, closing,  \* the machine: tokens, local day, its last four hours
    lock,      \* scan.lock
    proc,      \* the refreshes
    rejected,  \* what each watcher has seen refused
    said,      \* what the last refresh said and noted of its snapshot [code, snap]
    queued,    \* the syncs that have built a snapshot
    wire,      \* requests whose sender no longer waits
    bounds
serverVars == <<accepted, shown, intent>>
worldVars == <<refused, used, date, closing>>
clientVars == <<serverVars, worldVars, lock, proc, rejected, said, queued, wire, bounds>>

Applied == [status |-> "applied", reason |-> ""]
Nothing == [publish |-> FALSE, action |-> "", code |-> ""]
Resting == [pc |-> "idle", snap |-> NoSnap, decision |-> Nothing]
Local == SnapOf(date, used)


ClientInit ==
    /\ Init /\ intent = Applied
    /\ refused \in SUBSET Refusable
    /\ used = 1 /\ date = 1 /\ closing = FALSE
    /\ lock = Free /\ proc = [p \in Refreshers |-> Resting]
    /\ rejected = [w \in Watchers |-> {}]
    /\ said = [code |-> "", snap |-> NoSnap]
    /\ queued = [s \in Syncers |-> NoSnap] /\ wire = {}
    /\ bounds = [runs |-> MaxRuns, troubles |-> MaxTroubles]

Trouble == bounds.troubles > 0 /\ bounds' = [bounds EXCEPT !.troubles = @ - 1]

-----------------------------------------------------------------------------
(* The server: the gates of an upload and what becomes of the wall.          *)

Asked(cand, current, pending, fromWorker) ==
    [cand |-> cand, accepted |-> current, wall |-> WallOf(shown), pending |-> pending,
     today |-> date, closing |-> closing, theme |-> FALSE, fromWorker |-> fromWorker,
     offline |-> FALSE, explained |-> FALSE]

\* The intent names the stored snapshot, and outlives the one it was made for.
PendingFor(snap) == [snap |-> snap, reason |-> intent.reason, failed |-> intent.status = "failed"]

Unpublished(decision, snap) ==
    CASE decision.action = "WAIT_UNTIL"    -> [status |-> "pending", reason |-> decision.reason]
      [] decision.action = "RETRY_PENDING" -> [status |-> "failed", reason |-> "retry"]
      [] decision.action = "BLOCKED" /\ decision.reason # "unknown_verified" ->
            [status |-> "blocked_data", reason |-> decision.reason]
      [] decision.action = "NO_CHANGE" /\ snap = shown -> Applied
      [] OTHER -> intent

\* Mutant: a write that GitHub refused leaves no trace.
notePublishFailure_Silent == intent

notePublishFailure == [status |-> "failed", reason |-> "usage"]

\* considerPublication: what it answers, and what becomes of the wall.  GitHub
\* may refuse a write.
Considered(snap, fromWorker) ==
    LET decision == DecidePublication(Asked(snap, snap, PendingFor(snap), fromWorker))
        Outcome(readme, wall, mark) == [readme |-> readme, accepted |-> snap, shown |-> wall, intent |-> mark]
        readme == CASE decision.action = "WAIT_UNTIL" -> "pending"
                    [] decision.action = "BLOCKED"    -> "blocked"
                    [] OTHER                          -> "coalesced"
    IN IF decision.action = "PUBLISH_NOW"
       THEN {Outcome("materialized", snap, Applied), Outcome("deferred", shown, notePublishFailure)}
       ELSE {Outcome(readme, shown, Unpublished(decision, snap))}

Kept(snap) ==
    IF accepted = NoSnap THEN ""
    ELSE IF TokenRegressed(accepted, snap) THEN "regression"
    ELSE IF ~ShouldReplaceProjection(accepted, snap) THEN "coverage" ELSE ""

\* A PUT: refused, kept out by a gate, or stored and then considered.
Handled(snap) ==
    LET before(answer) == [readme |-> answer, accepted |-> accepted, shown |-> shown, intent |-> intent]
    IN IF snap \in refused THEN {before("refused")}
       ELSE IF Kept(snap) # "" THEN {before(Kept(snap))}
       ELSE Considered(snap, FALSE)

Becomes(outcome) ==
    /\ accepted' = outcome.accepted
    /\ shown' = outcome.shown
    /\ intent' = outcome.intent

\* A PUT that nobody waits for.
Unheard(snap) == \E outcome \in Handled(snap) : Becomes(outcome)

\* The maintenance worker: what is due and not yet shown is considered again.
Maintain ==
    /\ accepted # shown /\ intent.status \in {"failed", "pending"}
    /\ \E outcome \in Considered(accepted, TRUE) : Becomes(outcome)
    /\ UNCHANGED <<worldVars, lock, proc, rejected, said, queued, wire, bounds>>

-----------------------------------------------------------------------------
(* The client's reading of the envelope.                                     *)

\* The envelope names the intent only while it is open, and never its reason.
EnvelopePending ==
    [snap |-> IF accepted # shown /\ intent.status \in {"failed", "pending"} THEN accepted ELSE NoSnap,
     reason |-> "", failed |-> intent.status = "failed"]

\* refreshFromPublication: whether to upload, and the code that is kept.
DecideRefresh(snap) ==
    LET pub == DecidePublication(Asked(snap, accepted, EnvelopePending, FALSE))
        Out(publish, code) == [publish |-> publish, action |-> pub.action, code |-> code]
    IN CASE pub.action = "PUBLISH_NOW" ->
              Out(TRUE, IF pub.reason = "date" THEN "DATE_ROLLOVER" ELSE "PUBLISHED")
         [] pub.action = "WAIT_UNTIL"    -> Out(accepted # snap, "WAITING_COOLDOWN")
         [] pub.action = "RETRY_PENDING" -> Out(FALSE, "PENDING_GITHUB")
         [] pub.action = "BLOCKED"       ->
              Out(FALSE, IF pub.reason = "negative" THEN "BLOCKED_REGRESSION" ELSE "BLOCKED_DATA")
         [] pub.action = "NO_CHANGE"     -> Out(FALSE, "SKIPPED_DELTA")

\* What a snapshot that is stored already still needs.
AlreadyStored(decision, snap) ==
    IF decision.action = "PUBLISH_NOW" /\ shown # snap THEN "PENDING_GITHUB" ELSE decision.code

decisionAfterPut(decision, readme) ==
    CASE readme = "materialized" -> "VERIFIED"
      [] readme = "pending"      -> "WAITING_COOLDOWN"
      [] readme = "deferred"     -> "PENDING_GITHUB"
      [] readme \in {"blocked", "coalesced"} ->
            IF decision.action = "PUBLISH_NOW" THEN "BLOCKED_DATA" ELSE decision.code

\* The code of a whole answer.
CodeOf(decision, answer) ==
    CASE answer = "refused"    -> "WILL_RETRY"
      [] answer = "regression" -> "BLOCKED_REGRESSION"
      [] answer = "coverage"   -> "BLOCKED_DATA"
      [] OTHER                 -> decisionAfterPut(decision, answer)

\* The end of a refresh: its code is noted and printed, and the lock released.
End(p, code) ==
    /\ said' = [code |-> code, snap |-> proc[p].snap]
    /\ proc' = [proc EXCEPT ![p] = Resting]
    /\ lock' = Free

\* executeProfileRefresh up to the first request.  A watcher does not send what
\* it has seen refused.
Begin(p) ==
    /\ proc[p].pc = "idle" /\ lock = Free
    /\ p \in Commands => bounds.runs > 0
    /\ ~(p \in Watchers /\ Local \in rejected[p])
    /\ lock' = p
    /\ proc' = [proc EXCEPT ![p] = [Resting EXCEPT !.pc = "fetch", !.snap = Local]]
    /\ bounds' = IF p \in Commands THEN [bounds EXCEPT !.runs = @ - 1] ELSE bounds
    /\ UNCHANGED <<serverVars, worldVars, rejected, said, queued, wire>>

\* Another scan is running.
Busy(p) ==
    /\ proc[p].pc = "idle" /\ lock # Free
    /\ p \in Commands /\ bounds.runs > 0
    /\ said' = [code |-> "BUSY", snap |-> NoSnap]
    /\ bounds' = [bounds EXCEPT !.runs = @ - 1]
    /\ UNCHANGED <<serverVars, worldVars, lock, proc, rejected, queued, wire>>

\* The envelope is read and the upload decided on.
Fetch(p) ==
    LET snap == proc[p].snap
        decision == DecideRefresh(snap)
    IN /\ proc[p].pc = "fetch"
       /\ UNCHANGED serverVars
       /\ \/ ~decision.publish /\ End(p, decision.code)
          \/ decision.publish /\ accepted = snap /\ End(p, AlreadyStored(decision, snap))
          \/ /\ decision.publish /\ accepted # snap
             /\ proc' = [proc EXCEPT ![p].pc = "put", ![p].decision = decision]
             /\ UNCHANGED <<lock, said>>
       /\ UNCHANGED <<worldVars, rejected, queued, wire, bounds>>

FetchFails(p) ==
    /\ proc[p].pc = "fetch" /\ Trouble
    /\ End(p, "WILL_RETRY")
    /\ UNCHANGED <<serverVars, worldVars, rejected, queued, wire>>

\* The upload is answered.  What is refused is remembered.
Put(p) ==
    /\ proc[p].pc = "put"
    /\ \E outcome \in Handled(proc[p].snap) :
         /\ Becomes(outcome)
         /\ End(p, CodeOf(proc[p].decision, outcome.readme))
         /\ rejected' = [w \in Watchers |->
                rejected[w] \cup (IF w = p /\ outcome.readme = "refused" THEN {proc[p].snap} ELSE {})]
    /\ UNCHANGED <<worldVars, queued, wire, bounds>>

\* The client gives up waiting: its request is lost, on its way or handled.
GiveUp(p) ==
    /\ proc[p].pc = "put" /\ Trouble
    /\ proc' = [proc EXCEPT ![p].pc = "check"]
    /\ \/ Unheard(proc[p].snap) /\ UNCHANGED wire
       \/ wire' = wire \cup {proc[p].snap} /\ UNCHANGED serverVars
       \/ UNCHANGED <<wire, serverVars>>
    /\ UNCHANGED <<worldVars, lock, rejected, said, queued>>

\* Mutant: any stored snapshot is taken for this one.
isStored_Any(snap) == accepted # NoSnap

isStored(snap) == accepted = snap

\* Whether the server has it all the same is asked once.
Check(p) ==
    /\ proc[p].pc = "check"
    /\ \/ isStored(proc[p].snap) /\ End(p, proc[p].decision.code) /\ UNCHANGED bounds
       \/ ~isStored(proc[p].snap) /\ End(p, "WILL_RETRY") /\ UNCHANGED bounds
       \/ Trouble /\ End(p, "WILL_RETRY")
    /\ UNCHANGED <<serverVars, worldVars, rejected, queued, wire>>

\* A refresh is stopped: the system releases the lock, a watcher forgets.
Killed(p) ==
    /\ proc[p].pc # "idle" /\ Trouble
    /\ proc' = [proc EXCEPT ![p] = Resting] /\ lock' = Free
    /\ rejected' = [w \in Watchers |-> IF w = p THEN {} ELSE rejected[w]]
    /\ wire' \in IF proc[p].pc = "put" THEN {wire, wire \cup {proc[p].snap}} ELSE {wire}
    /\ UNCHANGED <<serverVars, worldVars, said, queued>>

-----------------------------------------------------------------------------
(* The upload of a sync: built after a scan, sent whenever the batch is done, *)
(* and not compared with what is stored.                                      *)

SyncScan(s) ==
    /\ queued[s] = NoSnap /\ lock = Free /\ bounds.runs > 0
    /\ queued' = [queued EXCEPT ![s] = Local]
    /\ bounds' = [bounds EXCEPT !.runs = @ - 1]
    /\ UNCHANGED <<serverVars, worldVars, lock, proc, rejected, said, wire>>

SyncUpload(s) ==
    /\ queued[s] # NoSnap
    /\ queued' = [queued EXCEPT ![s] = NoSnap]
    /\ Unheard(queued[s]) \/ UNCHANGED serverVars
    /\ UNCHANGED <<worldVars, lock, proc, rejected, said, wire, bounds>>

Arrive ==
    \E snap \in wire :
        /\ wire' = wire \ {snap}
        /\ Unheard(snap)
        /\ UNCHANGED <<worldVars, lock, proc, rejected, said, queued, bounds>>

-----------------------------------------------------------------------------
UseTokens ==
    /\ used < MaxUsed /\ used' = used + 1
    /\ UNCHANGED <<serverVars, refused, date, closing, lock, proc, rejected, said, queued, wire, bounds>>

LastHours ==
    /\ ~closing /\ date < MaxDate /\ closing' = TRUE
    /\ UNCHANGED <<serverVars, refused, used, date, lock, proc, rejected, said, queued, wire, bounds>>

Rollover ==
    /\ closing /\ date' = date + 1 /\ closing' = FALSE
    /\ UNCHANGED <<serverVars, refused, used, lock, proc, rejected, said, queued, wire, bounds>>

ClientNext ==
    \/ Maintain
    \/ \E p \in Refreshers :
         \/ Begin(p) \/ Busy(p) \/ Fetch(p) \/ FetchFails(p) \/ Put(p) \/ GiveUp(p) \/ Check(p) \/ Killed(p)
    \/ \E s \in Syncers : SyncScan(s) \/ SyncUpload(s)
    \/ Arrive
    \/ UseTokens \/ LastHours \/ Rollover

ClientSpec == ClientInit /\ [][ClientNext]_clientVars

\* The watch wakes every hour, and finds the lock free again and again; a request
\* is answered, and none stays on the wire; the worker runs every minute, and
\* GitHub takes a write again and again.
ClientFairness ==
    /\ \A w \in Watchers : SF_clientVars(Begin(w))
    /\ WF_clientVars(\E p \in Refreshers : Fetch(p) \/ Put(p) \/ Check(p))
    /\ \A s \in Syncers : WF_clientVars(SyncUpload(s))
    /\ WF_clientVars(Arrive)
    /\ SF_clientVars(Maintain /\ shown' = accepted)

ClientFairSpec == ClientSpec /\ ClientFairness

-----------------------------------------------------------------------------
\* What a refresh tells its user is true of its own snapshot: it is stored when
\* the code says so, and on GitHub when the code is VERIFIED, however requests and
\* answers were lost or passed each other ("the attempt counts as published" only
\* "if that snapshot id is already the local one").
SaidIsTrue ==
    [][said' # said =>
         /\ said'.code \in {"PUBLISHED", "DATE_ROLLOVER", "WAITING_COOLDOWN"} => said'.snap = accepted'
         /\ said'.code = "VERIFIED" => said'.snap = shown']_clientVars

UpToDate == shown # NoSnap /\ shown.date = date /\ used - shown.total < MinDelta

\* When the days and the usage come to rest, which the bounds make them do, the
\* wall gets there: no lost request, failed write, refused snapshot, killed
\* refresh or concurrent sync stops the watch for good ("a failed attempt is
\* retried on the next wake").
WallCatchesUp == <>[](~closing /\ Local \notin refused) => <>[]UpToDate
=============================================================================
