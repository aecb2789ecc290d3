---------------------------- MODULE LocalPublish ----------------------------
(* The publisher that works from the owner's own checkout                     *)
(* (internal/publicprofile/publish_run.go, publish.go): it commits the bundle *)
(* in a palette, pushes it, waits until Pages shows it and points the README  *)
(* of the owner's profile at it.  The dashboard runs one at a time            *)
(* (internal/httpapi/publish.go); `wheretoken profile publish` runs another   *)
(* that knows nothing of it (internal/cli/profile.go).                        *)
(*                                                                            *)
(* The configuration, the rights and the production check are in order.  The  *)
(* phases a job reports are left out, and so is the look at the README after  *)
(* the write, which only decides which phase is reported.                     *)
EXTENDS Naturals, SequencesExt

CONSTANTS
  Palettes, Snaps,    \* palettes; snapshots, from 1
  Drawn,              \* what the pictures show of a snapshot, by snapshot
  Publishers, Web,    \* the dashboard's goroutine, Web, and commands
  NoPlan,
  MaxStamp, MaxCommits, MaxJobs, MaxActs, MaxFaults   \* bounds

ASSUME PublishAssumption == Web \in Publishers /\ 1 \in Snaps

VARIABLES
  work,      \* the checkout: [disk, staged], the bundle and whether the index holds something
  git,       \* commits: [has] their bundles; [head, origin, known] branches, known as last fetched
  pages,     \* Pages: [live, run, ended], the bundle served, the commit deploying or 0, the runs that ended
  readme,    \* the profile's README.md: [key, text, commit]
  owner,     \* public-profile.json: [palette, stamp]
  tickets,   \* palettes with a ticket from a preflight of the dashboard
  job,       \* each publisher: [at, palette, retry, seen, plan]
  edits,     \* the owner's edits of the README
  everLive,  \* the assets Pages has served
  counts     \* counters of the bounds: [stamp, jobs, acts, faults]

publishVars == <<work, git, pages, readme, owner, tickets, job, edits, everLive, counts>>

\* A bundle is its presentation and its snapshot; one that was half written has
\* another revision than its files say.
Asset(c) == [palette |-> c.palette, stamp |-> c.stamp, drawn |-> Drawn[c.snap], whole |-> c.whole]
CacheKey(c) == [snap |-> c.snap, asset |-> Asset(c)]

NoJob == [at |-> "idle", palette |-> NoPlan, retry |-> FALSE, seen |-> NoPlan, plan |-> NoPlan]
Tip(branch) == git.has[Last(branch)]

PublishInit ==
  \E p \in Palettes :
    LET served == [palette |-> p, snap |-> 1, stamp |-> 0, whole |-> TRUE]
    IN  /\ work = [disk |-> served, staged |-> FALSE]
        /\ git = [has |-> <<served>>, head |-> <<1>>, origin |-> <<1>>, known |-> <<1>>]
        /\ pages = [live |-> served, run |-> 0, ended |-> {}]
        /\ readme = [key |-> CacheKey(served), text |-> 0, commit |-> 0]
        /\ owner = [palette |-> p, stamp |-> 0]
        /\ tickets = {} /\ job = [x \in Publishers |-> NoJob]
        /\ edits = 0 /\ everLive = {Asset(served)}
        /\ counts = [stamp |-> 0, jobs |-> 0, acts |-> 0, faults |-> 0]

Spends(what, max) == counts[what] < max /\ counts' = [counts EXCEPT ![what] = @ + 1]
Act == Spends("acts", MaxActs)
Fault == Spends("faults", MaxFaults)

Goes(x, at) == job' = [job EXCEPT ![x].at = at]
Ends(x) == job' = [job EXCEPT ![x] = NoJob]

-----------------------------------------------------------------------------
(* The dashboard and the command. *)

\* A preflight fetches, and gives a ticket also when it finds blockers.
PublishPreflight(p) ==
  /\ tickets' = tickets \cup {p} /\ p \notin tickets
  /\ git' = [git EXCEPT !.known = git.origin]
  /\ UNCHANGED <<work, pages, readme, owner, job, edits, everLive, counts>>

Starts(x, p, retry) ==
  /\ job[x].at = "idle" /\ Spends("jobs", MaxJobs)
  /\ job' = [job EXCEPT ![x] = [NoJob EXCEPT !.at = "readme?", !.palette = p, !.retry = retry]]

PublishExecute(p, retry) ==
  /\ p \in tickets /\ tickets' = tickets \ {p}
  /\ Starts(Web, p, retry)
  /\ UNCHANGED <<work, git, pages, readme, owner, edits, everLive>>

RunProfilePublish(x, p) ==
  /\ x # Web /\ Starts(x, p, FALSE)
  /\ UNCHANGED <<work, git, pages, readme, owner, tickets, edits, everLive>>

-----------------------------------------------------------------------------
(* The preflight a job makes for itself. *)

ReadReadme(x) ==
  /\ job[x].at = "readme?"
  /\ job' = [job EXCEPT ![x].at = "look", ![x].seen = readme]
  /\ UNCHANGED <<work, git, pages, readme, owner, tickets, edits, everLive, counts>>

Relation(known) ==
  CASE git.head = known -> "equal"
    [] git.head # known /\ IsPrefix(known, git.head) -> "ahead"
    [] git.head # known /\ IsPrefix(git.head, known) -> "behind"
    [] OTHER -> "diverged"
Dirty == work.disk # Tip(git.head)

AssemblePlan(x, known) ==
  LET kept == work.disk.palette = job[x].palette
      next == IF kept THEN [work.disk EXCEPT !.whole = TRUE]
              ELSE [work.disk EXCEPT !.palette = job[x].palette, !.stamp = counts.stamp + 1, !.whole = TRUE]
      commits == next # work.disk
      pushes == commits \/ Relation(known) = "ahead"
  IN  [next |-> next, commits |-> commits, pushes |-> pushes, sha |-> Last(git.head),
       changes |-> job[x].seen.key # CacheKey(next),
       blocked |-> \/ work.staged \/ Dirty
                   \/ Relation(known) \notin {"equal", "ahead"}
                   \/ pages.live.palette # job[x].palette /\ ~pushes]

\* What Approve and RetryReadme do with it; a retry does not ask what blocks.
Decided(x, plan) ==
  CASE job[x].retry -> IF plan.pushes THEN "idle" ELSE "live"
    [] ~job[x].retry /\ (plan.blocked \/ (~plan.pushes /\ ~plan.changes)) -> "idle"
    [] OTHER -> IF plan.commits THEN "write" ELSE IF plan.pushes THEN "push" ELSE "live"

\* A fetch that fails is not noticed.
Look(x) ==
  /\ job[x].at = "look"
  /\ \E failed \in BOOLEAN :
       LET known == IF failed THEN git.known ELSE git.origin
           plan == AssemblePlan(x, known)
           fresh == plan.next.stamp > counts.stamp
       IN  /\ fresh => counts.stamp < MaxStamp
           /\ failed => counts.faults < MaxFaults
           /\ counts' = [counts EXCEPT !.stamp = IF fresh THEN @ + 1 ELSE @, !.faults = IF failed THEN @ + 1 ELSE @]
           /\ git' = [git EXCEPT !.known = known]
           /\ IF Decided(x, plan) = "idle" THEN Ends(x)
              ELSE job' = [job EXCEPT ![x].at = Decided(x, plan), ![x].plan = plan]
  /\ UNCHANGED <<work, pages, readme, owner, tickets, edits, everLive>>

-----------------------------------------------------------------------------
(* The product repository. *)

writeBundle(x) ==
  /\ job[x].at = "write"
  /\ IF work.disk.snap = job[x].plan.next.snap
     THEN work' = [work EXCEPT !.disk = job[x].plan.next] /\ Goes(x, "commit")
     ELSE Ends(x) /\ UNCHANGED work
  /\ UNCHANGED <<git, pages, readme, owner, tickets, edits, everLive, counts>>

NewCommit(c) ==
  /\ Len(git.has) < MaxCommits
  /\ git' = [git EXCEPT !.has = Append(@, c), !.head = Append(@, Len(git.has) + 1)]

\* The commit takes what the files are by now; without a difference git fails.
commitBundle(x) ==
  /\ job[x].at = "commit"
  /\ IF work.staged \/ ~Dirty THEN Ends(x) /\ UNCHANGED git
     ELSE NewCommit(work.disk) /\ job' = [job EXCEPT ![x].at = "push", ![x].plan.sha = Len(git.has) + 1]
  /\ UNCHANGED <<work, pages, readme, owner, tickets, edits, everLive, counts>>

\* Commits that a push brings to main and that change the bundle start a run of
\* Pages for the last one, which ends the run under way.
Deploys(from, to) ==
  IF \E i \in (Len(from) + 1)..Len(to) : git'.has[to[i]] # git'.has[to[i - 1]]
  THEN pages' = [pages EXCEPT !.run = Last(to),
                              !.ended = @ \cup {[sha |-> r, ok |-> FALSE] : r \in {pages.run} \ {0}}]
  ELSE UNCHANGED pages

\* HEAD is pushed, whatever was committed since the plan; never by force.
push(x) ==
  /\ job[x].at = "push"
  /\ IF IsPrefix(git.origin, git.head)
     THEN /\ git' = [git EXCEPT !.origin = git.head, !.known = git.head]
          /\ Deploys(git.origin, git.head)
          /\ \/ Goes(x, "pages") /\ UNCHANGED counts
             \/ Ends(x) /\ Fault
     ELSE Ends(x) /\ UNCHANGED <<git, pages, counts>>
  /\ UNCHANGED <<work, readme, owner, tickets, edits, everLive>>

\* The run of the commit decides; forty looks may not be enough.
waitPages(x) ==
  /\ job[x].at = "pages"
  /\ \/ [sha |-> job[x].plan.sha, ok |-> TRUE] \in pages.ended /\ Goes(x, "live")
     \/ [sha |-> job[x].plan.sha, ok |-> TRUE] \notin pages.ended /\ Ends(x)
  /\ UNCHANGED <<work, git, pages, readme, owner, tickets, edits, everLive, counts>>

-----------------------------------------------------------------------------
(* The README. *)

\* A retry does not compare the snapshot.
Shows(x) ==
  /\ Asset(pages.live) = Asset(job[x].plan.next)
  /\ job[x].retry \/ pages.live.snap = job[x].plan.next.snap

CheckLive_Trusts(x) ==
  /\ job[x].at = "live"
  /\ IF job[x].plan.changes \/ job[x].retry THEN Goes(x, "update") ELSE Ends(x)
  /\ UNCHANGED <<work, git, pages, readme, owner, tickets, edits, everLive, counts>>
CheckLive(x) ==
  /\ job[x].at = "live"
  /\ IF Shows(x) /\ (job[x].plan.changes \/ job[x].retry) THEN Goes(x, "update") ELSE Ends(x)
  /\ UNCHANGED <<work, git, pages, readme, owner, tickets, edits, everLive, counts>>

\* Nothing may have changed in the profile repository since the plan was made.
updateReadme(x) ==
  /\ job[x].at = "update"
  /\ IF readme = job[x].seen THEN Goes(x, "put") ELSE Ends(x)
  /\ UNCHANGED <<work, git, pages, readme, owner, tickets, edits, everLive, counts>>

\* GitHub takes the new content only in place of the blob that was read.
SameBlob_Any(x) == TRUE
SameBlob(x) == readme.key = job[x].seen.key /\ readme.text = job[x].seen.text

\* RewriteProfileReadme: the addresses of the three pictures get the new key, the
\* rest of what was read stays.
Rewritten(x) == [job[x].seen EXCEPT !.key = CacheKey(job[x].plan.next)]
PutReadme(x) ==
  /\ job[x].at = "put"
  /\ Ends(x)
  /\ \/ SameBlob(x) /\ readme' = [Rewritten(x) EXCEPT !.commit = readme.commit + 1]
     \/ UNCHANGED readme
  /\ UNCHANGED <<work, git, pages, owner, tickets, edits, everLive, counts>>

-----------------------------------------------------------------------------
\* A job is cut off: fifteen minutes are over, the dashboard or the command is
\* stopped.  Some of the files may be written, or be in the index.
Stop(x) ==
  /\ job[x].at # "idle" /\ Fault /\ Ends(x)
  /\ work' \in {work}
       \cup {[work EXCEPT !.disk = [job[x].plan.next EXCEPT !.whole = FALSE]] : w \in {job[x].at} \cap {"write"}}
       \cup {[work EXCEPT !.staged = TRUE] : c \in {job[x].at} \cap {"commit"}}
  /\ tickets' \in IF x = Web THEN {tickets, {}} ELSE {tickets}
  /\ UNCHANGED <<git, pages, readme, owner, edits, everLive>>

-----------------------------------------------------------------------------
(* What else the owner does: in the dashboard, with the other commands, with  *)
(* git, and on GitHub.                                                        *)

ApplyPalette(p) ==
  /\ counts.stamp < MaxStamp /\ counts.acts < MaxActs
  /\ counts' = [counts EXCEPT !.stamp = @ + 1, !.acts = @ + 1]
  /\ owner' = [palette |-> p, stamp |-> counts.stamp + 1]

PublicProfile(p) ==
  /\ ApplyPalette(p)
  /\ work' = [work EXCEPT !.disk = [palette |-> p, snap |-> @.snap, stamp |-> counts.stamp + 1, whole |-> TRUE]]
  /\ UNCHANGED <<git, pages, readme, tickets, job, edits, everLive>>

RunProfilePalette(p) ==
  /\ ApplyPalette(p)
  /\ UNCHANGED <<work, git, pages, readme, tickets, job, edits, everLive>>

RunProfileBuild ==
  /\ work.disk.snap + 1 \in Snaps /\ Act
  /\ work' = [work EXCEPT !.disk = [palette |-> owner.palette, snap |-> @.snap + 1, stamp |-> owner.stamp, whole |-> TRUE]]
  /\ UNCHANGED <<git, pages, readme, owner, tickets, job, edits, everLive>>

OwnerCommits ==
  /\ \E c \in {work.disk, Tip(git.head)} : NewCommit(c)
  /\ Act /\ work' = [work EXCEPT !.staged = FALSE]
  /\ UNCHANGED <<pages, readme, owner, tickets, job, edits, everLive>>
OwnerStages ==
  /\ ~work.staged /\ Act /\ work' = [work EXCEPT !.staged = TRUE]
  /\ UNCHANGED <<git, pages, readme, owner, tickets, job, edits, everLive>>
OwnerDiscards ==
  /\ work.staged \/ Dirty
  /\ Act /\ work' = [disk |-> Tip(git.head), staged |-> FALSE]
  /\ UNCHANGED <<git, pages, readme, owner, tickets, job, edits, everLive>>
OwnerPulls ==
  /\ git.head # git.origin /\ IsPrefix(git.head, git.origin) /\ ~Dirty
  /\ git' = [git EXCEPT !.head = git.origin, !.known = git.origin]
  /\ work' = [work EXCEPT !.disk = Tip(git.origin)]
  /\ UNCHANGED <<pages, readme, owner, tickets, job, edits, everLive, counts>>

\* Somebody pushes to main: the bundle as it is, or one of another machine.
OthersPush(p) ==
  /\ Act /\ Len(git.has) < MaxCommits
  /\ git' = [git EXCEPT !.has = Append(@, [Tip(git.origin) EXCEPT !.palette = p]),
                        !.origin = Append(@, Len(git.has) + 1)]
  /\ Deploys(git.origin, git'.origin)
  /\ UNCHANGED <<work, readme, owner, tickets, job, edits, everLive>>
PagesEnds(ok) ==
  /\ pages.run # 0
  /\ pages' = [live |-> IF ok THEN git.has[pages.run] ELSE pages.live, run |-> 0,
               ended |-> pages.ended \cup {[sha |-> pages.run, ok |-> ok]}]
  /\ everLive' = everLive \cup {Asset(pages'.live)}
  /\ UNCHANGED <<work, git, readme, owner, tickets, job, edits, counts>>

EditReadme ==
  /\ Act /\ edits' = edits + 1
  /\ readme' = [readme EXCEPT !.text = edits + 1, !.commit = @ + 1]
  /\ UNCHANGED <<work, git, pages, owner, tickets, job, everLive>>
OtherProfileCommit ==
  /\ Act /\ readme' = [readme EXCEPT !.commit = @ + 1]
  /\ UNCHANGED <<work, git, pages, owner, tickets, job, edits, everLive>>

PublisherSteps(x) ==
  \/ ReadReadme(x) \/ Look(x) \/ writeBundle(x) \/ commitBundle(x) \/ push(x) \/ waitPages(x)
  \/ CheckLive(x) \/ updateReadme(x) \/ PutReadme(x) \/ Stop(x)
OwnerSteps ==
  \/ RunProfileBuild \/ OwnerCommits \/ OwnerStages \/ OwnerDiscards \/ OwnerPulls \/ EditReadme \/ OtherProfileCommit
  \/ \E p \in Palettes : PublicProfile(p) \/ RunProfilePalette(p) \/ OthersPush(p)
  \/ \E ok \in BOOLEAN : PagesEnds(ok)
PublishNext ==
  \/ \E p \in Palettes, retry \in BOOLEAN : PublishExecute(p, retry)
  \/ \E p \in Palettes : PublishPreflight(p) \/ \E x \in Publishers : RunProfilePublish(x, p)
  \/ \E x \in Publishers : PublisherSteps(x)
  \/ OwnerSteps
PublishSpec == PublishInit /\ [][PublishNext]_publishVars

-----------------------------------------------------------------------------
\* The README never asks for pictures that Pages has not served, through retries,
\* runs that fail or are cancelled, other people's pushes and jobs cut off.
ReadmeNamesWhatWasLive == readme.key.asset \in everLive

\* What the owner writes in the README is never undone by a publication, also
\* when the edit comes between the confirmation and the write.
OwnerTextSurvives == readme.text = edits
=============================================================================
