---------------------------- MODULE RefreshAgent ----------------------------
(***************************************************************************)
(* The background agent of `profile refresh` (cli/profile_launchd.go,       *)
(* profile_refresh.go, profile_refresh_repair.go): the switch file, the     *)
(* definitions in LaunchAgents, the two jobs launchd has loaded from them,   *)
(* and the commands that change all three one call after another.           *)
(*                                                                         *)
(* `watch` is kept alive while it fails, not after it ends well; `health`   *)
(* runs `profile refresh repair` once an hour.  launchctl ends a job that it *)
(* boots out, the one that asked for it included.                           *)
(***************************************************************************)
EXTENDS Integers, Sequences, SequencesExt

CONSTANTS
    Missing,      \* no such file, no such job
    MaxPrograms,  \* the stable commands a Homebrew install may come to have
    MaxCommands, MaxMishaps    \* bounds

ASSUME AgentAssumption ==
    /\ MaxPrograms \in Nat \ {0} /\ MaxCommands \in Nat /\ MaxMishaps \in Nat
    /\ Missing \notin Nat

VARIABLES
    switch,   \* profile-refresh.json: enabled (a missing file is off)
    program,  \* what refreshProgramPath answers
    plist,    \* the program named in each definition
    loaded,   \* the program of each loaded job
    watch,    \* the process of the watch job
    todo,     \* what a command and the health job still have to do
    stopped,  \* the last command said "public profile refresh off"
    agentBounds
agentVars == <<switch, program, plist, loaded, watch, todo, stopped, agentBounds>>

Jobs == <<"watch", "health">>
Doers == {"user", "health"}
NotRunning == "none"

AgentInit ==
    /\ switch = FALSE /\ program = 1
    /\ plist = [j \in ToSet(Jobs) |-> Missing]
    /\ loaded = plist
    /\ watch = NotRunning
    /\ todo = [d \in Doers |-> <<>>]
    /\ stopped = FALSE
    /\ agentBounds = [commands |-> MaxCommands, mishaps |-> MaxMishaps]

\* A command names its program once, before its first call.
Step(job, call) == [job |-> job, call |-> call, program |-> program]
Steps(job, calls) == [i \in 1..Len(calls) |-> Step(job, calls[i])]
ForBoth(calls) == Steps(Jobs[1], calls) \o Steps(Jobs[2], calls)
Switch(call) == <<Step("switch", call)>>

profileRefreshOff == Switch("off") \o ForBoth(<<"stat", "bootout", "remove">>) \o Switch("said")
profileRefreshOn  == Switch("on") \o ForBoth(<<"write", "bootout", "bootstrap">>)
rebootstrapProfileRefresh == Switch("read") \o ForBoth(<<"write", "bootout", "bootstrap">>)
profileRefreshRepair == Switch("read") \o ForBoth(<<"need", "write", "bootout", "repair">>)

\* Mutant: the definition is looked at, the process is not.
agentNeedsBootstrap_PlistOnly(step, running) == plist[step.job] # step.program

\* The health job has a process while it repairs, and none in between.
agentNeedsBootstrap(step, running) == plist[step.job] # step.program \/ ~running

Running(job) == IF job = "watch" THEN watch # NotRunning ELSE todo["health"] # <<>>

\* The next call of a doer; `rest` is what it leaves to do.  A definition that is
\* not there needs no bootout and no removal, a job that runs none of the three
\* calls of a repair.
Rest(d) == Tail(todo[d])
Skip(d) == SubSeq(todo[d], IF todo[d][1].call = "stat" THEN 4 ELSE 5, Len(todo[d]))
Leaves(d, rest) == todo' = [todo EXCEPT ![d] = rest]

SwitchCall(d) ==
    LET call == todo[d][1].call
    IN /\ call \in {"on", "off", "read", "said"}
       /\ switch' = IF call \in {"on", "off"} THEN call = "on" ELSE switch
       /\ stopped' = IF d = "user" THEN call = "said" ELSE stopped
       /\ Leaves(d, IF call = "read" /\ ~switch THEN <<>> ELSE Rest(d))
       /\ UNCHANGED <<program, plist, loaded, watch, agentBounds>>

FileCall(d) ==
    LET job == todo[d][1].job
        call == todo[d][1].call
    IN /\ call \in {"stat", "need", "write", "remove"}
       /\ plist' = CASE call = "write"  -> [plist EXCEPT ![job] = todo[d][1].program]
                     [] call = "remove" -> [plist EXCEPT ![job] = Missing]
                     [] OTHER           -> plist
       /\ Leaves(d, IF \/ call = "stat" /\ plist[job] = Missing
                       \/ call = "need" /\ ~agentNeedsBootstrap(todo[d][1], Running(job))
                    THEN Skip(d) ELSE Rest(d))
       /\ UNCHANGED <<switch, program, loaded, watch, stopped, agentBounds>>

\* The job and its process are gone.  A health job that asked for it goes with
\* what it had left to do.
Bootout(d) ==
    LET job == todo[d][1].job
    IN /\ todo[d][1].call = "bootout"
       /\ loaded' = [loaded EXCEPT ![job] = Missing]
       /\ watch' = IF job = "watch" THEN NotRunning ELSE watch
       /\ todo' = [e \in Doers |-> IF e = "health" /\ job = "health" /\ loaded[job] # Missing THEN <<>>
                                   ELSE IF e = d THEN Rest(d) ELSE todo[e]]
       /\ UNCHANGED <<switch, program, plist, stopped, agentBounds>>

Started(job, who) ==
    /\ watch' = IF job = "watch" THEN "wake" ELSE watch
    /\ todo' = [e \in Doers |-> IF e = "health" /\ job = "health" THEN profileRefreshRepair
                                ELSE IF e = who THEN Rest(who) ELSE todo[e]]

\* A loaded job cannot be bootstrapped again, and launchd may refuse for reasons
\* of its own.  An install goes on with the second job, a repair stops.
Bootstrap(d) ==
    LET job == todo[d][1].job
        call == todo[d][1].call
        Fails == /\ Leaves(d, IF call = "repair" THEN <<>> ELSE Rest(d))
                 /\ UNCHANGED <<loaded, watch>>
    IN /\ call \in {"bootstrap", "repair"}
       /\ \/ /\ loaded[job] = Missing /\ plist[job] # Missing
             /\ loaded' = [loaded EXCEPT ![job] = plist[job]]
             /\ Started(job, d)
             /\ UNCHANGED agentBounds
          \/ /\ ~(loaded[job] = Missing /\ plist[job] # Missing)
             /\ Fails /\ UNCHANGED agentBounds
          \/ /\ agentBounds.mishaps > 0
             /\ agentBounds' = [agentBounds EXCEPT !.mishaps = @ - 1]
             /\ Fails
       /\ UNCHANGED <<switch, program, plist, stopped>>

Do(d) == todo[d] # <<>> /\ (SwitchCall(d) \/ FileCall(d) \/ Bootout(d) \/ Bootstrap(d))

\* A command of the user, one at a time.
Command ==
    /\ todo["user"] = <<>> /\ agentBounds.commands > 0
    /\ agentBounds' = [agentBounds EXCEPT !.commands = @ - 1]
    /\ \E steps \in {profileRefreshOn, profileRefreshOff, profileRefreshRepair,
                     rebootstrapProfileRefresh} : Leaves("user", steps)
    /\ stopped' = FALSE
    /\ UNCHANGED <<switch, program, plist, loaded, watch>>

HealthTick ==
    /\ loaded["health"] # Missing /\ todo["health"] = <<>>
    /\ Leaves("health", profileRefreshRepair)
    /\ UNCHANGED <<switch, program, plist, loaded, watch, stopped, agentBounds>>

-----------------------------------------------------------------------------
(* The watch loop.                                                           *)

Watch(from, to) ==
    /\ watch = from /\ watch' = to
    /\ UNCHANGED <<switch, program, plist, loaded, todo, stopped, agentBounds>>

\* Mutant: the switch is read when the watch starts, and not at its wakes.
WatchReads_Once == Watch("wake", "due")

\* The switch is read at every wake; off ends the loop well.
WatchReads == Watch("wake", IF switch THEN "due" ELSE NotRunning)
WatchAttempts == Watch("due", "attempt")
WatchSleeps == Watch("attempt", "wake")

Mishap ==
    /\ agentBounds.mishaps > 0
    /\ agentBounds' = [agentBounds EXCEPT !.mishaps = @ - 1]

\* The loop is told to end, and is not started again; or it fails, and is.
WatchEnds ==
    /\ watch # NotRunning /\ Mishap
    /\ watch' \in {NotRunning, "wake"}
    /\ UNCHANGED <<switch, program, plist, loaded, todo, stopped>>

\* A command is interrupted.
Interrupted ==
    /\ todo["user"] # <<>> /\ Mishap
    /\ Leaves("user", <<>>)
    /\ UNCHANGED <<switch, program, plist, loaded, watch, stopped>>

\* A new login: launchd loads what it finds and starts it.
Login ==
    /\ Mishap
    /\ loaded' = plist
    /\ watch' = IF plist["watch"] = Missing THEN NotRunning ELSE "wake"
    /\ todo' = [d \in Doers |-> IF d = "health" /\ plist[d] # Missing THEN profileRefreshRepair ELSE <<>>]
    /\ UNCHANGED <<switch, program, plist, stopped>>

\* An upgrade or a new link gives the install another stable command.
Moved ==
    /\ program < MaxPrograms /\ program' = program + 1
    /\ UNCHANGED <<switch, plist, loaded, watch, todo, stopped, agentBounds>>

AgentNext ==
    \/ Command \/ HealthTick \/ \E d \in Doers : Do(d)
    \/ WatchReads \/ WatchAttempts \/ WatchSleeps
    \/ WatchEnds \/ Interrupted \/ Login \/ Moved

AgentSpec == AgentInit /\ [][AgentNext]_agentVars

\* launchd runs what it has loaded, and a process that runs goes on.
AgentFairness ==
    /\ WF_agentVars(HealthTick)
    /\ \A d \in Doers : WF_agentVars(Do(d))
    /\ WF_agentVars(WatchReads \/ WatchAttempts \/ WatchSleeps)

AgentFairSpec == AgentSpec /\ AgentFairness

-----------------------------------------------------------------------------
\* After `off` has ended no wake decides on an attempt until a command has
\* switched the refresh on again, whatever the health job was repairing meanwhile
\* and whichever watch was left behind ("It re-reads the switch on every wake").
OffStaysOff ==
    [][watch # "due" /\ watch' = "due" => ~stopped]_agentVars

\* When `off` has ended, and printed "scheduler=stopped", launchd has neither job
\* ("`off` disables the switch and uninstalls the agent").
OffUninstalls == stopped => \A job \in ToSet(Jobs) : loaded[job] = Missing

\* While the switch stays on and the health job is there the wall is watched: a
\* watch that failed to load, ended or was left behind by an interrupted command
\* is found within the hour ("a failed bootstrap leaves the switch on").
EnabledIsWatched == <>[](switch /\ loaded["health"] # Missing) => []<>(watch = "attempt")

=============================================================================
