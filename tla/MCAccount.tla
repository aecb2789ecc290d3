------------------------------ MODULE MCAccount ------------------------------
(* What the server keeps of one account.  A behaviour is one of three parts;  *)
(* the first shares no state with the others:                                 *)
(* "wall": the public wall as it is promised, with two agents, two totals     *)
(*   each and two days; of the sums 1 to 4, the last is the billion that      *)
(*   doubles the usage gate;                                                  *)
(* "desk": the usage rows of a desk where both a CLI and "serve" sync its own *)
(*   two events, of which the chat has no uncached input;                     *)
(* "both": the usage rows of that desk and of a phone in a zone to the west.  *)
(*   One of them has an event of its own, and both see the account's Cursor   *)
(*   usage, which falls on two days.                                          *)
EXTENDS PublicWall, UsageSync, FiniteSetsExt, TLC

CONSTANTS phone, desk, p1, d1, d2, code, chat, late, west, east
VARIABLE part

Measured(n) == [total |-> n, tokens |-> "available", status |-> "available",
                failed |-> FALSE, held |-> FALSE]
Reused(n) == [Measured(n) EXCEPT !.tokens = "partial", !.held = TRUE]
Failed == [total |-> None, tokens |-> "unavailable", status |-> "unavailable",
           failed |-> TRUE, held |-> FALSE]
Sampled(n) == [Measured(n) EXCEPT !.tokens = "partial", !.status = "partial"]

AgentRows == {Measured(1), Measured(2), Reused(1), Reused(2), Sampled(2), Failed}

\* The snapshot total is the sum of what was measured, and unknown when nothing was.
TotalOf(agents) ==
    LET measured == {a \in DOMAIN agents : measuredAgent(agents[a])}
    IN IF measured = {} THEN None
       ELSE MapThenSumSet(LAMBDA a : agents[a].total, measured)

MCUploads ==
    {[total |-> TotalOf(agents), date |-> date, dataStatus |-> status, agents |-> agents] :
       agents \in [{"codex", "cursor"} -> AgentRows], date \in {1, 2},
       status \in {"available", "partial"}}

-----------------------------------------------------------------------------
MCHostOf == [c \in Clients |-> IF c = p1 THEN phone ELSE desk]
MCOwnerOf == [e \in Events |-> IF e = late THEN Account ELSE desk]
MCDayOf == [z \in Zones |-> [e \in Events |-> IF e = late /\ z = east THEN 2 ELSE 1]]
MCZoneOf == [d \in Devices |-> IF d = phone THEN west ELSE east]
MCSkew == [d \in Devices |-> IF d = phone THEN 1 ELSE 0]

-----------------------------------------------------------------------------
MCInit == part \in {"wall", "desk", "both"} /\ Init /\ SyncInit
MCNext ==
    /\ UNCHANGED part
    /\ \/ part = "wall" /\ Next /\ UNCHANGED syncVars
       \/ part # "wall" /\ SyncNext /\ UNCHANGED wallVars
    /\ part = "desk" => late \notin happened' /\ scan'[p1] = Absent /\ phone \notin revoked'
    /\ part = "both" => now' = 1 /\ duplicated' + deleted' <= 1 /\ chat \notin happened' /\ scan'[d2] = Absent
MCSpec == MCInit /\ [][MCNext]_<<part, wallVars, syncVars>>
=============================================================================
