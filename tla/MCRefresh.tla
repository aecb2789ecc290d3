----------------------------- MODULE MCRefresh -----------------------------
(* The client of the wall.  A behaviour is one of two parts that share no     *)
(* steps: "wall", one watcher, one command and one sync; "agent", the switch  *)
(* and the launchd jobs that keep the watcher there.                         *)
EXTENDS ClientRefresh, RefreshAgent

CONSTANTS claude, w, c, s
VARIABLE part

MCSnapOf(d, n) ==
    [total |-> n, date |-> d, dataStatus |-> "available",
     agents |-> [a \in {claude} |-> [tokens |-> "available", status |-> "available", failed |-> FALSE,
                                     held |-> FALSE, total |-> n]]]
MCUploads == {MCSnapOf(d, n) : d \in 1..2, n \in 1..2}
MCRefusable == {MCSnapOf(1, 1)}

MCInit == part \in {"wall", "agent"} /\ ClientInit /\ AgentInit /\ (part = "agent" => Local \in refused)
MCNext ==
    /\ UNCHANGED part
    /\ \/ part = "wall" /\ ClientNext /\ UNCHANGED agentVars
       \/ part = "agent" /\ AgentNext /\ UNCHANGED clientVars
MCSpec == MCInit /\ [][MCNext]_<<part, clientVars, agentVars>>
MCFairSpec == MCSpec /\ (part = "wall" => ClientFairness) /\ (part = "agent" => AgentFairness)
=============================================================================
