------------------------------ MODULE MCLocal ------------------------------
(* One machine.  A behaviour is one of four parts that share no steps:       *)
(* "scan": a claude-like log with a turn and a request, and a codex-like      *)
(*   rollout that may be archived;                                            *)
(* "ledger": the fact ledger alone, with streamed requests and corrections;   *)
(* "publish": the owner's checkout, published by the dashboard and a command; *)
(* "community": the machine in a crowd of two, of which the rank service is   *)
(*   content with two participants and the client is not.                     *)
EXTENDS ScanIndex, LocalPublish, Community, TLC

CONSTANTS log, rollout, archived, claude, codex, turn, first, other, a, b, output, reasoning,
          cobalt, magenta, web, cli, me, x, y
VARIABLE part

MCKeyOf == (turn :> Nil) @@ (first :> a) @@ (other :> b)
MCSessionOf == (a :> claude) @@ (b :> codex)
MCScript == (claude :> <<turn, first>>) @@ (codex :> <<other>>)
MCPaths == <<log, archived, rollout>>
MCSessionAt == (log :> claude) @@ (rollout :> codex) @@ (archived :> codex)
MCArchiveOf == (log :> Nil) @@ (rollout :> archived) @@ (archived :> Nil)

Tok(o, r) == (output :> o) @@ (reasoning :> r)
MCTok == [l \in Lines |-> Tok(1, 0)]
MCPayloads == {Tok(0, 1), Tok(3, 0)}
Ev(k, o, r) == [key |-> k, tok |-> Tok(o, r)]
MCBatches == {{Ev(a, 1, 1)}, {Ev(a, 1, 0), Ev(a, 2, 0)}, {Ev(a, 2, 2), Ev(b, 1, 0)}, {Ev(b, 1, 0), Ev(Nil, 1, 0)}}

MCDrawn == [s \in Snaps |-> "same"]

MCCrowdRow == (x :> [d \in Periods |-> 2]) @@ (y :> [d \in Periods |-> IF d = 1 THEN 1 ELSE 0])
MCMaxOrders == [scan |-> 2, post |-> 1, command |-> 1]

MCInit ==
  /\ part \in {"scan", "ledger", "publish", "community"}
  /\ ScanInit /\ PublishInit /\ CommunityInit
  /\ part # "scan" => index = [p \in PathSet |-> Nil]
  /\ part # "publish" => owner.palette = cobalt
  /\ part # "community" => config = "none"
MCNext ==
  /\ UNCHANGED part
  /\ \/ part = "scan" /\ ScanNext /\ UNCHANGED <<publishVars, communityVars>>
     \/ part = "ledger" /\ LedgerNext /\ UNCHANGED <<disk, index, scan, report, bounds, publishVars, communityVars>>
     \/ part = "publish" /\ PublishNext /\ UNCHANGED <<scanVars, communityVars>>
     \/ part = "community" /\ CommunityNext /\ UNCHANGED <<scanVars, publishVars>>
MCSpec == MCInit /\ [][MCNext]_<<part, scanVars, publishVars, communityVars>>
=============================================================================
