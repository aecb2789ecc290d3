----------------------------- MODULE MCHistory -----------------------------
(* What a report and a refresh make of a Cursor account, and the accounts of  *)
(* the hosted site.  A behaviour is one of three parts that share no steps:   *)
(* "account": two accounts over three months of two days, with days of an     *)
(*   older history;                                                           *)
(* "figures": the figures of one agent's logs and of one account, over        *)
(*   refreshes and a midnight;                                                *)
(* "hosted": two GitHub identities, three requests and two server processes.  *)
EXTENDS AccountHistory, PublicFigures, Accounts

CONSTANTS ann, bob, claude, cursor, output, miss, r1, r2, r3, cli1, s1, s2
VARIABLE part

Perms == Permutations(Subjects) \cup Permutations(Requests) \cup Permutations(Servers)
MCQuality == (claude :> "authoritative") @@ (cursor :> "degraded")
MCChunks == {(miss :> 2) @@ (output :> 1), (miss :> 0) @@ (output :> 4)}
MCOrder == (miss :> 1) @@ (output :> 2)

MCInit ==
  /\ part \in {"account", "figures", "hosted"} /\ HistoryInit /\ FiguresInit /\ AccountsInit
  /\ part # "account" => obs = <<>>
  /\ part # "hosted" => db.last = 0
MCNext ==
  /\ UNCHANGED part
  /\ \/ part = "account" /\ HistoryNext /\ UNCHANGED <<figureVars, accountVars>>
     \/ part = "figures" /\ FiguresNext /\ UNCHANGED <<historyVars, accountVars>>
     \/ part = "hosted" /\ AccountsNext /\ UNCHANGED <<historyVars, figureVars>>
MCSpec == MCInit /\ [][MCNext]_<<part, historyVars, figureVars, accountVars>>
=============================================================================
