----------------------------- MODULE FactLedger -----------------------------
(* The durable usage ledger of one machine (internal/ledger/ledger.go): the   *)
(* confirmed tokens of every request that has an identity, which must survive *)
(* deleted logs and a wiped scan index.  Every operation is one SQLite        *)
(* transaction under the ledger's mutex, so every operation is one action.    *)
(*                                                                            *)
(* The counts of a fact are a function from Parts; the hash of a payload      *)
(* stands for its counts.  Reasoning tokens are a part that is not counted.   *)
(* The permit is 0 when there is none; its reason is left out.  Backups and   *)
(* Restore have no caller outside the tests and are not modelled.             *)
EXTENDS Integers, FiniteSets, FiniteSetsExt, SequencesExt

CONSTANTS
  Keys,          \* identities of requests: source, session, request
  SessionOf,     \* the session of a key
  Parts, Counted, \* components of a count, and those a total is made of
  Nil,          \* no fact, no key
  Payloads,      \* replacement counts a new parser may come to
  Batches,       \* sets of events that a scan may hand over
  MaxCorrections \* bound on corrections and reverts

ASSUME LedgerAssumption ==
  /\ Nil \notin Keys \cup [tok : [Parts -> Nat], ver : Nat]
  /\ Counted \subseteq Parts /\ IsFiniteSet(Parts)
  /\ Payloads \subseteq [Parts -> Nat]
  /\ \A evs \in Batches : evs \subseteq [key : Keys \cup {Nil}, tok : [Parts -> Nat]] /\ IsFiniteSet(evs)
  /\ MaxCorrections \in Nat

VARIABLES
  facts,         \* facts: [tok, ver] of a key, or Nil
  omitted,       \* omissions: keys a complete reread no longer found
  revisions,     \* revisions: every correction and revert
  permit,        \* correction_permit_delta
  imported       \* meta "imported"

ledgerVars == <<facts, omitted, revisions, permit, imported>>

Tokens == [Parts -> Nat]
LedgerInit ==
  /\ facts = [k \in Keys |-> Nil]
  /\ omitted = {} /\ revisions = <<>> /\ permit = 0
  /\ imported = FALSE

-----------------------------------------------------------------------------
(* CommitUsage.  An event is [key, tok]; its key is Nil when Key rejects it. *)

\* reduce: one payload per key, the largest of each component.
Keyed(evs) == {e \in evs : e.key # Nil /\ \E p \in Parts : e.tok[p] > 0}
Reduced(evs) ==
  [k \in {e.key : e \in Keyed(evs)} |->
     [p \in Parts |-> Max({e.tok[p] : e \in {f \in Keyed(evs) : f.key = k}})]]

\* Mutant: a payload that rises in one part replaces one that is larger in another.
Superset_AnyRise(next, cur) == \E p \in Parts : next[p] > cur[p]

\* superset: nothing smaller and something larger.
Superset(next, cur) ==
  /\ \A p \in Parts : next[p] >= cur[p]
  /\ \E p \in Parts : next[p] > cur[p]

\* upsertFact: a new key enters at the current parser version, a superset
\* raises the stored counts, and anything else is ignored.
Upsert(cur, tok) ==
  IF cur = Nil THEN [tok |-> tok, ver |-> 1]
  ELSE IF Superset(tok, cur.tok) THEN [cur EXCEPT !.tok = tok] ELSE cur

Committed(evs) ==
  LET batch == Reduced(evs) IN
  [k \in Keys |-> IF k \in DOMAIN batch THEN Upsert(facts[k], batch[k]) ELSE facts[k]]

(* Import of a cache that is older than the ledger: the facts and the mark in *)
(* one transaction, once.                                                     *)
Import(evs) ==
  /\ facts' = IF imported THEN facts ELSE Committed(evs)
  /\ imported' = TRUE

-----------------------------------------------------------------------------
(* NoteComplete and Unseen. *)

\* A complete reread of a session omits the facts it did not find, and takes
\* back the omission of those it did.
NotedComplete(evs) ==
  LET present == {e.key : e \in {f \in evs : f.key # Nil}}
      reread == {SessionOf[k] : k \in present}
  IN (omitted \ present)
       \cup {k \in Keys : facts[k] # Nil /\ SessionOf[k] \in reread /\ k \notin present}

\* Mutant: a report says only what its own scan read.
Unseen_None(seen) == {}

\* The facts a report adds to what its scan read.  (A source that answered by
\* its account API is left out as a whole: see CursorHistory.)
Unseen(seen) == {k \in Keys : facts[k] # Nil /\ k \notin omitted /\ k \notin seen}

-----------------------------------------------------------------------------
(* Corrections of a newer parser. *)

FactTokens(f) == MapThenSumSet(LAMBDA p : f.tok[p], Counted)

\* adjustPermit: a drop widens the permit, a rise narrows it, and a revert
\* has no reason of its own, so it cannot open one.
Adjusted(delta, opens) ==
  IF permit = 0 /\ ~opens THEN 0 ELSE Max({0, permit - delta})

Correct(k, tok, ver) ==
  /\ Len(revisions) < MaxCorrections
  /\ facts[k] # Nil /\ tok # facts[k].tok /\ ver > facts[k].ver
  /\ LET next == [tok |-> tok, ver |-> ver] IN
       /\ revisions' = Append(revisions,
            [key |-> k, prev |-> facts[k], next |-> next, revert |-> FALSE])
       /\ facts' = [facts EXCEPT ![k] = next]
       /\ permit' = Adjusted(FactTokens(next) - FactTokens(facts[k]), TRUE)
  /\ UNCHANGED <<omitted, imported>>

\* Revert undoes the latest correction of the key while the fact still has
\* the payload that correction wrote.
Revert(k) ==
  /\ Len(revisions) < MaxCorrections
  /\ LET mine == {i \in DOMAIN revisions : revisions[i].key = k /\ ~revisions[i].revert} IN
       /\ mine # {}
       /\ LET last == revisions[Max(mine)] IN
            /\ facts[k] = last.next
            /\ revisions' = Append(revisions,
                 [key |-> k, prev |-> facts[k], next |-> last.prev, revert |-> TRUE])
            /\ facts' = [facts EXCEPT ![k] = last.prev]
            /\ permit' = Adjusted(FactTokens(last.prev) - FactTokens(facts[k]), FALSE)
  /\ UNCHANGED <<omitted, imported>>

ClearCorrectionPermit ==
  /\ permit > 0
  /\ permit' = 0
  /\ UNCHANGED <<facts, omitted, revisions, imported>>

Corrections ==
  \/ \E k \in Keys, tok \in Payloads, ver \in 2..3 : Correct(k, tok, ver)
  \/ \E k \in Keys : Revert(k)
  \/ ClearCorrectionPermit

-----------------------------------------------------------------------------
(* The ledger alone, with any callers. *)

CommitUsage(evs) ==
  /\ facts' = Committed(evs)
  /\ UNCHANGED <<omitted, revisions, permit, imported>>

NoteComplete(evs) ==
  /\ omitted' = NotedComplete(evs)
  /\ UNCHANGED <<facts, revisions, permit, imported>>

LedgerNext ==
  \/ \E evs \in Batches :
       \/ CommitUsage(evs)
       \/ NoteComplete(evs)
       \/ Import(evs) /\ UNCHANGED <<omitted, revisions, permit>>
  \/ Corrections

LedgerSpec == LedgerInit /\ [][LedgerNext]_ledgerVars

-----------------------------------------------------------------------------
\* No count of a stored request falls, and none is forgotten, unless a
\* correction or a revert says so in the revisions (package ledger, lines
\* 8-11: "It does not lower a stored count").
FactsOnlyRise ==
  [][\A k \in Keys : facts[k] # Nil =>
       /\ facts'[k] # Nil
       /\ \/ \A p \in Parts : facts'[k].tok[p] >= facts[k].tok[p]
          \/ Len(revisions') > Len(revisions)]_ledgerVars

=============================================================================
