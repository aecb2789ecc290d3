----------------------------- MODULE LocalProofs -----------------------------
(* What the parts of the local machine promise: the fact ledger, the scan     *)
(* index in front of it, and the publisher of the owner's README.             *)
EXTENDS ScanIndex, LocalPublish, FiniteSetTheorems, SequenceTheorems, TLAPS

-----------------------------------------------------------------------------
(* No stored count falls without a correction on record, for every set of     *)
(* keys, count parts, payloads and finite batches, in any order and with any  *)
(* number of corrections and reverts.  A batch is reduced to its largest      *)
(* counts, so the proof needs that a finite set of naturals has a largest     *)
(* one: by the smallest cardinality of a set that has no bound.               *)

-----------------------------------------------------------------------------
(* Finite sets of naturals. *)

LEMMA LeastNatural ==
  ASSUME NEW T \in SUBSET Nat, T # {}
  PROVE  \E m \in T : \A n \in T : m <= n
<1>1. PICK m \in T : \A n \in T : ~(<<n, m>> \in OpToRel(<, Nat))
  BY NatLessThanWellFounded, WFMin
<1>2. \A n \in T : ~(n < m)
  BY <1>1 DEF OpToRel
<1> QED
  BY <1>2

Bounded(S) == \E b \in Nat : \A x \in S : x <= b

LEMMA FiniteIsBounded ==
  ASSUME NEW S \in SUBSET Nat, IsFiniteSet(S)
  PROVE  Bounded(S)
<1> DEFINE Bad == {n \in Nat : \E T \in SUBSET Nat : IsFiniteSet(T) /\ Cardinality(T) = n /\ ~Bounded(T)}
<1> SUFFICES ASSUME ~Bounded(S) PROVE FALSE
  OBVIOUS
<1>1. Cardinality(S) \in Bad
  BY FS_CardinalityType
<1>2. PICK n \in Bad : \A k \in Bad : n <= k
  <2> HIDE DEF Bad
  <2>1. Bad \in SUBSET Nat
    BY DEF Bad
  <2> QED
    BY <1>1, <2>1, LeastNatural
<1>3. PICK T \in SUBSET Nat : IsFiniteSet(T) /\ Cardinality(T) = n /\ ~Bounded(T)
  OBVIOUS
<1>4. PICK x : x \in T
  BY <1>3 DEF Bounded
<1>5. IsFiniteSet(T \ {x}) /\ Cardinality(T \ {x}) = n - 1
  BY <1>3, <1>4, FS_RemoveElement
<1>6. n - 1 \in Nat
  BY <1>5, FS_CardinalityType
<1>7. Bounded(T \ {x})
  <2> SUFFICES ASSUME ~Bounded(T \ {x}) PROVE FALSE
    OBVIOUS
  <2>1. T \ {x} \in SUBSET Nat
    OBVIOUS
  <2>2. n - 1 \in Bad
    BY <1>5, <1>6, <2>1
  <2>3. n <= n - 1 /\ n \in Nat
    BY <1>2, <2>2
  <2> QED
    BY <2>3
<1>8. PICK b \in Nat : \A y \in T \ {x} : y <= b
  BY <1>7 DEF Bounded
<1>9. Bounded(T)
  <2> DEFINE c == IF x > b THEN x ELSE b
  <2>1. c \in Nat /\ \A y \in T : y <= c
    BY <1>4, <1>8
  <2> QED
    BY <2>1 DEF Bounded
<1> QED
  BY <1>3, <1>9

LEMMA MaxOfFinite ==
  ASSUME NEW S \in SUBSET Nat, S # {}, IsFiniteSet(S)
  PROVE  Max(S) \in S /\ \A x \in S : x <= Max(S)
<1> DEFINE Above == {b \in Nat : \A x \in S : x <= b}
<1>1. PICK m \in Above : \A b \in Above : m <= b
  <2>1. Above # {}
    BY FiniteIsBounded DEF Bounded
  <2>2. Above \in SUBSET Nat
    OBVIOUS
  <2> HIDE DEF Above
  <2> QED
    BY <2>1, <2>2, LeastNatural
<1>2. m \in S
  <2> SUFFICES ASSUME m \notin S PROVE FALSE
    OBVIOUS
  <2>1. \A x \in S : x \in Nat /\ x < m
    OBVIOUS
  <2>0. PICK x0 \in S : TRUE
    OBVIOUS
  <2>2. m - 1 \in Nat /\ \A x \in S : x <= m - 1
    BY <2>0, <2>1
  <2>3. m <= m - 1
    BY <1>1, <2>2
  <2> QED
    BY <2>2, <2>3
<1>3. \A x \in S : m >= x
  OBVIOUS
<1>4. Max(S) \in S /\ \A x \in S : Max(S) >= x
  BY <1>2, <1>3 DEF Max
<1> QED
  BY <1>4

-----------------------------------------------------------------------------
(* The types of the ledger. *)

Fact == [tok : Tokens, ver : Nat]
Revision == [key : Keys, prev : Fact, next : Fact, revert : BOOLEAN]
LedgerType ==
  /\ facts \in [Keys -> Fact \cup {Nil}]
  /\ revisions \in Seq(Revision)

LEMMA NilIsNoFact == Nil \notin Fact
  BY LedgerAssumption DEF Fact, Tokens

\* What a caller hands over: finitely many events.
EventBatch(evs) == evs \subseteq [key : Keys \cup {Nil}, tok : Tokens] /\ IsFiniteSet(evs)

LEMMA BatchesAreBatches == \A evs \in Batches : EventBatch(evs)
  BY LedgerAssumption DEF EventBatch, Tokens

\* reduce gives counts to every key it keeps.
LEMMA ReducedType ==
  ASSUME NEW evs, EventBatch(evs)
  PROVE  \A k \in DOMAIN Reduced(evs) : Reduced(evs)[k] \in Tokens
<1>1. IsFiniteSet(evs) /\ evs \subseteq [key : Keys \cup {Nil}, tok : [Parts -> Nat]]
  BY DEF EventBatch, Tokens
<1>2. Keyed(evs) \subseteq evs
  BY DEF Keyed
<1> SUFFICES ASSUME NEW e0 \in Keyed(evs), NEW p \in Parts
             PROVE  Max({e.tok[p] : e \in {f \in Keyed(evs) : f.key = e0.key}}) \in Nat
  BY DEF Reduced, Tokens
<1> DEFINE mine == {f \in Keyed(evs) : f.key = e0.key}
           column == {e.tok[p] : e \in mine}
<1>3. mine \in SUBSET evs
  BY <1>2
<1>4. IsFiniteSet(mine)
  BY <1>1, <1>3, FS_Subset
<1>5. IsFiniteSet(column)
  <2>1. [e \in mine |-> e.tok[p]] \in Surjection(mine, column)
    BY DEF Surjection
  <2> QED
    BY <1>4, <2>1, FS_Surjection
<1>6. column \in SUBSET Nat
  BY <1>1, <1>3
<1>7. column # {}
  OBVIOUS
<1>8. Max(column) \in column
  <2> HIDE DEF column
  <2> QED
    BY <1>5, <1>6, <1>7, MaxOfFinite
<1> QED
  BY <1>6, <1>8

\* Committed never lowers a stored count, and stores every request with tokens.
LEMMA CommittedRises ==
  ASSUME LedgerType, NEW evs, EventBatch(evs)
  PROVE  /\ Committed(evs) \in [Keys -> Fact \cup {Nil}]
         /\ \A k \in Keys : facts[k] # Nil =>
              /\ Committed(evs)[k] # Nil
              /\ \A p \in Parts : Committed(evs)[k].tok[p] >= facts[k].tok[p]
         /\ \A e \in Keyed(evs) : Committed(evs)[e.key] # Nil
<1> DEFINE batch == Reduced(evs)
<1>1. ASSUME NEW k \in Keys
      PROVE  /\ Committed(evs)[k] \in Fact \cup {Nil}
             /\ facts[k] # Nil =>
                  /\ Committed(evs)[k] \in Fact
                  /\ \A p \in Parts : Committed(evs)[k].tok[p] >= facts[k].tok[p]
  <2>1. Committed(evs)[k] = IF k \in DOMAIN batch THEN Upsert(facts[k], batch[k]) ELSE facts[k]
    BY DEF Committed
  <2>2. facts[k] \in Fact \cup {Nil}
    BY DEF LedgerType
  <2>3. CASE k \notin DOMAIN batch
    BY <2>1, <2>2, <2>3 DEF Fact, Tokens
  <2>4. CASE k \in DOMAIN batch
    <3>1. batch[k] \in Tokens
      BY <2>4, ReducedType
    <3>2. CASE facts[k] = Nil
      BY <2>1, <2>4, <3>1, <3>2 DEF Upsert, Fact
    <3>3. CASE facts[k] # Nil
      <4>1. facts[k] \in Fact
        BY <2>2, <3>3
      <4>2. CASE Superset(batch[k], facts[k].tok)
        <5>1. Committed(evs)[k] = [facts[k] EXCEPT !.tok = batch[k]]
          BY <2>1, <2>4, <3>3, <4>2 DEF Upsert
        <5> HIDE DEF batch
        <5> QED
          BY <3>1, <4>1, <4>2, <5>1 DEF Fact, Superset
      <4>3. CASE ~Superset(batch[k], facts[k].tok)
        BY <2>1, <2>4, <3>3, <4>1, <4>3 DEF Upsert, Fact, Tokens
      <4> QED
        BY <4>2, <4>3
    <3> QED
      BY <3>2, <3>3
  <2> QED
    BY <2>3, <2>4
<1>2. Committed(evs) \in [Keys -> Fact \cup {Nil}]
  BY <1>1 DEF Committed
<1>3. ASSUME NEW e \in Keyed(evs) PROVE Committed(evs)[e.key] # Nil
  <2>1. e.key \in Keys /\ e.key \in DOMAIN batch
    BY DEF Keyed, Reduced, EventBatch
  <2>2. Committed(evs)[e.key] = Upsert(facts[e.key], batch[e.key])
    BY <2>1 DEF Committed
  <2>3. batch[e.key] \in Tokens
    BY <2>1, ReducedType
  <2>4. CASE facts[e.key] = Nil
    BY <2>2, <2>3, <2>4, NilIsNoFact DEF Upsert, Fact
  <2>5. CASE facts[e.key] # Nil
    BY <1>1, <2>1, <2>5, NilIsNoFact
  <2> QED
    BY <2>4, <2>5
<1> QED
  BY <1>1, <1>2, <1>3, NilIsNoFact

-----------------------------------------------------------------------------
LEMMA LedgerTypeInit == LedgerInit => LedgerType
  BY DEF LedgerInit, LedgerType

\* A correction and a revert write a fact and put both sides on record.
LEMMA CorrectionStep ==
  ASSUME LedgerType, Corrections
  PROVE  /\ LedgerType'
         /\ \/ facts' = facts
            \/ /\ Len(revisions') > Len(revisions)
               /\ \A k \in Keys : facts[k] # Nil => facts'[k] # Nil
<1>0. facts \in [Keys -> Fact \cup {Nil}] /\ revisions \in Seq(Revision)
  BY DEF LedgerType
<1>1. ASSUME NEW k \in Keys, NEW fact \in Fact, NEW row \in Revision,
             facts' = [facts EXCEPT ![k] = fact], revisions' = Append(revisions, row)
      PROVE  /\ LedgerType' /\ Len(revisions') > Len(revisions)
             /\ \A x \in Keys : facts[x] # Nil => facts'[x] # Nil
  <2>1. revisions' \in Seq(Revision) /\ Len(revisions') = Len(revisions) + 1 /\ Len(revisions) \in Nat
    BY <1>0, <1>1
  <2>2. facts' \in [Keys -> Fact \cup {Nil}]
    BY <1>0, <1>1
  <2>3. \A x \in Keys : facts[x] # Nil => facts'[x] # Nil
    BY <1>0, <1>1, NilIsNoFact
  <2> QED
    BY <2>1, <2>2, <2>3 DEF LedgerType
<1>2. ASSUME NEW k \in Keys, NEW tok \in Payloads, NEW ver \in 2..3, Correct(k, tok, ver)
      PROVE  /\ LedgerType' /\ Len(revisions') > Len(revisions)
             /\ \A x \in Keys : facts[x] # Nil => facts'[x] # Nil
  <2> DEFINE next == [tok |-> tok, ver |-> ver]
             row == [key |-> k, prev |-> facts[k], next |-> next, revert |-> FALSE]
  <2>1. next \in Fact
    BY LedgerAssumption DEF Fact, Tokens
  <2>2. facts[k] \in Fact
    BY <1>0, <1>2 DEF Correct
  <2>3. row \in Revision
    BY <2>1, <2>2 DEF Revision
  <2>4. facts' = [facts EXCEPT ![k] = next] /\ revisions' = Append(revisions, row)
    BY <1>2 DEF Correct
  <2> HIDE DEF next, row
  <2> QED
    BY <1>1, <2>1, <2>3, <2>4
<1>3. ASSUME NEW k \in Keys, Revert(k)
      PROVE  /\ LedgerType' /\ Len(revisions') > Len(revisions)
             /\ \A x \in Keys : facts[x] # Nil => facts'[x] # Nil
  <2> DEFINE mine == {i \in DOMAIN revisions : revisions[i].key = k /\ ~revisions[i].revert}
             last == revisions[Max(mine)]
             row == [key |-> k, prev |-> facts[k], next |-> last.prev, revert |-> TRUE]
  <2>1. mine # {} /\ facts[k] = last.next
        /\ facts' = [facts EXCEPT ![k] = last.prev] /\ revisions' = Append(revisions, row)
    BY <1>3 DEF Revert
  <2>2. Max(mine) \in DOMAIN revisions
    <3>1. DOMAIN revisions = 1..Len(revisions) /\ Len(revisions) \in Nat
      BY <1>0
    <3>2. mine \in SUBSET Nat /\ mine \in SUBSET (1..Len(revisions))
      BY <3>1
    <3>3. IsFiniteSet(1..Len(revisions))
      BY <3>1, FS_Interval
    <3>4. IsFiniteSet(mine)
      BY <3>2, <3>3, FS_Subset
    <3>5. Max(mine) \in mine
      <4> HIDE DEF mine
      <4> QED
        BY <2>1, <3>2, <3>4, MaxOfFinite
    <3> QED
      BY <3>5
  <2>3. last \in Revision
    <3> HIDE DEF mine
    <3> QED
      BY <1>0, <2>2
  <2>4. last.prev \in Fact /\ last.next \in Fact
    <3> HIDE DEF last
    <3> QED
      BY <2>3 DEF Revision
  <2>5. row \in Revision
    <3> HIDE DEF last
    <3> QED
      BY <2>1, <2>4 DEF Revision
  <2>6. last.prev \in Fact /\ facts' = [facts EXCEPT ![k] = last.prev] /\ revisions' = Append(revisions, row)
    BY <2>1, <2>4
  <2> HIDE DEF last, row
  <2> QED
    BY <1>1, <2>5, <2>6
<1>4. CASE ClearCorrectionPermit
  BY <1>4 DEF ClearCorrectionPermit, LedgerType
<1> QED
  BY <1>2, <1>3, <1>4 DEF Corrections

LEMMA LedgerStep ==
  ASSUME LedgerType, [LedgerNext]_ledgerVars
  PROVE  /\ LedgerType'
         /\ \A k \in Keys : facts[k] # Nil =>
              /\ facts'[k] # Nil
              /\ \/ \A p \in Parts : facts'[k].tok[p] >= facts[k].tok[p]
                 \/ Len(revisions') > Len(revisions)
<1>1. \A k \in Keys, p \in Parts : facts[k] # Nil => facts[k].tok[p] >= facts[k].tok[p]
  BY DEF LedgerType, Fact, Tokens
<1>2. ASSUME NEW evs \in Batches, facts' = Committed(evs), UNCHANGED revisions PROVE
        /\ LedgerType'
        /\ \A k \in Keys : facts[k] # Nil =>
              /\ facts'[k] # Nil
              /\ \A p \in Parts : facts'[k].tok[p] >= facts[k].tok[p]
  BY <1>2, CommittedRises, BatchesAreBatches DEF LedgerType
<1>3. ASSUME NEW evs \in Batches, CommitUsage(evs) \/ NoteComplete(evs)
               \/ (Import(evs) /\ UNCHANGED <<omitted, revisions, permit>>)
      PROVE  \/ facts' = Committed(evs) /\ UNCHANGED revisions
             \/ UNCHANGED <<facts, revisions>>
  BY <1>3 DEF CommitUsage, NoteComplete, Import
<1>4. CASE UNCHANGED <<facts, revisions>>
  BY <1>1, <1>4 DEF LedgerType
<1>5. CASE Corrections
  BY <1>1, <1>5, CorrectionStep
<1>6. CASE UNCHANGED ledgerVars
  BY <1>4, <1>6 DEF ledgerVars
<1> QED
  BY <1>2, <1>3, <1>4, <1>5, <1>6 DEF LedgerNext

THEOREM LedgerTypeCorrect == LedgerSpec => []LedgerType
<1>1. LedgerType /\ [LedgerNext]_ledgerVars => LedgerType'
  BY LedgerStep
<1> QED
  BY <1>1, LedgerTypeInit, PTL DEF LedgerSpec

\* A count that the ledger stored never falls and no fact is forgotten, unless
\* the same transaction puts a correction or a revert on record.
THEOREM StoredCountsOnlyRise == LedgerSpec => FactsOnlyRise
<1> DEFINE Rises(k) == facts[k] # Nil =>
              /\ facts'[k] # Nil
              /\ \/ \A p \in Parts : facts'[k].tok[p] >= facts[k].tok[p]
                 \/ Len(revisions') > Len(revisions)
<1>1. LedgerType /\ [LedgerNext]_ledgerVars => [\A k \in Keys : Rises(k)]_ledgerVars
  BY LedgerStep
<1> QED
  BY <1>1, LedgerTypeCorrect, PTL DEF LedgerSpec, FactsOnlyRise

-----------------------------------------------------------------------------
(* The scan and its index, for every set of paths, lines and sessions, any    *)
(* number of scans, and any moves of the logs, errors, crashes and rebuilds   *)
(* between their steps.                                                       *)

Inode == PathSet \X Nat
File == [ino : Inode, mtime : Nat, lines : Seq(Lines), half : BOOLEAN, wrote : Nat]
Stat == [size : Nat, mtime : Nat, ino : Inode]
IndexRow == [cur : Stat, offset : Nat, blob : Seq(Lines)]
IndexTable == [PathSet -> IndexRow \cup {Nil}]
OnPath == {"stat", "parse", "facts", "checkpoint"}
Scanning ==
  [at : OnPath \cup {"replay", "finish"}, next : Nat, own : IndexTable \cup {Nil}, cur : Stat \cup {Nil},
   offset : Nat, blob : Seq(Lines), visited : SUBSET PathSet, emitted : SUBSET Lines,
   failed : SUBSET {RootOf[p] : p \in PathSet}, unread : SUBSET Lines]

CanFinish(file, p) == file.half => file.wrote < Len(Script[SessionAt[p]])
ScanTypeOK ==
  /\ LedgerType
  /\ disk \in [PathSet -> File \cup {Nil}]
  /\ \A p \in PathSet : disk[p] # Nil => CanFinish(disk[p], p)
  /\ index \in IndexTable
  /\ scan \in Scanning \cup {Nil}
  /\ scan # Nil /\ scan.at \in OnPath => scan.next \in 1..Len(Paths)
  /\ scan # Nil /\ scan.at \in OnPath \ {"stat"} => scan.cur \in Stat
  /\ upsets \in Nat

-----------------------------------------------------------------------------
(* Sequences of lines. *)

LEMMA PathsOfPlaces == \A i \in 1..Len(Paths) : Paths[i] \in PathSet
  BY ScanAssumption DEF PathSet, ToSet

LEMMA ScriptLines ==
  ASSUME NEW p \in PathSet
  PROVE  /\ Script[SessionAt[p]] \in Seq(Lines)
         /\ \A n \in Nat : n < Len(Script[SessionAt[p]]) => Script[SessionAt[p]][n + 1] \in Lines
<1>1. Script[SessionAt[p]] \in Seq(Lines)
  BY ScanAssumption DEF PathSet
<1> QED
  BY <1>1

LEMMA LinesOfSeq ==
  ASSUME NEW s \in Seq(Lines)
  PROVE  ToSet(s) \subseteq Lines /\ \A i \in DOMAIN s : s[i] \in ToSet(s)
  BY DEF ToSet

LEMMA RemovedType ==
  ASSUME NEW s \in Seq(Lines), NEW i \in DOMAIN s
  PROVE  RemoveAt(s, i) \in Seq(Lines)
<1>1. i \in 1..Len(s) /\ Len(s) \in Nat
  OBVIOUS
<1>2. SubSeq(s, 1, i - 1) \in Seq(Lines) /\ SubSeq(s, i + 1, Len(s)) \in Seq(Lines)
  BY <1>1
<1> QED
  BY <1>2, ConcatProperties DEF RemoveAt

\* The usage of lines is a batch for the ledger.
LEMMA UsageIsBatch ==
  ASSUME NEW S \in SUBSET Lines
  PROVE  EventBatch(Usage(S))
<1> DEFINE keyed == {m \in S : KeyOf[m] # Nil}
<1>1. IsFiniteSet(keyed)
  BY ScanAssumption, FS_Subset
<1>2. [l \in keyed |-> Event(l)] \in Surjection(keyed, Usage(S))
  BY DEF Surjection, Usage
<1>3. IsFiniteSet(Usage(S))
  BY <1>1, <1>2, FS_Surjection
<1>4. Usage(S) \subseteq [key : Keys \cup {Nil}, tok : Tokens]
  BY ScanAssumption DEF Usage, Event
<1> QED
  BY <1>3, <1>4 DEF EventBatch

LEMMA ExportType == ScanTypeOK => EventBatch(ExportUsage)
<1> SUFFICES ASSUME ScanTypeOK PROVE EventBatch(ExportUsage)
  OBVIOUS
<1> DEFINE S == UNION {ToSet(index[p].blob) : p \in {q \in PathSet : index[q] # Nil}}
<1>1. \A p \in PathSet : index[p] # Nil => index[p].blob \in Seq(Lines)
  BY DEF ScanTypeOK, IndexTable, IndexRow
<1>2. S \in SUBSET Lines
  BY <1>1, LinesOfSeq
<1>3. ExportUsage = Usage(S)
  BY DEF ExportUsage, Usage
<1> QED
  BY <1>2, <1>3, UsageIsBatch

\* The last lines of a file, as a sequence.
LEMMA LastLines ==
  ASSUME NEW lines \in Seq(Lines), NEW len \in Nat, len = Len(lines), NEW k \in 0..len, NEW n, n = len - k,
         NEW got, got = [i \in 1..n |-> lines[len - n + i]]
  PROVE  /\ got \in Seq(Lines)
         /\ \A i \in (k + 1)..len : lines[i] \in ToSet(got)
<1>1. n \in Nat /\ \A i \in 1..n : len - n + i \in 1..len
  OBVIOUS
<1>2. \A i \in 1..n : lines[len - n + i] \in Lines
  BY <1>1
<1>3. got \in Seq(Lines)
  BY <1>1, <1>2, IsASeq
<1>4. ASSUME NEW i \in (k + 1)..len PROVE lines[i] \in ToSet(got)
  <2>1. i - k \in 1..n /\ len - n + (i - k) = i /\ DOMAIN got = 1..n
    OBVIOUS
  <2>2. got[i - k] = lines[i]
    BY <2>1
  <2> QED
    BY <2>1, <2>2 DEF ToSet
<1> QED
  BY <1>3, <1>4

\* The half lines from an offset on begin a last part of the file.
LEMMA OffsetLine ==
  ASSUME NEW offset \in Nat, NEW len \in Nat
  PROVE  \E k \in 0..len : {i \in 1..len : 2 * (i - 1) >= offset} = (k + 1)..len
<1> DEFINE Above == {m \in Nat : 2 * m >= offset}
<1>1. PICK m \in Above : \A x \in Above : m <= x
  <2>1. offset \in Above /\ Above \in SUBSET Nat
    OBVIOUS
  <2> HIDE DEF Above
  <2> QED
    BY <2>1, LeastNatural
<1>2. m \in Nat /\ 2 * m >= offset /\ \A x \in Nat : 2 * x >= offset => x >= m
  BY <1>1
<1>3. ASSUME NEW i \in 1..len PROVE 2 * (i - 1) >= offset <=> i >= m + 1
  <2>1. PICK j \in Nat : i = j + 1
    OBVIOUS
  <2>2. 2 * j >= offset => j >= m
    BY <1>2
  <2>3. j >= m => 2 * j >= offset
    BY <1>2
  <2>4. i >= m + 1 <=> j >= m
    BY <1>2, <2>1
  <2>5. 2 * (i - 1) = 2 * j
    BY <2>1
  <2>6. 2 * j >= offset <=> i >= m + 1
    BY <2>2, <2>3, <2>4
  <2> QED
    BY <2>5, <2>6
<1> HIDE DEF Above
<1>4. CASE m <= len
  <2>1. {i \in 1..len : 2 * (i - 1) >= offset} = (m + 1)..len
    BY <1>2, <1>3
  <2> QED
    BY <1>2, <1>4, <2>1
<1>5. CASE m > len
  <2>1. {i \in 1..len : 2 * (i - 1) >= offset} = (len + 1)..len
    BY <1>2, <1>3, <1>5
  <2> QED
    BY <2>1
<1> QED
  BY <1>2, <1>4, <1>5

LEMMA LargerOf ==
  ASSUME NEW a \in Nat, NEW b \in Nat
  PROVE  Max({a, b}) = IF a > b THEN a ELSE b
<1> DEFINE S == {a, b}
<1>1. S \in SUBSET Nat /\ S # {} /\ IsFiniteSet(S)
  <2>1. IsFiniteSet({a})
    BY FS_Singleton
  <2>2. S = {a} \cup {b}
    OBVIOUS
  <2>3. IsFiniteSet(S)
    BY <2>1, <2>2, FS_AddElement
  <2> QED
    BY <2>3
<1>2. Max(S) \in S /\ \A x \in S : x <= Max(S)
  <2> HIDE DEF S
  <2> QED
    BY <1>1, MaxOfFinite
<1> QED
  BY <1>2

\* What ScanJSONL reads are the lines from an offset to the end.
LEMMA ReadFrom ==
  ASSUME NEW file \in File, NEW offset \in Nat
  PROVE  /\ ScanJSONL(file, offset).lines \in Seq(Lines)
         /\ ScanJSONL(file, offset).consumed = IF offset > 2 * Len(file.lines) THEN offset ELSE 2 * Len(file.lines)
         /\ \A i \in DOMAIN file.lines : 2 * (i - 1) >= offset =>
              file.lines[i] \in ToSet(ScanJSONL(file, offset).lines)
<1>0. PICK len \in Nat : len = Len(file.lines) /\ file.lines \in Seq(Lines) /\ DOMAIN file.lines = 1..len
  BY DEF File
<1>1. PICK k \in 0..len : Finished(file, offset) = (k + 1)..len
  BY <1>0, OffsetLine DEF Finished
<1>2. Cardinality(Finished(file, offset)) = len - k
  <2>1. Cardinality((k + 1)..len) = IF k + 1 > len THEN 0 ELSE len - (k + 1) + 1
    BY FS_Interval
  <2> QED
    BY <1>1, <2>1
<1>3. PICK n, got : /\ n = len - k /\ got = [i \in 1..n |-> file.lines[len - n + i]]
                    /\ ScanJSONL(file, offset) = [lines |-> got, consumed |-> Max({offset, 2 * len})]
  BY <1>0, <1>2 DEF ScanJSONL
<1>4. got \in Seq(Lines) /\ \A i \in (k + 1)..len : file.lines[i] \in ToSet(got)
  BY <1>0, <1>3, LastLines
<1>5. \A i \in DOMAIN file.lines : 2 * (i - 1) >= offset => i \in (k + 1)..len
  BY <1>1 DEF Finished
<1>6. Max({offset, 2 * len}) = IF offset > 2 * len THEN offset ELSE 2 * len
  BY LargerOf
<1> QED
  BY <1>0, <1>3, <1>4, <1>5, <1>6

-----------------------------------------------------------------------------
(* Types. *)

LEMMA ScanTypeInit == ScanInit => ScanTypeOK
<1> SUFFICES ASSUME ScanInit PROVE ScanTypeOK
  OBVIOUS
<1>1. LedgerType /\ scan = Nil /\ upsets = 0
  BY LedgerTypeInit DEF ScanInit
<1>2. PICK old \in SUBSET PathSet :
        /\ index = [p \in PathSet |-> IF p \in old THEN OldRow(p) ELSE Nil]
        /\ disk = [p \in PathSet |-> IF p \in old \/ IsArchive(p) THEN Nil
                     ELSE [ino |-> <<p, 0>>, mtime |-> 0, lines |-> <<>>, half |-> FALSE, wrote |-> 0]]
  BY DEF ScanInit
<1>3. \A p \in PathSet : OldRow(p) \in IndexRow
  <2> TAKE p \in PathSet
  <2>1. Script[SessionAt[p]] \in Seq(Lines) /\ 2 * Len(Script[SessionAt[p]]) \in Nat
    BY ScriptLines
  <2> QED
    BY <2>1 DEF OldRow, Row, IndexRow, Stat, Inode
<1>4. \A p \in PathSet :
        [ino |-> <<p, 0>>, mtime |-> 0, lines |-> <<>>, half |-> FALSE, wrote |-> 0] \in File
  BY DEF File, Inode
<1>5. index \in IndexTable
  BY <1>2, <1>3 DEF IndexTable
<1>6. disk \in [PathSet -> File \cup {Nil}]
  BY <1>2, <1>4
<1>7. \A p \in PathSet : disk[p] # Nil => CanFinish(disk[p], p)
  BY <1>2 DEF CanFinish
<1> QED
  BY <1>1, <1>5, <1>6, <1>7 DEF ScanTypeOK

\* A file that is there.
LEMMA FileThere ==
  ASSUME ScanTypeOK, NEW p \in PathSet, disk[p] # Nil
  PROVE  disk[p] \in File
  BY DEF ScanTypeOK

LEMMA DiskType ==
  ASSUME ScanTypeOK, NEW p \in PathSet, NEW file \in File, CanFinish(file, p), disk' = [disk EXCEPT ![p] = file],
         upsets' \in Nat, UNCHANGED <<index, scan, facts, revisions>>
  PROVE  ScanTypeOK'
<1>1. /\ disk' \in [PathSet -> File \cup {Nil}]
      /\ \A q \in PathSet : disk'[q] # Nil => CanFinish(disk'[q], q)
  BY DEF ScanTypeOK
<1>2. LedgerType'
  BY DEF ScanTypeOK, LedgerType
<1> QED
  BY <1>1, <1>2 DEF ScanTypeOK

LEMMA WriteLineType ==
  ASSUME ScanTypeOK, NEW p \in PathSet, NEW whole \in BOOLEAN, WriteLine(p, whole)
  PROVE  /\ ScanTypeOK'
         /\ \E file \in File : /\ disk' = [disk EXCEPT ![p] = file]
                               /\ file.ino = disk[p].ino
                               /\ file.lines = IF whole THEN Append(disk[p].lines, Script[SessionAt[p]][disk[p].wrote + 1])
                                               ELSE disk[p].lines
                               /\ file.half = ~whole
<1> DEFINE f == disk[p]
           next == Script[SessionAt[p]][f.wrote + 1]
           file == IF whole THEN [f EXCEPT !.lines = Append(@, next), !.wrote = @ + 1] ELSE [f EXCEPT !.half = TRUE]
<1>1. f \in File /\ f.lines \in Seq(Lines) /\ f.wrote \in Nat /\ ~f.half
  BY FileThere DEF WriteLine, File
<1>2. next \in Lines
  BY <1>1, ScriptLines DEF WriteLine
<1>3. Append(f.lines, next) \in Seq(Lines) /\ f.wrote + 1 \in Nat
  BY <1>1, <1>2
<1>4. file \in File
  BY <1>1, <1>3 DEF File
<1>5. disk' = [disk EXCEPT ![p] = file]
  BY DEF WriteLine
<1>6. UNCHANGED <<index, scan, facts, revisions, upsets>>
  BY DEF WriteLine, ledgerVars, bounds
<1>7. file.ino = f.ino /\ file.half = ~whole /\ file.lines = IF whole THEN Append(f.lines, next) ELSE f.lines
  BY <1>1 DEF File
<1>9. CanFinish(file, p)
  BY <1>1 DEF CanFinish, WriteLine, File
<1> HIDE DEF file
<1>8. ScanTypeOK'
  BY <1>4, <1>5, <1>6, <1>9, DiskType DEF ScanTypeOK
<1> QED
  BY <1>4, <1>5, <1>7, <1>8

LEMMA FinishLineType ==
  ASSUME ScanTypeOK, NEW p \in PathSet, FinishLine(p)
  PROVE  /\ ScanTypeOK'
         /\ \E file \in File : /\ disk' = [disk EXCEPT ![p] = file]
                               /\ file.ino = disk[p].ino
                               /\ file.lines = Append(disk[p].lines, Script[SessionAt[p]][disk[p].wrote + 1])
                               /\ file.half = FALSE
<1> DEFINE f == disk[p]
           next == Script[SessionAt[p]][f.wrote + 1]
           file == [f EXCEPT !.half = FALSE, !.wrote = @ + 1, !.lines = Append(@, next)]
<1>1. f \in File /\ f.lines \in Seq(Lines) /\ f.wrote \in Nat /\ f.half /\ CanFinish(f, p)
  BY FileThere DEF FinishLine, File, ScanTypeOK
<1>2. next \in Lines
  BY <1>1, ScriptLines DEF CanFinish
<1>3. Append(f.lines, next) \in Seq(Lines) /\ f.wrote + 1 \in Nat
  BY <1>1, <1>2
<1>4. file \in File
  BY <1>1, <1>3 DEF File
<1>5. disk' = [disk EXCEPT ![p] = file]
  BY DEF FinishLine
<1>6. UNCHANGED <<index, scan, facts, revisions, upsets>>
  BY DEF FinishLine, ledgerVars, bounds
<1>7. file.ino = f.ino /\ file.half = FALSE /\ file.lines = Append(f.lines, next) /\ CanFinish(file, p)
  BY <1>1 DEF File, CanFinish
<1> HIDE DEF file
<1>8. ScanTypeOK'
  BY <1>4, <1>5, <1>6, <1>7, DiskType DEF ScanTypeOK
<1> QED
  BY <1>4, <1>5, <1>7, <1>8

\* What a move does to the files, one disjunct each.
Gone(p) == disk' = [disk EXCEPT ![p] = Nil]
Replaced(p) == \E file \in File : disk' = [disk EXCEPT ![p] = file] /\ file.ino = <<p, upsets + 1>>
Archived(p) == ArchiveOf[p] # Nil /\ disk' = [disk EXCEPT ![p] = Nil, ![ArchiveOf[p]] = disk[p]]
Touched(p) == \E file \in File : /\ disk' = [disk EXCEPT ![p] = file]
                                 /\ file.ino = disk[p].ino /\ file.lines = disk[p].lines /\ file.half = disk[p].half

LEMMA MoveType ==
  ASSUME ScanTypeOK, NEW p \in PathSet, Move(p)
  PROVE  /\ ScanTypeOK' /\ upsets' = upsets + 1 /\ disk[p] # Nil
         /\ Gone(p) \/ Replaced(p) \/ Archived(p) \/ Touched(p)
<1>1. disk[p] # Nil /\ upsets' = upsets + 1 /\ UNCHANGED <<index, scan, facts, revisions>>
  BY DEF Move, ledgerVars
<1>2. disk[p] \in File /\ disk[p].lines \in Seq(Lines) /\ CanFinish(disk[p], p) /\ upsets' \in Nat
  BY <1>1, FileThere DEF File, ScanTypeOK
<1>3. ASSUME NEW d, d \in [PathSet -> File \cup {Nil}], \A q \in PathSet : d[q] # Nil => CanFinish(d[q], q), disk' = d
      PROVE  ScanTypeOK'
  <2>1. LedgerType'
    BY <1>1 DEF ScanTypeOK, LedgerType
  <2> QED
    BY <1>1, <1>2, <1>3, <2>1 DEF ScanTypeOK
<1>4. CASE Gone(p)
  <2> DEFINE d == [disk EXCEPT ![p] = Nil]
  <2>1. d \in [PathSet -> File \cup {Nil}] /\ \A q \in PathSet : d[q] # Nil => CanFinish(d[q], q)
    BY DEF ScanTypeOK
  <2> QED
    BY <1>1, <1>3, <1>4, <2>1 DEF Gone
<1>5. ASSUME NEW i \in DOMAIN disk[p].lines,
             disk' = [disk EXCEPT ![p].ino = <<p, upsets + 1>>, ![p].lines = RemoveAt(@, i)]
      PROVE  Replaced(p) /\ ScanTypeOK'
  <2> DEFINE file == [disk[p] EXCEPT !.ino = <<p, upsets + 1>>, !.lines = RemoveAt(@, i)]
  <2>1. RemoveAt(disk[p].lines, i) \in Seq(Lines) /\ <<p, upsets + 1>> \in Inode
    BY <1>2, RemovedType DEF Inode, ScanTypeOK
  <2>2. file \in File /\ file.ino = <<p, upsets + 1>> /\ CanFinish(file, p)
    BY <1>2, <2>1 DEF File, CanFinish
  <2>3. disk' = [disk EXCEPT ![p] = file]
    BY <1>5
  <2> HIDE DEF file
  <2> QED
    BY <1>1, <1>2, <2>2, <2>3, DiskType DEF Replaced
<1>6. CASE Archived(p)
  <2> DEFINE d == [disk EXCEPT ![p] = Nil, ![ArchiveOf[p]] = disk[p]]
  <2>1. ArchiveOf[p] \in PathSet /\ SessionAt[ArchiveOf[p]] = SessionAt[p]
    BY <1>6, ScanAssumption DEF Archived, PathSet
  <2>2. CanFinish(disk[p], ArchiveOf[p])
    BY <1>2, <2>1 DEF CanFinish
  <2>3. d \in [PathSet -> File \cup {Nil}] /\ \A q \in PathSet : d[q] # Nil => CanFinish(d[q], q)
    BY <1>2, <2>1, <2>2 DEF ScanTypeOK
  <2> QED
    BY <1>1, <1>3, <1>6, <2>3 DEF Archived
<1>7. CASE disk' = [disk EXCEPT ![p].mtime = upsets + 1]
  <2> DEFINE file == [disk[p] EXCEPT !.mtime = upsets + 1]
  <2>1. file \in File /\ CanFinish(file, p) /\ file.ino = disk[p].ino /\ file.lines = disk[p].lines /\ file.half = disk[p].half
    BY <1>2 DEF File, CanFinish, ScanTypeOK
  <2>2. disk' = [disk EXCEPT ![p] = file]
    BY <1>7
  <2> HIDE DEF file
  <2> QED
    BY <1>1, <1>2, <2>1, <2>2, DiskType DEF Touched
<1> QED
  BY <1>1, <1>4, <1>5, <1>6, <1>7 DEF Move, Gone, Archived

\* A scan that is on its way.
LEMMA ScanThere ==
  ASSUME ScanTypeOK, scan # Nil
  PROVE  /\ scan \in Scanning /\ Table \in IndexTable
         /\ scan.at \in OnPath => Path \in PathSet
         /\ \A p \in PathSet : Table[p] # Nil => Table[p] \in IndexRow
<1>1. scan \in Scanning
  BY DEF ScanTypeOK
<1>2. Table \in IndexTable
  BY <1>1 DEF Table, ScanTypeOK, Scanning
<1>3. scan.at \in OnPath => Path \in PathSet
  BY PathsOfPlaces DEF ScanTypeOK, Path
<1> QED
  BY <1>1, <1>2, <1>3 DEF IndexTable

LEMMA LeaveType ==
  ASSUME ScanTypeOK, scan # Nil, scan.at \in OnPath, NEW lines \in Seq(Lines), NEW ok \in BOOLEAN
  PROVE  /\ Leave(lines, ok) \in Scanning
         /\ Leave(lines, ok).at \in {"stat", "replay"}
         /\ Leave(lines, ok).at = "stat" => Leave(lines, ok).next \in 1..Len(Paths)
         /\ Leave(lines, ok).own = scan.own /\ Leave(lines, ok).unread = scan.unread
         /\ Leave(lines, ok).visited = scan.visited
<1>1. scan \in Scanning /\ Path \in PathSet /\ scan.next \in 1..Len(Paths)
  BY ScanThere DEF ScanTypeOK
<1>2. Len(Paths) \in Nat /\ scan.next + 1 \in Nat
  BY <1>1, ScanAssumption
<1>3. scan.emitted \cup ToSet(lines) \in SUBSET Lines
  BY <1>1, LinesOfSeq DEF Scanning
<1>4. (IF ok THEN scan.failed ELSE scan.failed \cup {RootOf[Path]}) \in SUBSET {RootOf[p] : p \in PathSet}
  BY <1>1 DEF Scanning
<1>5. <<>> \in Seq(Lines)
  OBVIOUS
<1>6. Leave(lines, ok) \in Scanning
  BY <1>1, <1>2, <1>3, <1>4, <1>5 DEF Leave, Scanning, OnPath
<1>7. /\ Leave(lines, ok).at = IF scan.next = Len(Paths) THEN "replay" ELSE "stat"
      /\ Leave(lines, ok).next = scan.next + 1
      /\ Leave(lines, ok).own = scan.own /\ Leave(lines, ok).unread = scan.unread
      /\ Leave(lines, ok).visited = scan.visited
  BY <1>1 DEF Leave, Scanning
<1> QED
  BY <1>1, <1>2, <1>6, <1>7

\* A step of the scan that leaves the files alone.
LEMMA StepType ==
  ASSUME ScanTypeOK, UNCHANGED disk, LedgerType', index' \in IndexTable, upsets' \in Nat,
         scan' \in Scanning \cup {Nil},
         scan' # Nil /\ scan'.at \in OnPath => scan'.next \in 1..Len(Paths),
         scan' # Nil /\ scan'.at \in OnPath \ {"stat"} => scan'.cur \in Stat
  PROVE  ScanTypeOK'
  BY DEF ScanTypeOK

LEMMA LeavesType ==
  ASSUME ScanTypeOK, scan # Nil, scan.at \in OnPath, NEW lines \in Seq(Lines), NEW ok \in BOOLEAN,
         scan' \in Scanning, scan'.at = Leave(lines, ok).at, scan'.next = Leave(lines, ok).next,
         UNCHANGED disk, LedgerType', index' \in IndexTable, upsets' \in Nat
  PROVE  ScanTypeOK'
<1>1. Leave(lines, ok).at \in {"stat", "replay"}
      /\ (Leave(lines, ok).at = "stat" => Leave(lines, ok).next \in 1..Len(Paths))
  BY LeaveType
<1> QED
  BY <1>1, StepType DEF OnPath

LEMMA SameLedger == LedgerType /\ UNCHANGED <<facts, revisions>> => LedgerType'
  BY DEF LedgerType

LEMMA BeginType ==
  ASSUME ScanTypeOK, NEW imports \in BOOLEAN, Begin(imports)
  PROVE  ScanTypeOK'
<1>1. LedgerType' /\ upsets' \in Nat
  <2>1. CASE imports
    <3>1. facts' \in [Keys -> Fact \cup {Nil}] /\ UNCHANGED <<revisions, upsets>>
      BY <2>1, ExportType, CommittedRises DEF Begin, Import, ScanTypeOK, LedgerType
    <3> QED
      BY <3>1 DEF LedgerType, ScanTypeOK
  <2>2. CASE ~imports
    BY <2>2, SameLedger DEF Begin, ScanTypeOK
  <2> QED
    BY <2>1, <2>2
<1>2. /\ scan' = [at |-> "stat", next |-> 1, own |-> Nil,
              cur |-> Nil, offset |-> 0, blob |-> <<>>, visited |-> {},
              emitted |-> {}, failed |-> {}, unread |-> {}]
      /\ UNCHANGED <<disk, index>>
  BY DEF Begin
<1>3. 1 \in 1..Len(Paths)
  BY ScanAssumption
<1>4. <<>> \in Seq(Lines)
  OBVIOUS
<1>5. scan' \in Scanning /\ scan'.at = "stat" /\ scan'.next = 1
  BY <1>2, <1>4 DEF Scanning, OnPath
<1>6. index' \in IndexTable
  BY <1>2 DEF ScanTypeOK
<1> QED
  BY <1>1, <1>2, <1>3, <1>5, <1>6, StepType

LEMMA StatType ==
  ASSUME NEW file \in File
  PROVE  [size |-> Size(file), mtime |-> file.mtime, ino |-> file.ino] \in Stat
  BY DEF File, Stat, Size

LEMMA UnreadType ==
  ASSUME ScanTypeOK, scan # Nil, scan.at \in OnPath, disk[Path] # Nil, NEW lines, NEW stat
  PROVE  Unread(lines, stat) \subseteq Lines
<1>1. disk[Path].lines \in Seq(Lines)
  BY FileThere, ScanThere DEF File
<1> QED
  BY <1>1, LinesOfSeq DEF Unread

\* What a visit makes of a file that is there.
Seen0 == [size |-> Size(disk[Path]), mtime |-> disk[Path].mtime, ino |-> disk[Path].ino]
Unchanged0 ==
  /\ Decide(Table[Path], Seen0) = "unchanged"
  /\ scan' = [Leave(Table[Path].blob, TRUE) EXCEPT !.unread = @ \cup Unread(Table[Path].blob, Seen0),
                                                 !.visited = @ \cup {Path}]
Changed0 ==
  LET mode == Decide(Table[Path], Seen0) IN
  /\ mode # "unchanged"
  /\ scan' = [scan EXCEPT !.at = "parse", !.cur = Seen0, !.visited = @ \cup {Path},
                          !.offset = IF mode = "incremental" THEN Table[Path].offset ELSE 0,
                          !.blob = IF mode = "incremental" THEN Table[Path].blob ELSE <<>>]

LEMMA VisitCases ==
  ASSUME Visit
  PROVE  /\ scan # Nil /\ scan.at = "stat" /\ UNCHANGED <<disk, index, report, upsets, facts, revisions, omitted, imported>>
         /\ \/ disk[Path] = Nil /\ scan' = Leave(<<>>, TRUE)
            \/ disk[Path] # Nil /\ (Unchanged0 \/ Changed0)
  BY DEF Visit, Unchanged0, Changed0, Seen0, ledgerVars, bounds

\* A row is taken over only if there is one.
LEMMA DecideRow ==
  ASSUME NEW prev, NEW cur, Decide(prev, cur) \in {"unchanged", "incremental"}
  PROVE  /\ prev # Nil /\ cur.ino = prev.cur.ino
         /\ Decide(prev, cur) = "unchanged" => cur = prev.cur
         /\ Decide(prev, cur) = "incremental" => Path \in Incremental
  BY DEF Decide

LEMMA VisitType ==
  ASSUME ScanTypeOK, Visit
  PROVE  ScanTypeOK'
<1>1. /\ scan # Nil /\ scan.at = "stat" /\ scan \in Scanning /\ Path \in PathSet
      /\ UNCHANGED disk /\ LedgerType' /\ index' \in IndexTable /\ upsets' \in Nat
  BY VisitCases, ScanThere, SameLedger DEF ScanTypeOK, OnPath
<1>2. CASE disk[Path] = Nil
  <2>1. scan' = Leave(<<>>, TRUE) /\ <<>> \in Seq(Lines)
    BY <1>2, VisitCases
  <2>2. scan' \in Scanning
    BY <1>1, <2>1, LeaveType DEF OnPath
  <2> QED
    BY <1>1, <2>1, <2>2, LeavesType DEF OnPath
<1>3. CASE disk[Path] # Nil /\ Unchanged0
  <2>1. Table[Path] \in IndexRow /\ Table[Path].blob \in Seq(Lines)
    BY <1>1, <1>3, ScanThere, DecideRow DEF Unchanged0, IndexRow
  <2> DEFINE blob == Table[Path].blob
             visited == scan.visited \cup {Path}
             unread == scan.unread \cup Unread(blob, Seen0)
  <2>2. unread \in SUBSET Lines /\ visited \in SUBSET PathSet
    BY <1>1, <1>3, UnreadType DEF Scanning, OnPath
  <2>3. PICK left \in Scanning : left = Leave(blob, TRUE) /\ left.visited = scan.visited /\ left.unread = scan.unread
    BY <1>1, <2>1, LeaveType DEF OnPath
  <2>4. scan' = [left EXCEPT !.unread = @ \cup Unread(blob, Seen0), !.visited = @ \cup {Path}]
    BY <1>3, <2>3 DEF Unchanged0
  <2>5. scan' \in Scanning /\ scan'.at = left.at /\ scan'.next = left.next
    BY <2>2, <2>3, <2>4 DEF Scanning
  <2> QED
    BY <1>1, <2>1, <2>3, <2>5, LeavesType DEF OnPath
<1>4. CASE disk[Path] # Nil /\ Changed0
  <2> DEFINE mode == Decide(Table[Path], Seen0)
             offset == IF mode = "incremental" THEN Table[Path].offset ELSE 0
             blob == IF mode = "incremental" THEN Table[Path].blob ELSE <<>>
  <2>1. Seen0 \in Stat
    BY <1>1, <1>4, FileThere, StatType DEF Seen0
  <2>2. mode = "incremental" => Table[Path] \in IndexRow
    BY <1>1, ScanThere, DecideRow
  <2>3. offset \in Nat /\ blob \in Seq(Lines)
    BY <2>2 DEF IndexRow
  <2>4. scan' = [scan EXCEPT !.at = "parse", !.cur = Seen0, !.visited = @ \cup {Path},
                             !.offset = offset, !.blob = blob]
    BY <1>4 DEF Changed0
  <2> HIDE DEF offset, blob
  <2>5. scan' \in Scanning /\ scan'.at = "parse" /\ scan'.next = scan.next /\ scan'.cur = Seen0
    BY <1>1, <2>1, <2>3, <2>4 DEF Scanning, OnPath
  <2>6. scan.next \in 1..Len(Paths)
    BY <1>1 DEF ScanTypeOK, OnPath
  <2> QED
    BY <1>1, <2>1, <2>5, <2>6, StepType
<1> QED
  BY <1>2, <1>3, <1>4, VisitCases

LEMMA ParseType ==
  ASSUME ScanTypeOK, Parse
  PROVE  ScanTypeOK'
<1>1. /\ scan # Nil /\ scan.at = "parse" /\ scan \in Scanning /\ Path \in PathSet
      /\ UNCHANGED <<disk, index>> /\ LedgerType' /\ index' \in IndexTable
  BY ScanThere, SameLedger DEF ScanTypeOK, OnPath, Parse, ledgerVars
<1>2. upsets' \in Nat /\ scan.blob \in Seq(Lines) /\ <<>> \in Seq(Lines)
  <2>1. upsets' = upsets \/ upsets' = upsets + 1
    BY DEF Parse
  <2>2. scan.blob \in Seq(Lines)
    BY <1>1 DEF Scanning
  <2> QED
    BY <2>1, <2>2 DEF ScanTypeOK
<1>3. ASSUME NEW lines \in Seq(Lines), scan' = Leave(lines, FALSE) PROVE ScanTypeOK'
  <2>1. scan' \in Scanning
    BY <1>1, <1>3, LeaveType DEF OnPath
  <2> QED
    BY <1>1, <1>2, <1>3, <2>1, LeavesType DEF OnPath
<1>4. CASE disk[Path] # Nil /\
           LET got == ScanJSONL(disk[Path], scan.offset) IN
             scan' = [scan EXCEPT !.at = "facts", !.blob = @ \o got.lines,
                        !.offset = IF Path \in Incremental THEN got.consumed ELSE scan.cur.size,
                        !.unread = @ \cup Unread(scan.blob \o got.lines, scan.cur)]
  <2> DEFINE got == ScanJSONL(disk[Path], scan.offset)
             blob == scan.blob \o got.lines
             offset == IF Path \in Incremental THEN got.consumed ELSE scan.cur.size
             unread == scan.unread \cup Unread(blob, scan.cur)
  <2>1. disk[Path] \in File /\ scan.offset \in Nat /\ scan.cur \in Stat /\ scan.next \in 1..Len(Paths)
    BY <1>1, <1>4, FileThere DEF Scanning, ScanTypeOK, OnPath
  <2>2. got.lines \in Seq(Lines) /\ got.consumed \in Nat
    <3>1. disk[Path].lines \in Seq(Lines)
      BY <2>1 DEF File
    <3> QED
      BY <2>1, <3>1, ReadFrom
  <2>3. blob \in Seq(Lines)
    BY <1>2, <2>2, ConcatProperties
  <2>4. offset \in Nat
    BY <2>1, <2>2 DEF Stat
  <2>5. unread \in SUBSET Lines
    BY <1>1, <1>4, UnreadType DEF Scanning, OnPath
  <2>6. scan' = [scan EXCEPT !.at = "facts", !.blob = blob, !.offset = offset, !.unread = unread]
    BY <1>4
  <2> HIDE DEF blob, offset, unread
  <2>7. scan' \in Scanning /\ scan'.at = "facts" /\ scan'.next = scan.next /\ scan'.cur = scan.cur
    BY <1>1, <2>3, <2>4, <2>5, <2>6 DEF Scanning, OnPath
  <2> QED
    BY <1>1, <1>2, <2>1, <2>7, StepType
<1> QED
  BY <1>2, <1>3, <1>4 DEF Parse

LEMMA CommitFactsType ==
  ASSUME ScanTypeOK, CommitFacts
  PROVE  /\ ScanTypeOK'
         /\ \A k \in Keys : facts[k] # Nil => facts'[k] # Nil
<1>1. /\ scan # Nil /\ scan.at = "facts" /\ scan \in Scanning /\ Path \in PathSet
      /\ UNCHANGED <<disk, index, revisions>> /\ index' \in IndexTable
  BY ScanThere DEF ScanTypeOK, OnPath, CommitFacts
<1>2. scan.blob \in Seq(Lines) /\ EventBatch(Usage(ToSet(scan.blob)))
  BY <1>1, LinesOfSeq, UsageIsBatch DEF Scanning
<1>3. CASE facts' = Committed(Usage(ToSet(scan.blob))) /\ scan' = [scan EXCEPT !.at = "checkpoint"] /\ UNCHANGED upsets
  <2>1. LedgerType' /\ \A k \in Keys : facts[k] # Nil => facts'[k] # Nil
    BY <1>1, <1>2, <1>3, CommittedRises DEF ScanTypeOK, LedgerType
  <2>2. scan' \in Scanning /\ scan'.at = "checkpoint" /\ scan'.next = scan.next /\ scan'.cur = scan.cur
    BY <1>1, <1>3 DEF Scanning, OnPath
  <2>3. scan.cur \in Stat /\ scan.next \in 1..Len(Paths) /\ upsets' \in Nat
    BY <1>1, <1>3 DEF ScanTypeOK, OnPath
  <2> QED
    BY <1>1, <2>1, <2>2, <2>3, StepType
<1>4. CASE upsets' = upsets + 1 /\ scan' = Leave(scan.blob, FALSE) /\ UNCHANGED facts
  <2>0. scan' \in Scanning
    BY <1>1, <1>2, <1>4, LeaveType DEF OnPath
  <2>1. upsets' \in Nat
    BY <1>4 DEF ScanTypeOK
  <2>5. LedgerType'
    BY <1>1, <1>4 DEF ScanTypeOK, LedgerType
  <2>2. scan'.at = Leave(scan.blob, FALSE).at /\ scan'.next = Leave(scan.blob, FALSE).next
    BY <1>4
  <2>3. scan.at \in OnPath
    BY <1>1 DEF OnPath
  <2>4. ScanTypeOK'
    BY <1>1, <1>2, <2>0, <2>1, <2>2, <2>3, <2>5, LeavesType
  <2> QED
    BY <1>4, <2>4
<1> QED
  BY <1>3, <1>4 DEF CommitFacts

\* The row that a checkpoint writes.
NewRow == Row(scan.cur, Cut(scan.offset, scan.cur.size), scan.blob)

LEMMA CheckpointType ==
  ASSUME ScanTypeOK, Checkpoint
  PROVE  ScanTypeOK' /\ NewRow \in IndexRow
<1>1. /\ scan # Nil /\ scan.at = "checkpoint" /\ scan \in Scanning /\ Path \in PathSet
      /\ UNCHANGED disk /\ LedgerType' /\ index \in IndexTable /\ upsets' \in Nat /\ scan.cur \in Stat
  BY ScanThere, SameLedger DEF ScanTypeOK, OnPath, Checkpoint, ledgerVars, bounds
<1>2. scan.blob \in Seq(Lines) /\ NewRow \in IndexRow
  BY <1>1 DEF Scanning, NewRow, Row, Cut, IndexRow, Stat
<1>3. CASE scan.own = Nil
  <2>1. index' = [index EXCEPT ![Path] = NewRow] /\ scan' = Leave(scan.blob, TRUE)
    BY <1>3 DEF Checkpoint, NewRow
  <2>2. index' \in IndexTable /\ scan' \in Scanning
    BY <1>1, <1>2, <2>1, LeaveType DEF IndexTable, OnPath
  <2> QED
    BY <1>1, <1>2, <2>1, <2>2, LeavesType DEF OnPath
<1>4. CASE scan.own # Nil
  <2>1. scan' = [Leave(scan.blob, TRUE) EXCEPT !.own[Path] = NewRow] /\ UNCHANGED index
    BY <1>4 DEF Checkpoint, NewRow
  <2>2. PICK left \in Scanning : left = Leave(scan.blob, TRUE) /\ left.own = scan.own
    BY <1>1, <1>2, LeaveType DEF OnPath
  <2>3. [scan.own EXCEPT ![Path] = NewRow] \in IndexTable
    BY <1>1, <1>2, <1>4 DEF IndexTable, Scanning
  <2>4. scan' = [left EXCEPT !.own = [scan.own EXCEPT ![Path] = NewRow]]
    BY <2>1, <2>2 DEF Scanning
  <2>5. scan' \in Scanning /\ scan'.at = left.at /\ scan'.next = left.next
    BY <2>2, <2>3, <2>4 DEF Scanning
  <2> QED
    BY <1>1, <1>2, <2>1, <2>2, <2>5, LeavesType DEF OnPath
<1> QED
  BY <1>3, <1>4

LEMMA ReplayType ==
  ASSUME ScanTypeOK, Replay
  PROVE  /\ ScanTypeOK' /\ scan'.at = "finish"
         /\ \A k \in Keys : facts[k] # Nil => facts'[k] # Nil
         /\ EventBatch(Usage(scan'.emitted)) /\ facts' = Committed(Usage(scan'.emitted))
         /\ scan'.unread = scan.unread /\ scan'.own = scan.own /\ scan'.emitted \subseteq Lines
<1> DEFINE emitted == scan.emitted \cup UNION {ToSet(Table[p].blob) : p \in Deleted}
<1>1. /\ scan # Nil /\ scan.at = "replay" /\ scan \in Scanning
      /\ UNCHANGED <<disk, index, revisions, upsets>> /\ index' \in IndexTable /\ upsets' \in Nat
  BY ScanThere DEF ScanTypeOK, Replay, bounds
<1>2. emitted \in SUBSET Lines
  <2>1. \A p \in Deleted : Table[p].blob \in Seq(Lines)
    BY <1>1, ScanThere DEF Deleted, IndexRow
  <2>2. \A p \in Deleted : ToSet(Table[p].blob) \subseteq Lines
    BY <2>1, LinesOfSeq
  <2> QED
    BY <1>1, <2>2 DEF Scanning
<1>3. scan' = [scan EXCEPT !.at = "finish", !.emitted = emitted] /\ facts' = Committed(Usage(emitted))
  BY DEF Replay
<1>4. EventBatch(Usage(emitted))
  BY <1>2, UsageIsBatch
<1> HIDE DEF emitted
<1>5. scan' \in Scanning /\ scan'.at = "finish" /\ scan'.emitted = emitted /\ scan'.unread = scan.unread /\ scan'.own = scan.own
  BY <1>1, <1>2, <1>3 DEF Scanning
<1>6. LedgerType' /\ \A k \in Keys : facts[k] # Nil => facts'[k] # Nil
  BY <1>1, <1>3, <1>4, CommittedRises DEF ScanTypeOK, LedgerType
<1>7. ScanTypeOK'
  BY <1>1, <1>5, <1>6, StepType DEF OnPath
<1> QED
  BY <1>2, <1>3, <1>4, <1>5, <1>6, <1>7

LEMMA FinishType ==
  ASSUME ScanTypeOK, Finish
  PROVE  ScanTypeOK'
<1>1. scan' = Nil /\ UNCHANGED <<disk, index, bounds, facts, revisions>>
  BY DEF Finish
<1> QED
  BY <1>1, StepType, SameLedger DEF ScanTypeOK, bounds

LEMMA CrashType ==
  ASSUME ScanTypeOK, Crash
  PROVE  ScanTypeOK'
<1>1. scan' = Nil /\ upsets' \in Nat /\ UNCHANGED <<disk, index, facts, revisions>>
  BY DEF Crash, ScanTypeOK, ledgerVars
<1> QED
  BY <1>1, StepType, SameLedger DEF ScanTypeOK

LEMMA WipeType ==
  ASSUME ScanTypeOK, Wipe
  PROVE  ScanTypeOK'
<1>1. upsets' \in Nat /\ index' = [p \in PathSet |-> Nil] /\ UNCHANGED <<disk, facts, revisions>>
  BY DEF Wipe, ScanTypeOK, ledgerVars
<1>2. index' \in IndexTable /\ LedgerType'
  BY <1>1, SameLedger DEF IndexTable, ScanTypeOK
<1>3. CASE scan # Nil /\ scan.own = Nil
  <2>1. scan \in Scanning /\ index \in IndexTable /\ scan' = [scan EXCEPT !.own = index]
    BY <1>3 DEF Wipe, ScanTypeOK
  <2>2. scan' \in Scanning /\ scan'.at = scan.at /\ scan'.next = scan.next /\ scan'.cur = scan.cur
    BY <2>1 DEF Scanning
  <2>3. /\ scan.at \in OnPath => scan.next \in 1..Len(Paths)
        /\ scan.at \in OnPath \ {"stat"} => scan.cur \in Stat
    BY <1>3 DEF ScanTypeOK
  <2> QED
    BY <1>1, <1>2, <2>2, <2>3, StepType
<1>4. CASE ~(scan # Nil /\ scan.own = Nil)
  <2>1. scan' = scan
    BY <1>4 DEF Wipe
  <2> QED
    BY <1>1, <1>2, <2>1, StepType DEF ScanTypeOK
<1> QED
  BY <1>3, <1>4

LEMMA ScanTypeStep ==
  ASSUME ScanTypeOK, [ScanNext]_scanVars
  PROVE  ScanTypeOK'
<1>1. CASE UNCHANGED scanVars
  BY <1>1, SameLedger, StepType DEF ScanTypeOK, scanVars, bounds, ledgerVars
<1> QED
  BY <1>1, WriteLineType, FinishLineType, MoveType, BeginType, VisitType, ParseType, CommitFactsType,
     CheckpointType, ReplayType, FinishType, CrashType, WipeType DEF ScanNext, AgentsWork, ScanSteps

\* The files, the rows of the index and the running scan are what they seem.
THEOREM ScanTypeCorrect == ScanSpec => []ScanTypeOK
<1>1. ScanTypeOK /\ [ScanNext]_scanVars => ScanTypeOK'
  BY ScanTypeStep
<1> QED
  BY <1>1, ScanTypeInit, PTL DEF ScanSpec

-----------------------------------------------------------------------------
(* What is cached or was reported is in the ledger. *)

Stored(S) == \A e \in Keyed(Usage(S)) : facts[e.key] # Nil
Durable ==
  /\ CachedIsDurable
  /\ scan # Nil /\ scan.at = "checkpoint" => Stored(ToSet(scan.blob))
  /\ scan # Nil /\ scan.at = "finish" => Stored(scan.emitted)
  /\ report.counted \subseteq {k \in Keys : facts[k] # Nil}
  /\ ReportedIsKept

LEMMA KeyedKeys ==
  ASSUME NEW S \in SUBSET Lines, NEW e \in Keyed(Usage(S))
  PROVE  e.key \in Keys
  BY ScanAssumption DEF Keyed, Usage, Event

\* Facts only come.
LEMMA StoredStays ==
  ASSUME NEW S \in SUBSET Lines, Stored(S), \A k \in Keys : facts[k] # Nil => facts'[k] # Nil
  PROVE  Stored(S)'
  BY KeyedKeys DEF Stored

LEMMA RowsStored ==
  ASSUME ScanTypeOK, NEW p \in PathSet, index[p] # Nil
  PROVE  ToSet(index[p].blob) \in SUBSET Lines
<1>1. index[p].blob \in Seq(Lines)
  BY DEF ScanTypeOK, IndexTable, IndexRow
<1> QED
  BY <1>1, LinesOfSeq

LEMMA DurableInit == ScanInit => Durable
  BY DEF ScanInit, LedgerInit, Durable, CachedIsDurable, ReportedIsKept, NoReport

\* Steps that leave the index and the report alone.
LEMMA DurableStep ==
  ASSUME ScanTypeOK, Durable, \A k \in Keys : facts[k] # Nil => facts'[k] # Nil,
         UNCHANGED <<index, report, omitted, imported>>,
         scan' # Nil /\ scan'.at = "checkpoint" => Stored(ToSet(scan.blob))' /\ scan'.blob = scan.blob,
         scan' # Nil /\ scan'.at = "finish" => \A e \in Keyed(Usage(scan'.emitted)) : facts'[e.key] # Nil
  PROVE  Durable'
<1>1. CachedIsDurable'
  <2> SUFFICES ASSUME imported, NEW p \in PathSet, index[p] # Nil PROVE Stored(ToSet(index[p].blob))'
    BY DEF CachedIsDurable, Stored
  <2>1. Stored(ToSet(index[p].blob))
    BY DEF Durable, CachedIsDurable, Stored
  <2>2. \A e \in Keyed(Usage(ToSet(index[p].blob))) : facts'[e.key] # Nil
    BY <2>1, RowsStored, StoredStays DEF Stored
  <2> QED
    BY <2>2 DEF Stored
<1>2. /\ (scan # Nil /\ scan.at = "checkpoint" => Stored(ToSet(scan.blob)))'
      /\ (scan # Nil /\ scan.at = "finish" => Stored(scan.emitted))'
  BY DEF Stored
<1>3. (report.counted \subseteq {k \in Keys : facts[k] # Nil})' /\ ReportedIsKept'
  BY DEF Durable, ReportedIsKept
<1> QED
  BY <1>1, <1>2, <1>3 DEF Durable

LEMMA BeginDurable ==
  ASSUME ScanTypeOK, Durable, NEW imports \in BOOLEAN, Begin(imports)
  PROVE  Durable'
<1>1. scan'.at = "stat" /\ UNCHANGED <<index, report, omitted>>
  BY DEF Begin
<1>2. CASE imported \/ ~imports
  <2>1. UNCHANGED <<facts, imported>>
    BY <1>2 DEF Begin, Import
  <2> QED
    BY <1>1, <2>1, DurableStep
<1>3. CASE ~imported /\ imports
  <2>1. facts' = Committed(ExportUsage)
    BY <1>3 DEF Begin, Import
  <2>2. \A k \in Keys : facts[k] # Nil => facts'[k] # Nil
    BY <2>1, ExportType, CommittedRises DEF ScanTypeOK
  <2>3. \A e \in Keyed(ExportUsage) : facts'[e.key] # Nil
    BY <2>1, ExportType, CommittedRises DEF ScanTypeOK
  <2>4. ASSUME NEW p \in PathSet, index[p] # Nil, NEW e \in Keyed(Usage(ToSet(index[p].blob)))
        PROVE  facts'[e.key] # Nil
    <3>1. e \in Keyed(ExportUsage)
      BY <2>4 DEF Keyed, ExportUsage
    <3> QED
      BY <2>3, <3>1
  <2>5. CachedIsDurable'
    BY <1>1, <2>4 DEF CachedIsDurable
  <2>6. (report.counted \subseteq {k \in Keys : facts[k] # Nil})' /\ ReportedIsKept'
    BY <1>1, <2>2 DEF Durable, ReportedIsKept
  <2> QED
    BY <1>1, <2>5, <2>6 DEF Durable
<1> QED
  BY <1>2, <1>3

LEMMA LeaveAt ==
  ASSUME ScanTypeOK, scan # Nil, NEW lines, NEW ok
  PROVE  Leave(lines, ok).at \in {"stat", "replay"}
<1>1. scan \in Scanning
  BY DEF ScanTypeOK
<1>2. Leave(lines, ok).at = IF scan.next = Len(Paths) THEN "replay" ELSE "stat"
  BY <1>1 DEF Leave, Scanning
<1> QED
  BY <1>2

LEMMA VisitDurable ==
  ASSUME ScanTypeOK, Durable, Visit
  PROVE  Durable'
<1>1. scan # Nil /\ scan \in Scanning /\ UNCHANGED <<index, report, omitted, imported, facts>>
  BY VisitCases DEF ScanTypeOK
<1>2. scan'.at \in {"stat", "replay", "parse"}
  <2>1. CASE scan' = Leave(<<>>, TRUE)
    BY <1>1, <2>1, LeaveAt
  <2>2. CASE Unchanged0
    <3> DEFINE left == Leave(Table[Path].blob, TRUE)
    <3>1. left.at \in {"stat", "replay"} /\ left = [left EXCEPT !.at = left.at]
      BY <1>1, LeaveAt DEF Leave
    <3>2. scan'.at = left.at
      BY <1>1, <2>2 DEF Unchanged0, Leave, Scanning
    <3> QED
      BY <3>1, <3>2
  <2>3. CASE Changed0
    BY <1>1, <2>3 DEF Changed0, Scanning
  <2> QED
    BY <2>1, <2>2, <2>3, VisitCases
<1> QED
  BY <1>1, <1>2, DurableStep

LEMMA ParseDurable ==
  ASSUME ScanTypeOK, Durable, Parse
  PROVE  Durable'
<1>1. scan # Nil /\ scan \in Scanning /\ UNCHANGED <<index, report, omitted, imported, facts>>
  BY DEF ScanTypeOK, Parse, ledgerVars
<1>2. scan'.at \in {"stat", "replay", "facts"}
  <2>1. PICK at \in {"stat", "replay"} : scan' \in {Leave(<<>>, FALSE), Leave(scan.blob, FALSE)} => scan'.at = at
    BY <1>1, LeaveAt
  <2>2. scan' \in {Leave(<<>>, FALSE), Leave(scan.blob, FALSE)} \/ scan'.at = "facts"
    BY <1>1 DEF Parse, Scanning
  <2> QED
    BY <2>1, <2>2
<1> QED
  BY <1>1, <1>2, DurableStep

LEMMA CommitFactsDurable ==
  ASSUME ScanTypeOK, Durable, CommitFacts
  PROVE  Durable'
<1>1. /\ scan # Nil /\ scan \in Scanning /\ UNCHANGED <<index, report, omitted, imported>>
      /\ \A k \in Keys : facts[k] # Nil => facts'[k] # Nil
  BY CommitFactsType DEF ScanTypeOK, CommitFacts
<1>2. CASE facts' = Committed(Usage(ToSet(scan.blob))) /\ scan' = [scan EXCEPT !.at = "checkpoint"]
  <2>1. ToSet(scan.blob) \in SUBSET Lines
    BY <1>1, LinesOfSeq DEF Scanning
  <2>2. \A e \in Keyed(Usage(ToSet(scan.blob))) : facts'[e.key] # Nil
    BY <1>2, <2>1, UsageIsBatch, CommittedRises DEF ScanTypeOK
  <2>3. scan'.at = "checkpoint" /\ scan'.blob = scan.blob
    BY <1>1, <1>2 DEF Scanning
  <2>4. Stored(ToSet(scan.blob))'
    BY <2>2, <2>3 DEF Stored
  <2> QED
    BY <1>1, <2>3, <2>4, DurableStep
<1>3. CASE scan' = Leave(scan.blob, FALSE)
  <2>1. scan'.at \in {"stat", "replay"}
    BY <1>1, <1>3, LeaveAt
  <2> QED
    BY <1>1, <2>1, DurableStep
<1> QED
  BY <1>2, <1>3 DEF CommitFacts

LEMMA CheckpointDurable ==
  ASSUME ScanTypeOK, Durable, Checkpoint
  PROVE  Durable'
<1>1. /\ scan # Nil /\ scan.at = "checkpoint" /\ scan \in Scanning /\ Stored(ToSet(scan.blob))
      /\ UNCHANGED <<report, omitted, imported, facts>> /\ index \in [PathSet -> IndexRow \cup {Nil}]
  BY DEF ScanTypeOK, Checkpoint, ledgerVars, Durable, IndexTable
<1>2. scan'.at \in {"stat", "replay"}
  <2>1. scan.blob \in Seq(Lines) /\ scan.at \in OnPath
    BY <1>1 DEF Scanning, OnPath
  <2>2. PICK left \in Scanning : left = Leave(scan.blob, TRUE) /\ left.at \in {"stat", "replay"}
    BY <1>1, <2>1, LeaveType
  <2>3. scan' = left \/ scan' = [left EXCEPT !.own[Path] = NewRow]
    BY <2>2 DEF Checkpoint, NewRow
  <2> HIDE DEF NewRow
  <2> QED
    BY <2>2, <2>3 DEF Scanning
<1>3. index' = index \/ index' = [index EXCEPT ![Path] = NewRow]
  BY DEF Checkpoint, NewRow
<1>4. NewRow.blob = scan.blob
  BY DEF NewRow, Row
<1>5. CachedIsDurable'
  <2> SUFFICES ASSUME imported', NEW p \in PathSet, index'[p] # Nil PROVE Stored(ToSet(index'[p].blob))
    BY <1>1 DEF CachedIsDurable, Stored
  <2>1. index'[p] = index[p] \/ index'[p] = NewRow
    BY <1>1, <1>3
  <2> HIDE DEF NewRow
  <2> QED
    BY <1>1, <1>4, <2>1 DEF Durable, CachedIsDurable, Stored
<1>6. (report.counted \subseteq {k \in Keys : facts[k] # Nil})' /\ ReportedIsKept'
  BY <1>1 DEF Durable, ReportedIsKept
<1> QED
  BY <1>2, <1>5, <1>6 DEF Durable

LEMMA ReplayDurable ==
  ASSUME ScanTypeOK, Durable, Replay
  PROVE  Durable'
<1>1. /\ scan'.at = "finish" /\ facts' = Committed(Usage(scan'.emitted)) /\ EventBatch(Usage(scan'.emitted))
      /\ \A k \in Keys : facts[k] # Nil => facts'[k] # Nil
      /\ UNCHANGED <<index, report, omitted, imported>>
  BY ReplayType DEF Replay
<1>2. \A e \in Keyed(Usage(scan'.emitted)) : facts'[e.key] # Nil
  BY <1>1, CommittedRises DEF ScanTypeOK
<1> QED
  BY <1>1, <1>2, DurableStep

LEMMA FinishDurable ==
  ASSUME ScanTypeOK, Durable, Finish
  PROVE  Durable'
<1> DEFINE seen == {KeyOf[l] : l \in scan.emitted} \ {Nil}
           stored == Unseen(seen) \ omitted'
           counted == {e.key : e \in Keyed(Usage(scan.emitted))}
<1>1. /\ scan # Nil /\ scan.at = "finish" /\ scan' = Nil /\ scan.emitted \in SUBSET Lines
      /\ omitted' = NotedComplete(Usage(Complete)) /\ UNCHANGED <<index, facts, imported>>
      /\ report'.keys = seen \cup stored
      /\ report'.counted = report.counted \cup stored \cup counted
  BY DEF Finish, ScanTypeOK, Scanning
<1>2. counted \subseteq seen /\ \A k \in counted : k \in Keys /\ facts[k] # Nil
  <2>1. Stored(scan.emitted)
    BY <1>1 DEF Durable
  <2>2. counted \subseteq seen
    BY DEF Keyed, Usage, Event
  <2> QED
    BY <1>1, <2>1, <2>2, KeyedKeys DEF Stored
<1>3. \A k \in stored : k \in Keys /\ facts[k] # Nil
  BY DEF Unseen
<1>4. (report.counted \subseteq {k \in Keys : facts[k] # Nil})'
  BY <1>1, <1>2, <1>3 DEF Durable
<1>5. ASSUME NEW k \in report'.counted, k \notin omitted' PROVE k \in seen \cup stored
  <2>1. k \in Keys /\ facts[k] # Nil
    BY <1>1, <1>4
  <2>2. CASE k \in omitted
    <3>1. k \in {e.key : e \in {f \in Usage(Complete) : f.key # Nil}}
      BY <1>1, <1>5, <2>2 DEF NotedComplete
    <3>2. Complete \subseteq scan.emitted
      BY DEF Complete
    <3> QED
      BY <3>1, <3>2 DEF Usage, Event
  <2>3. CASE k \notin omitted
    BY <1>5, <2>1, <2>3 DEF Unseen
  <2> QED
    BY <2>2, <2>3
<1>6. ReportedIsKept'
  BY <1>1, <1>5 DEF ReportedIsKept
<1>7. CachedIsDurable'
  BY <1>1 DEF Durable, CachedIsDurable
<1> QED
  BY <1>1, <1>4, <1>6, <1>7 DEF Durable

LEMMA WipeDurable ==
  ASSUME ScanTypeOK, Durable, Wipe
  PROVE  Durable'
<1>1. index' = [p \in PathSet |-> Nil] /\ UNCHANGED <<report, omitted, imported, facts>>
  BY DEF Wipe, ledgerVars
<1>2. CachedIsDurable'
  BY <1>1 DEF CachedIsDurable
<1>3. scan' # Nil => scan # Nil /\ scan'.at = scan.at /\ scan'.blob = scan.blob /\ scan'.emitted = scan.emitted
  BY DEF Wipe, ScanTypeOK, Scanning
<1>4. /\ (scan # Nil /\ scan.at = "checkpoint" => Stored(ToSet(scan.blob)))'
      /\ (scan # Nil /\ scan.at = "finish" => Stored(scan.emitted))'
  BY <1>1, <1>3 DEF Durable, Stored
<1>5. (report.counted \subseteq {k \in Keys : facts[k] # Nil})' /\ ReportedIsKept'
  BY <1>1 DEF Durable, ReportedIsKept
<1> QED
  BY <1>2, <1>4, <1>5 DEF Durable

LEMMA DurableNext ==
  ASSUME ScanTypeOK, Durable, [ScanNext]_scanVars
  PROVE  Durable'
<1>1. ASSUME UNCHANGED <<index, scan, report, ledgerVars>> PROVE Durable'
  BY <1>1 DEF Durable, CachedIsDurable, ReportedIsKept, Stored, ledgerVars
<1>2. CASE AgentsWork
  BY <1>1, <1>2 DEF AgentsWork, WriteLine, FinishLine, Move
<1>3. CASE Crash
  BY <1>3, DurableStep DEF Crash, ledgerVars
<1>4. CASE UNCHANGED scanVars
  BY <1>1, <1>4 DEF scanVars
<1> QED
  BY <1>2, <1>3, <1>4, BeginDurable, VisitDurable, ParseDurable, CommitFactsDurable, CheckpointDurable,
     ReplayDurable, FinishDurable, WipeDurable DEF ScanNext, ScanSteps

LEMMA AlwaysDurable == ScanSpec => []Durable
<1>1. ScanTypeOK /\ Durable /\ [ScanNext]_scanVars => Durable'
  BY DurableNext
<1> QED
  BY <1>1, DurableInit, ScanTypeCorrect, PTL DEF ScanSpec

\* The tokens of every line that the index can replay are in the ledger, once
\* the ledger has imported what is older: put commits the facts before it
\* writes the row, and no later step takes a fact away.
THEOREM CacheIsBacked == ScanSpec => []CachedIsDurable
<1>1. Durable => CachedIsDurable
  BY DEF Durable
<1> QED
  BY <1>1, AlwaysDurable, PTL

\* A request whose tokens a report has counted is in every later report, unless
\* a complete reread of its session has omitted it: what a report counts has a
\* fact by then, and Unseen adds every fact that the scan did not meet.
THEOREM ReportsKeep == ScanSpec => []ReportedIsKept
<1>1. Durable => ReportedIsKept
  BY DEF Durable
<1> QED
  BY <1>1, AlwaysDurable, PTL

-----------------------------------------------------------------------------
(* What is on disk is read.  A file is known by its inode: it only grows, and *)
(* one that is rewritten gets a new one.  A row of the index, and what a scan *)
(* has read so far, cover the file they were made from as far as their size   *)
(* and offset say, for as long as that file is at their path; and a file that *)
(* comes to an archive was never there before.                                *)

StatHolds(s, p) ==
  /\ s.ino[2] <= upsets
  /\ IsArchive(p) => \A q \in PathSet \ {p} : disk[q] # Nil => disk[q].ino # s.ino
  /\ disk[p] # Nil /\ disk[p].ino = s.ino => s.size <= Size(disk[p])

\* The lines that end, or begin, within the first n half lines.
HasEnded(n, blob, p) == \A i \in DOMAIN disk[p].lines : 2 * i <= n => disk[p].lines[i] \in ToSet(blob)
HasBegun(n, blob, p) ==
  /\ n <= 2 * Len(disk[p].lines)
  /\ \A i \in DOMAIN disk[p].lines : 2 * (i - 1) < n => disk[p].lines[i] \in ToSet(blob)

RowHolds(r, p) ==
  /\ StatHolds(r.cur, p)
  /\ disk[p] # Nil /\ disk[p].ino = r.cur.ino =>
       /\ HasEnded(r.cur.size, r.blob, p)
       /\ p \in Incremental => HasBegun(r.offset, r.blob, p)

TableHolds(t) == \A p \in PathSet : t[p] # Nil => RowHolds(t[p], p)

Inodes ==
  /\ \A p \in PathSet : disk[p] # Nil => disk[p].ino[2] <= upsets
  /\ \A p, q \in PathSet : p # q /\ disk[p] # Nil /\ disk[q] # Nil => disk[p].ino # disk[q].ino

ScanHolds ==
  /\ scan.unread = {}
  /\ scan.own # Nil => TableHolds(scan.own)
  /\ scan.at = "parse" =>
       /\ StatHolds(scan.cur, Path)
       /\ disk[Path] # Nil /\ disk[Path].ino = scan.cur.ino => HasBegun(scan.offset, scan.blob, Path)
  /\ scan.at \in {"facts", "checkpoint"} => RowHolds(NewRow, Path)

Covered ==
  /\ Inodes /\ TableHolds(index)
  /\ scan # Nil => ScanHolds
  /\ report.unread = {}

LEMMA CoveredInit == ScanInit => Covered
<1> SUFFICES ASSUME ScanInit PROVE Covered
  OBVIOUS
<1>1. scan = Nil /\ upsets = 0 /\ report.unread = {}
  BY DEF ScanInit, NoReport
<1>2. PICK old \in SUBSET PathSet :
        /\ index = [p \in PathSet |-> IF p \in old THEN OldRow(p) ELSE Nil]
        /\ disk = [p \in PathSet |-> IF p \in old \/ IsArchive(p) THEN Nil
                     ELSE [ino |-> <<p, 0>>, mtime |-> 0, lines |-> <<>>, half |-> FALSE, wrote |-> 0]]
  BY DEF ScanInit
<1>3. \A p \in PathSet : disk[p] # Nil => p \notin old /\ disk[p].ino = <<p, 0>>
  BY <1>2
<1>4. Inodes
  BY <1>1, <1>3 DEF Inodes
<1>5. ASSUME NEW p \in PathSet, index[p] # Nil PROVE RowHolds(index[p], p)
  <2>1. p \in old /\ index[p].cur.ino = <<p, 0>>
    BY <1>2, <1>5 DEF OldRow, Row
  <2>2. disk[p] = Nil /\ \A q \in PathSet \ {p} : disk[q] # Nil => disk[q].ino # <<p, 0>>
    BY <1>3, <2>1
  <2> QED
    BY <1>1, <2>1, <2>2 DEF RowHolds, StatHolds
<1> QED
  BY <1>1, <1>4, <1>5 DEF Covered, TableHolds

-----------------------------------------------------------------------------
(* How files change. *)

Grows(p) ==
  /\ disk[p] # Nil /\ disk'[p].ino = disk[p].ino /\ Size(disk[p]) <= Size(disk'[p])
  /\ DOMAIN disk'[p].lines \in SUBSET Nat /\ Len(disk[p].lines) <= Len(disk'[p].lines)
  /\ \A i \in DOMAIN disk[p].lines : disk'[p].lines[i] = disk[p].lines[i]
Fresh(p) == disk'[p].ino[2] = upsets + 1
Moved(p) == \E q \in PathSet \ {p} : disk[q] # Nil /\ disk'[p].ino = disk[q].ino

FilesMove ==
  /\ upsets <= upsets' /\ Inodes'
  /\ \A p \in PathSet : disk'[p] # Nil => Grows(p) \/ Fresh(p) \/ (IsArchive(p) /\ Moved(p))
  /\ \A p, q \in PathSet : p # q /\ IsArchive(p) /\ disk'[q] # Nil =>
       Fresh(q) \/ \E x \in PathSet \ {p} : disk[x] # Nil /\ disk'[q].ino = disk[x].ino

LEMMA FileShape ==
  ASSUME NEW file \in File
  PROVE  /\ file.lines \in Seq(Lines) /\ Len(file.lines) \in Nat /\ DOMAIN file.lines = 1..Len(file.lines)
         /\ Size(file) \in Nat /\ Size(file) >= 2 * Len(file.lines) /\ Size(file) <= 2 * Len(file.lines) + 1
         /\ Size(file) = IF file.half THEN 2 * Len(file.lines) + 1 ELSE 2 * Len(file.lines)
         /\ file.ino[2] \in Nat
  BY DEF File, Size, Inode

\* One file grows or is replaced by a new one.
LEMMA OneFile ==
  ASSUME ScanTypeOK, Inodes, NEW p \in PathSet, disk[p] # Nil, NEW file \in File, disk' = [disk EXCEPT ![p] = file],
         upsets' \in Nat, upsets <= upsets',
         Grows(p) \/ (file.ino[2] = upsets + 1 /\ upsets' = upsets + 1)
  PROVE  FilesMove
<1>1. \A q \in PathSet : q # p => disk'[q] = disk[q]
  BY DEF ScanTypeOK
<1>2. disk'[p] = file
  BY DEF ScanTypeOK
<1>3. ASSUME NEW q \in PathSet, q # p, disk[q] # Nil PROVE Grows(q)
  <2>1. disk[q] \in File
    BY <1>3, FileThere
  <2> QED
    BY <1>1, <1>3, <2>1, FileShape DEF Grows
<1>4. upsets \in Nat /\ \A q \in PathSet : disk[q] # Nil => disk[q].ino[2] \in Nat /\ disk[q].ino[2] <= upsets
  BY FileThere, FileShape DEF Inodes, ScanTypeOK
<1>5. file.ino = disk[p].ino \/ (file.ino[2] = upsets + 1 /\ upsets' = upsets + 1)
  BY <1>2 DEF Grows
<1>6. Inodes'
  BY <1>1, <1>2, <1>4, <1>5 DEF Inodes
<1>7. \A q \in PathSet : disk'[q] # Nil => Grows(q) \/ Fresh(q)
  BY <1>1, <1>2, <1>3 DEF Fresh
<1>8. \A x, q \in PathSet : x # q /\ IsArchive(x) /\ disk'[q] # Nil =>
        Fresh(q) \/ \E y \in PathSet \ {x} : disk[y] # Nil /\ disk'[q].ino = disk[y].ino
  BY <1>1, <1>2, <1>5 DEF Fresh
<1> QED
  BY <1>6, <1>7, <1>8 DEF FilesMove

LEMMA AllGrow ==
  ASSUME ScanTypeOK, NEW p \in PathSet, disk[p] # Nil, disk'[p] = disk[p]
  PROVE  Grows(p)
<1>1. disk[p] \in File
  BY FileThere
<1> QED
  BY <1>1, FileShape DEF Grows

LEMMA NoFile ==
  ASSUME ScanTypeOK, Inodes, UNCHANGED disk, upsets' \in {upsets, upsets + 1}
  PROVE  FilesMove
<1>1. upsets \in Nat /\ upsets <= upsets' /\ upsets' \in Nat
  BY DEF ScanTypeOK
<1>2. \A q \in PathSet : disk[q] # Nil => disk[q].ino[2] \in Nat
  BY FileThere, FileShape
<1>3. Inodes'
  BY <1>1, <1>2 DEF Inodes
<1>4. \A p \in PathSet : disk'[p] # Nil => Grows(p)
  BY AllGrow
<1>5. \A p, q \in PathSet : p # q /\ IsArchive(p) /\ disk'[q] # Nil =>
        \E x \in PathSet \ {p} : disk[x] # Nil /\ disk'[q].ino = disk[x].ino
  OBVIOUS
<1> QED
  BY <1>1, <1>3, <1>4, <1>5 DEF FilesMove

LEMMA WriteMoves ==
  ASSUME ScanTypeOK, Inodes, NEW p \in PathSet,
         (\E whole \in BOOLEAN : WriteLine(p, whole)) \/ FinishLine(p)
  PROVE  FilesMove
<1>1. disk[p] # Nil /\ disk[p] \in File /\ UNCHANGED upsets
  BY FileThere DEF WriteLine, FinishLine, bounds
<1>2. PICK file \in File, l \in Lines :
        /\ disk' = [disk EXCEPT ![p] = file] /\ file.ino = disk[p].ino
        /\ \/ file.lines = disk[p].lines /\ file.half /\ ~disk[p].half
           \/ file.lines = Append(disk[p].lines, l)
  <2>1. ASSUME NEW whole \in BOOLEAN, WriteLine(p, whole)
        PROVE  \E file \in File, l \in Lines :
                 /\ disk' = [disk EXCEPT ![p] = file] /\ file.ino = disk[p].ino
                 /\ \/ file.lines = disk[p].lines /\ file.half /\ ~disk[p].half
                    \/ file.lines = Append(disk[p].lines, l)
    <3>1. ~disk[p].half /\ disk[p].wrote < Len(Script[SessionAt[p]]) /\ disk[p].wrote \in Nat
      BY <1>1, <2>1 DEF WriteLine, File
    <3>2. Script[SessionAt[p]][disk[p].wrote + 1] \in Lines
      BY <3>1, ScriptLines
    <3> QED
      BY <2>1, <3>1, <3>2, WriteLineType
  <2>2. ASSUME FinishLine(p)
        PROVE  \E file \in File, l \in Lines :
                 /\ disk' = [disk EXCEPT ![p] = file] /\ file.ino = disk[p].ino
                 /\ \/ file.lines = disk[p].lines /\ file.half /\ ~disk[p].half
                    \/ file.lines = Append(disk[p].lines, l)
    <3>1. disk[p].wrote < Len(Script[SessionAt[p]]) /\ disk[p].wrote \in Nat
      BY <1>1, <2>2 DEF FinishLine, File, ScanTypeOK, CanFinish
    <3>2. Script[SessionAt[p]][disk[p].wrote + 1] \in Lines
      BY <3>1, ScriptLines
    <3> QED
      BY <2>2, <3>2, FinishLineType
  <2> QED
    BY <2>1, <2>2
<1>3. disk'[p] = file
  BY <1>2 DEF ScanTypeOK
<1>4. Grows(p)
  <2>1. CASE file.lines = disk[p].lines /\ file.half /\ ~disk[p].half
    BY <1>1, <1>2, <1>3, <2>1, FileShape DEF Grows
  <2>2. CASE file.lines = Append(disk[p].lines, l)
    <3>1. Len(file.lines) = Len(disk[p].lines) + 1 /\ \A i \in DOMAIN disk[p].lines : file.lines[i] = disk[p].lines[i]
      BY <1>1, <2>2, FileShape
    <3> QED
      BY <1>1, <1>2, <1>3, <3>1, FileShape DEF Grows
  <2> QED
    BY <1>2, <2>1, <2>2
<1>5. upsets' \in Nat /\ upsets <= upsets'
  BY <1>1 DEF ScanTypeOK
<1>6. disk' = [disk EXCEPT ![p] = file] /\ disk[p] # Nil
  BY <1>1, <1>2
<1> HIDE DEF Grows, FilesMove
<1> QED
  BY <1>4, <1>5, <1>6, OneFile

\* An archive is not archived again.
LEMMA ArchiveEnds ==
  ASSUME NEW p \in PathSet, ArchiveOf[p] # Nil
  PROVE  ArchiveOf[p] \in PathSet /\ ArchiveOf[p] # p /\ IsArchive(ArchiveOf[p]) /\ ~IsArchive(p)
  BY ScanAssumption DEF PathSet, IsArchive

LEMMA MoveMoves ==
  ASSUME ScanTypeOK, Inodes, NEW p \in PathSet, Move(p)
  PROVE  FilesMove
<1>1. disk[p] # Nil /\ upsets' = upsets + 1 /\ disk[p] \in File /\ upsets \in Nat
  BY MoveType, FileThere DEF ScanTypeOK
<1>2. upsets <= upsets' /\ upsets' \in Nat
  BY <1>1
<1>3. \A q \in PathSet : disk[q] # Nil => disk[q].ino[2] \in Nat /\ disk[q].ino[2] <= upsets
  BY FileThere, FileShape DEF Inodes
<1>4. CASE Gone(p)
  <2>1. disk'[p] = Nil /\ \A q \in PathSet : q # p => disk'[q] = disk[q]
    BY <1>4 DEF Gone, ScanTypeOK
  <2>2. Inodes'
    BY <1>1, <1>3, <2>1 DEF Inodes
  <2>3. \A q \in PathSet : disk'[q] # Nil => Grows(q)
    BY <2>1, AllGrow
  <2>4. \A x, q \in PathSet : x # q /\ IsArchive(x) /\ disk'[q] # Nil =>
          \E y \in PathSet \ {x} : disk[y] # Nil /\ disk'[q].ino = disk[y].ino
    BY <2>1
  <2> QED
    BY <1>2, <2>2, <2>3, <2>4 DEF FilesMove
<1>5. CASE Replaced(p)
  <2>1. PICK file \in File : disk' = [disk EXCEPT ![p] = file] /\ file.ino = <<p, upsets + 1>>
    BY <1>5 DEF Replaced
  <2>2. file.ino[2] = upsets + 1
    BY <2>1
  <2> QED
    BY <1>1, <1>2, <2>1, <2>2, OneFile
<1>6. CASE Touched(p)
  <2>1. PICK file \in File : disk' = [disk EXCEPT ![p] = file] /\ file.ino = disk[p].ino
                             /\ file.lines = disk[p].lines /\ file.half = disk[p].half
    BY <1>6 DEF Touched
  <2>2. disk'[p] = file
    BY <2>1 DEF ScanTypeOK
  <2>3. Grows(p)
    BY <1>1, <2>1, <2>2, FileShape DEF Grows
  <2> QED
    BY <1>1, <1>2, <2>1, <2>3, OneFile
<1>7. CASE Archived(p)
  <2> DEFINE a == ArchiveOf[p]
  <2>1. a \in PathSet /\ a # p /\ IsArchive(a) /\ ~IsArchive(p)
    BY <1>7, ArchiveEnds DEF Archived
  <2>2. disk'[p] = Nil /\ disk'[a] = disk[p] /\ \A q \in PathSet : q # p /\ q # a => disk'[q] = disk[q]
    BY <1>7, <2>1 DEF Archived, ScanTypeOK
  <2> HIDE DEF a
  <2>3. Inodes'
    BY <1>1, <1>3, <2>1, <2>2 DEF Inodes
  <2>4. \A q \in PathSet : disk'[q] # Nil => Grows(q) \/ (IsArchive(q) /\ Moved(q))
    BY <1>1, <2>1, <2>2, AllGrow DEF Moved
  <2>5. \A x, q \in PathSet : x # q /\ IsArchive(x) /\ disk'[q] # Nil =>
          \E y \in PathSet \ {x} : disk[y] # Nil /\ disk'[q].ino = disk[y].ino
    BY <1>1, <2>1, <2>2
  <2> QED
    BY <1>2, <2>3, <2>4, <2>5 DEF FilesMove
<1> QED
  BY <1>4, <1>5, <1>6, <1>7, MoveType

-----------------------------------------------------------------------------
(* Whatever files do, a row holds on. *)

LEMMA StatHoldsOn ==
  ASSUME ScanTypeOK, ScanTypeOK', FilesMove, NEW p \in PathSet, NEW s \in Stat, StatHolds(s, p)
  PROVE  /\ StatHolds(s, p)'
         /\ disk'[p] # Nil /\ disk'[p].ino = s.ino => Grows(p) /\ disk[p].ino = s.ino
<1>1. s.ino[2] \in Nat /\ s.ino[2] <= upsets /\ upsets <= upsets' /\ upsets \in Nat /\ upsets' \in Nat /\ s.size \in Nat
  BY DEF StatHolds, FilesMove, Stat, Inode, ScanTypeOK
<1>2. ASSUME NEW q \in PathSet, Fresh(q) PROVE disk'[q].ino # s.ino
  BY <1>1, <1>2 DEF Fresh
<1>3. IsArchive(p) => \A q \in PathSet \ {p} : disk'[q] # Nil => disk'[q].ino # s.ino
  BY <1>2 DEF FilesMove, StatHolds
<1>4. ASSUME disk'[p] # Nil, disk'[p].ino = s.ino PROVE Grows(p) /\ disk[p].ino = s.ino
  <2>1. ~Fresh(p)
    BY <1>2, <1>4
  <2>2. ~(IsArchive(p) /\ Moved(p))
    BY <1>4 DEF Moved, StatHolds
  <2> QED
    BY <1>4, <2>1, <2>2 DEF FilesMove, Grows
<1>5. disk'[p] # Nil /\ disk'[p].ino = s.ino => s.size <= Size(disk'[p])
  <2> SUFFICES ASSUME disk'[p] # Nil, disk'[p].ino = s.ino PROVE s.size <= Size(disk'[p])
    OBVIOUS
  <2>1. Grows(p) /\ s.size <= Size(disk[p])
    BY <1>4 DEF StatHolds, Grows
  <2>2. disk[p] \in File /\ disk'[p] \in File
    BY <2>1 DEF Grows, ScanTypeOK
  <2>3. Size(disk[p]) \in Nat /\ Size(disk'[p]) \in Nat /\ Size(disk[p]) <= Size(disk'[p])
    BY <2>1, <2>2, FileShape DEF Grows
  <2> QED
    BY <1>1, <2>1, <2>3
<1>6. s.ino[2] <= upsets'
  BY <1>1
<1>7. StatHolds(s, p)'
  BY <1>3, <1>5, <1>6 DEF StatHolds, IsArchive, PathSet, Size
<1>8. disk'[p] # Nil /\ disk'[p].ino = s.ino => Grows(p) /\ disk[p].ino = s.ino
  BY <1>4
<1> QED
  BY <1>7, <1>8

LEMMA EndedOn ==
  ASSUME ScanTypeOK, ScanTypeOK', NEW p \in PathSet, disk'[p] # Nil, Grows(p), NEW n \in Nat, n <= Size(disk[p]), NEW blob,
         HasEnded(n, blob, p)
  PROVE  HasEnded(n, blob, p)'
<1>1. disk[p] \in File /\ disk'[p] \in File
  BY DEF Grows, ScanTypeOK
<1>2. PICK len \in Nat : len = Len(disk[p].lines) /\ DOMAIN disk[p].lines = 1..len /\ n <= 2 * len + 1
  <2>1. Size(disk[p]) \in Nat /\ Size(disk[p]) <= 2 * Len(disk[p].lines) + 1 /\ Len(disk[p].lines) \in Nat
    BY <1>1, FileShape
  <2> QED
    BY <1>1, <2>1, FileShape
<1>3. ASSUME NEW i \in DOMAIN disk'[p].lines, 2 * i <= n PROVE disk'[p].lines[i] \in ToSet(blob)
  <2>1. i \in Nat /\ i >= 1
    BY <1>1, <1>3, FileShape
  <2>2. i \in 1..len
    BY <1>2, <1>3, <2>1
  <2>3. disk'[p].lines[i] = disk[p].lines[i] /\ disk[p].lines[i] \in ToSet(blob)
    BY <1>2, <1>3, <2>2 DEF Grows, HasEnded
  <2> QED
    BY <2>3
<1> QED
  BY <1>3 DEF HasEnded, ToSet

LEMMA BegunOn ==
  ASSUME ScanTypeOK, ScanTypeOK', NEW p \in PathSet, disk'[p] # Nil, Grows(p), NEW n \in Nat, NEW blob, HasBegun(n, blob, p)
  PROVE  HasBegun(n, blob, p)'
<1>1. disk[p] \in File /\ disk'[p] \in File
  BY DEF Grows, ScanTypeOK
<1>2. PICK len \in Nat : len = Len(disk[p].lines) /\ DOMAIN disk[p].lines = 1..len /\ n <= 2 * len
  BY <1>1, FileShape DEF HasBegun
<1>3. PICK more \in Nat : more = Len(disk'[p].lines) /\ len <= more
  BY <1>1, <1>2, FileShape DEF Grows
<1>4. n <= 2 * Len(disk'[p].lines)
  BY <1>2, <1>3
<1>5. ASSUME NEW i \in DOMAIN disk'[p].lines, 2 * (i - 1) < n PROVE disk'[p].lines[i] \in ToSet(blob)
  <2>1. i \in Nat /\ i >= 1
    BY <1>1, <1>5, FileShape
  <2>2. i \in 1..len
    BY <1>2, <1>5, <2>1
  <2>3. disk'[p].lines[i] = disk[p].lines[i] /\ disk[p].lines[i] \in ToSet(blob)
    BY <1>2, <1>5, <2>2 DEF Grows, HasBegun
  <2> QED
    BY <2>3
<1> QED
  BY <1>4, <1>5 DEF HasBegun, ToSet

LEMMA RowHoldsOn ==
  ASSUME ScanTypeOK, ScanTypeOK', FilesMove, NEW p \in PathSet, NEW r \in IndexRow, RowHolds(r, p)
  PROVE  RowHolds(r, p)'
<1>1. r.cur \in Stat /\ r.cur.size \in Nat /\ r.offset \in Nat /\ StatHolds(r.cur, p)
  BY DEF IndexRow, Stat, RowHolds
<1>2. /\ StatHolds(r.cur, p)'
      /\ disk'[p] # Nil /\ disk'[p].ino = r.cur.ino => Grows(p) /\ disk[p].ino = r.cur.ino
  BY <1>1, StatHoldsOn
<1>3. ASSUME disk'[p] # Nil, disk'[p].ino = r.cur.ino
      PROVE  HasEnded(r.cur.size, r.blob, p)' /\ (p \in Incremental => HasBegun(r.offset, r.blob, p)')
  <2>1. Grows(p) /\ disk[p] # Nil /\ disk[p].ino = r.cur.ino
    BY <1>2, <1>3 DEF Grows
  <2>2. r.cur.size <= Size(disk[p]) /\ HasEnded(r.cur.size, r.blob, p)
    BY <1>1, <2>1 DEF RowHolds, StatHolds
  <2>3. p \in Incremental => HasBegun(r.offset, r.blob, p)
    BY <2>1 DEF RowHolds
  <2> QED
    BY <1>1, <1>3, <2>1, <2>2, <2>3, EndedOn, BegunOn
<1> QED
  BY <1>2, <1>3 DEF RowHolds

LEMMA TableHoldsOn ==
  ASSUME ScanTypeOK, ScanTypeOK', FilesMove, NEW t \in IndexTable, TableHolds(t)
  PROVE  TableHolds(t)'
<1>1. ASSUME NEW p \in PathSet, t[p] # Nil PROVE RowHolds(t[p], p)'
  <2>1. t[p] \in IndexRow /\ RowHolds(t[p], p)
    BY <1>1 DEF IndexTable, TableHolds
  <2> QED
    BY <2>1, RowHoldsOn
<1> QED
  BY <1>1 DEF TableHolds, PathSet

\* What the tables hold after a step.
LEMMA TablesHoldOn ==
  ASSUME ScanTypeOK, ScanTypeOK', FilesMove, Covered
  PROVE  /\ \A t \in IndexTable : t = index \/ (scan # Nil /\ scan.own # Nil /\ t = scan.own) => TableHolds(t)'
         /\ UNCHANGED index => TableHolds(index)'
         /\ scan # Nil /\ scan'.own = scan.own => (scan.own # Nil => TableHolds(scan.own))'
<1>1. ASSUME NEW t \in IndexTable, t = index \/ (scan # Nil /\ scan.own # Nil /\ t = scan.own) PROVE TableHolds(t)'
  <2>1. TableHolds(t)
    BY <1>1 DEF Covered, ScanHolds
  <2> QED
    BY <2>1, TableHoldsOn
<1>2. UNCHANGED index => TableHolds(index)'
  <2>1. PICK t \in IndexTable : t = index
    BY DEF ScanTypeOK
  <2>2. TableHolds(t)'
    BY <1>1, <2>1
  <2> QED
    BY <2>1, <2>2 DEF TableHolds
<1>3. ASSUME scan # Nil, scan'.own = scan.own, scan.own # Nil
      PROVE  TableHolds(scan.own)'
  <2>1. PICK t \in IndexTable : t = scan.own
    BY <1>3 DEF ScanTypeOK, Scanning
  <2>2. TableHolds(t)'
    BY <1>1, <1>3, <2>1
  <2> QED
    BY <1>3, <2>1, <2>2 DEF TableHolds
<1> QED
  BY <1>1, <1>2, <1>3

\* What the scan has open stays true of its path.
LEMMA OpenHoldsOn ==
  ASSUME ScanTypeOK, ScanTypeOK', FilesMove, Covered, scan # Nil, (scan.own # Nil => TableHolds(scan.own))',
         scan'.at = scan.at, scan'.unread = scan.unread, scan'.next = scan.next,
         scan'.cur = scan.cur, scan'.offset = scan.offset, scan'.blob = scan.blob
  PROVE  ScanHolds'
<1>1. scan.unread = {} /\ scan \in Scanning
  BY DEF Covered, ScanHolds, ScanTypeOK
<1>2. Path' = Path /\ NewRow' = NewRow
  BY DEF Path, NewRow
<1>3. ASSUME scan.at = "parse"
      PROVE  /\ StatHolds(scan.cur, Path)'
             /\ disk'[Path] # Nil /\ disk'[Path].ino = scan.cur.ino => HasBegun(scan.offset, scan.blob, Path)'
  <2>1. scan.cur \in Stat /\ Path \in PathSet /\ scan.offset \in Nat
    BY <1>1, <1>3, ScanThere DEF ScanTypeOK, OnPath, Scanning
  <2>2. PICK s \in Stat, p \in PathSet, n \in Nat, b \in {scan.blob} :
          s = scan.cur /\ p = Path /\ n = scan.offset /\ b = scan.blob
    BY <2>1
  <2>3. StatHolds(s, p) /\ (disk[p] # Nil /\ disk[p].ino = s.ino => HasBegun(n, b, p))
    BY <1>3, <2>2 DEF Covered, ScanHolds
  <2>4. StatHolds(s, p)' /\ (disk'[p] # Nil /\ disk'[p].ino = s.ino => Grows(p) /\ disk[p].ino = s.ino)
    BY <2>3, StatHoldsOn
  <2>5. disk'[p] # Nil /\ disk'[p].ino = s.ino => HasBegun(n, b, p)'
    BY <2>3, <2>4, BegunOn DEF Grows
  <2>6. scan'.cur = s /\ scan'.offset = n /\ scan'.blob = b /\ Path' = p
    BY <1>2, <2>2
  <2> QED
    BY <2>2, <2>4, <2>5, <2>6 DEF StatHolds, HasBegun
<1>4. ASSUME scan.at \in {"facts", "checkpoint"} PROVE RowHolds(NewRow, Path)'
  <2>1. NewRow \in IndexRow /\ Path \in PathSet
    BY <1>1, <1>4, ScanThere DEF ScanTypeOK, OnPath, Scanning, NewRow, Row, Cut, IndexRow, Stat
  <2>2. PICK r \in IndexRow, p \in PathSet : r = NewRow /\ p = Path
    BY <2>1
  <2>3. RowHolds(r, p)
    BY <1>4, <2>2 DEF Covered, ScanHolds
  <2>4. RowHolds(r, p)'
    BY <2>3, RowHoldsOn
  <2>5. NewRow' = r /\ Path' = p
    BY <1>2, <2>2
  <2> QED
    BY <2>4, <2>5 DEF RowHolds, StatHolds, HasEnded, HasBegun
<1> QED
  BY <1>1, <1>2, <1>3, <1>4 DEF ScanHolds

\* Steps that leave the scan alone.
LEMMA AgentsCovered ==
  ASSUME ScanTypeOK, ScanTypeOK', FilesMove, Covered, UNCHANGED <<index, scan, report>>
  PROVE  Covered'
<1>1. TableHolds(index)' /\ Inodes' /\ report'.unread = {}
  BY TablesHoldOn DEF Covered, FilesMove
<1>2. ASSUME scan # Nil PROVE ScanHolds'
  <2>1. (scan.own # Nil => TableHolds(scan.own))'
    BY <1>2, TablesHoldOn
  <2> QED
    BY <1>2, <2>1, OpenHoldsOn
<1> QED
  BY <1>1, <1>2 DEF Covered

\* Steps after which the scan has nothing open.
LEMMA BetweenFiles ==
  ASSUME ScanTypeOK, ScanTypeOK', FilesMove, Covered, TableHolds(index)', report'.unread = {},
         scan'.at \in {"stat", "replay", "finish"}, scan'.unread = {}, (scan.own # Nil => TableHolds(scan.own))'
  PROVE  Covered'
  BY DEF Covered, ScanHolds, FilesMove

\* Steps of the scan leave the files alone.
LEMMA StepMoves ==
  ASSUME ScanTypeOK, Covered, UNCHANGED disk, upsets' \in {upsets, upsets + 1}
  PROVE  FilesMove
  BY NoFile DEF Covered

LEMMA BeginCovered ==
  ASSUME ScanTypeOK, ScanTypeOK', Covered, NEW imports \in BOOLEAN, Begin(imports)
  PROVE  Covered'
<1>1. UNCHANGED <<disk, index, report>> /\ upsets' \in {upsets, upsets + 1}
  BY DEF Begin
<1>2. scan'.at = "stat" /\ scan'.unread = {} /\ scan'.own = Nil
  BY DEF Begin
<1>3. FilesMove /\ report'.unread = {}
  BY <1>1, StepMoves DEF Covered
<1>4. TableHolds(index)'
  BY <1>1, <1>3, TablesHoldOn
<1>5. (scan.own # Nil => TableHolds(scan.own))'
  BY <1>2
<1> QED
  BY <1>2, <1>3, <1>4, <1>5, BetweenFiles

LEMMA ReplayCovered ==
  ASSUME ScanTypeOK, ScanTypeOK', Covered, Replay
  PROVE  Covered'
<1>1. UNCHANGED <<disk, index, report, upsets>> /\ scan # Nil
  BY DEF Replay, bounds
<1>2. scan'.at = "finish" /\ scan'.unread = {} /\ scan'.own = scan.own
  <2>1. scan'.at = "finish" /\ scan'.unread = scan.unread /\ scan'.own = scan.own
    BY ReplayType
  <2>2. scan.unread = {}
    BY <1>1 DEF Covered, ScanHolds
  <2> QED
    BY <2>1, <2>2
<1>3. FilesMove /\ report'.unread = {}
  BY <1>1, StepMoves DEF Covered
<1>4. TableHolds(index)' /\ (scan.own # Nil => TableHolds(scan.own))'
  BY <1>1, <1>2, <1>3, TablesHoldOn
<1> QED
  BY <1>2, <1>3, <1>4, BetweenFiles

LEMMA EndCovered ==
  ASSUME ScanTypeOK, ScanTypeOK', Covered, Finish \/ Crash
  PROVE  Covered'
<1>1. UNCHANGED <<disk, index>> /\ upsets' \in {upsets, upsets + 1} /\ scan' = Nil /\ scan # Nil
  BY DEF Finish, Crash, bounds
<1>2. FilesMove
  BY <1>1, StepMoves DEF Covered
<1>3. TableHolds(index)'
  BY <1>1, <1>2, TablesHoldOn
<1>4. report'.unread = {}
  <2>1. CASE Finish
    BY <1>1, <2>1 DEF Finish, Covered, ScanHolds
  <2>2. CASE Crash
    BY <2>2 DEF Crash, Covered
  <2> QED
    BY <2>1, <2>2
<1> QED
  BY <1>1, <1>2, <1>3, <1>4 DEF Covered, FilesMove

\* The scan leaves its path, with nothing more missed.
LEMMA LeftCovered ==
  ASSUME ScanTypeOK, ScanTypeOK', Covered, scan # Nil, scan.at \in OnPath, NEW lines \in Seq(Lines), NEW ok \in BOOLEAN,
         scan' = Leave(lines, ok), UNCHANGED <<disk, index, report>>, upsets' \in {upsets, upsets + 1}
  PROVE  Covered'
<1>1. scan'.at \in {"stat", "replay"} /\ scan'.unread = scan.unread /\ scan'.own = scan.own
  BY LeaveType
<1>2. FilesMove /\ report'.unread = {} /\ scan.unread = {}
  BY StepMoves DEF Covered, ScanHolds
<1>3. TableHolds(index)' /\ (scan.own # Nil => TableHolds(scan.own))'
  BY <1>1, <1>2, TablesHoldOn
<1> QED
  BY <1>1, <1>2, <1>3, BetweenFiles

LEMMA TableRow ==
  ASSUME Covered, scan # Nil, NEW p \in PathSet, Table[p] # Nil
  PROVE  RowHolds(Table[p], p)
  BY DEF Covered, ScanHolds, Table, TableHolds

\* A file that stat finds as it was is replayed without a line missed.
LEMMA UnchangedMissesNothing ==
  ASSUME ScanTypeOK, Covered, scan # Nil, scan.at \in OnPath, disk[Path] # Nil,
         Decide(Table[Path], Seen0) = "unchanged"
  PROVE  Unread(Table[Path].blob, Seen0) = {}
<1>1. Path \in PathSet /\ disk[Path] \in File /\ Table[Path] # Nil /\ Seen0 = Table[Path].cur
  BY ScanThere, FileThere, DecideRow
<1>2. RowHolds(Table[Path], Path) /\ Table[Path].cur.ino = disk[Path].ino /\ Table[Path].cur.size = Size(disk[Path])
  BY <1>1, TableRow DEF Seen0
<1>3. HasEnded(Size(disk[Path]), Table[Path].blob, Path)
  BY <1>2 DEF RowHolds
<1>4. ASSUME NEW i \in DOMAIN disk[Path].lines PROVE disk[Path].lines[i] \in ToSet(Table[Path].blob)
  <2>1. PICK len \in Nat : len = Len(disk[Path].lines) /\ i \in 1..len /\ Size(disk[Path]) >= 2 * len /\ Size(disk[Path]) \in Nat
    BY <1>1, FileShape
  <2>2. 2 * i <= Size(disk[Path])
    BY <2>1
  <2> QED
    BY <1>3, <2>2 DEF HasEnded
<1>5. ToSet(disk[Path].lines) \subseteq ToSet(Table[Path].blob)
  BY <1>4 DEF ToSet
<1> QED
  BY <1>5 DEF Unread

\* What a parse starts from is true of the file that stat saw.
LEMMA ChangedStarts ==
  ASSUME ScanTypeOK, Covered, scan # Nil, scan.at \in OnPath, disk[Path] # Nil
  PROVE  /\ StatHolds(Seen0, Path)
         /\ Decide(Table[Path], Seen0) = "incremental" => HasBegun(Table[Path].offset, Table[Path].blob, Path)
         /\ HasBegun(0, <<>>, Path)
<1>1. Path \in PathSet /\ disk[Path] \in File
  BY ScanThere, FileThere
<1>2. Size(disk[Path]) \in Nat
  BY <1>1, FileShape
<1>3. StatHolds(Seen0, Path)
  BY <1>1, <1>2 DEF StatHolds, Seen0, Covered, Inodes
<1>4. ASSUME Decide(Table[Path], Seen0) = "incremental" PROVE HasBegun(Table[Path].offset, Table[Path].blob, Path)
  <2>1. Table[Path] # Nil /\ Seen0.ino = Table[Path].cur.ino /\ Path \in Incremental
    BY <1>4, DecideRow
  <2>2. RowHolds(Table[Path], Path) /\ disk[Path].ino = Table[Path].cur.ino
    BY <1>1, <2>1, TableRow DEF Seen0
  <2> QED
    BY <2>1, <2>2 DEF RowHolds
<1>5. HasBegun(0, <<>>, Path)
  <2>1. PICK len \in Nat : len = Len(disk[Path].lines) /\ DOMAIN disk[Path].lines = 1..len
    BY <1>1, FileShape
  <2>2. 0 <= 2 * len /\ \A i \in 1..len : ~(2 * (i - 1) < 0)
    BY <2>1
  <2> QED
    BY <2>1, <2>2 DEF HasBegun
<1> QED
  BY <1>3, <1>4, <1>5

LEMMA VisitCovered ==
  ASSUME ScanTypeOK, ScanTypeOK', Covered, Visit
  PROVE  Covered'
<1>1. /\ scan # Nil /\ scan.at \in OnPath /\ scan \in Scanning /\ Path \in PathSet
      /\ UNCHANGED <<disk, index, report, upsets>> /\ scan.unread = {}
  BY VisitCases, ScanThere DEF OnPath, ScanTypeOK, Covered, ScanHolds
<1>2. FilesMove /\ report'.unread = {}
  BY <1>1, StepMoves DEF Covered
<1>3. CASE disk[Path] = Nil
  <2>1. scan' = Leave(<<>>, TRUE) /\ <<>> \in Seq(Lines)
    BY <1>3, VisitCases
  <2> QED
    BY <1>1, <2>1, LeftCovered
<1>4. CASE disk[Path] # Nil /\ Unchanged0
  <2>1. Table[Path].blob \in Seq(Lines) /\ Unread(Table[Path].blob, Seen0) = {}
    BY <1>1, <1>4, ScanThere, DecideRow, UnchangedMissesNothing DEF Unchanged0, IndexRow
  <2>2. PICK left \in Scanning : /\ left = Leave(Table[Path].blob, TRUE) /\ left.at \in {"stat", "replay"}
                                 /\ left.unread = scan.unread /\ left.own = scan.own
    BY <1>1, <2>1, LeaveType
  <2>3. scan' = [left EXCEPT !.unread = @ \cup Unread(Table[Path].blob, Seen0), !.visited = @ \cup {Path}]
    BY <1>4, <2>2 DEF Unchanged0
  <2>4. scan'.at \in {"stat", "replay"} /\ scan'.unread = {} /\ scan'.own = scan.own
    BY <1>1, <2>1, <2>2, <2>3 DEF Scanning
  <2>5. TableHolds(index)' /\ (scan.own # Nil => TableHolds(scan.own))'
    BY <1>1, <1>2, <2>4, TablesHoldOn
  <2> QED
    BY <1>2, <2>4, <2>5, BetweenFiles
<1>5. CASE disk[Path] # Nil /\ Changed0
  <2>1. PICK offset, blob :
          /\ HasBegun(offset, blob, Path)
          /\ scan' = [scan EXCEPT !.at = "parse", !.cur = Seen0, !.visited = @ \cup {Path}, !.offset = offset, !.blob = blob]
    BY <1>1, <1>5, ChangedStarts DEF Changed0
  <2>2. /\ scan'.at = "parse" /\ scan'.unread = {} /\ scan'.own = scan.own /\ scan'.next = scan.next
        /\ scan'.cur = Seen0 /\ scan'.offset = offset /\ scan'.blob = blob
    BY <1>1, <2>1 DEF Scanning
  <2>3. TableHolds(index)' /\ (scan.own # Nil => TableHolds(scan.own))'
    BY <1>1, <1>2, <2>2, TablesHoldOn
  <2>4. StatHolds(Seen0, Path) /\ Path' = Path
    BY <1>1, <1>5, <2>2, ChangedStarts DEF Path
  <2>5. StatHolds(scan.cur, Path)' /\ HasBegun(scan.offset, scan.blob, Path)'
    BY <1>1, <2>1, <2>2, <2>4 DEF StatHolds, HasBegun
  <2>6. ScanHolds'
    BY <2>2, <2>3, <2>5 DEF ScanHolds
  <2> QED
    BY <1>2, <2>3, <2>6 DEF Covered, FilesMove
<1> QED
  BY <1>3, <1>4, <1>5, VisitCases

LEMMA ConcatSet ==
  ASSUME NEW s \in Seq(Lines), NEW t \in Seq(Lines)
  PROVE  ToSet(s) \cup ToSet(t) \subseteq ToSet(s \o t)
<1>1. PICK m \in Nat, n \in Nat : m = Len(s) /\ n = Len(t) /\ DOMAIN s = 1..m /\ DOMAIN t = 1..n
  OBVIOUS
<1>2. /\ Len(s \o t) = m + n /\ s \o t \in Seq(Lines)
      /\ \A i \in 1..(m + n) : (s \o t)[i] = IF i <= m THEN s[i] ELSE t[i - m]
  BY <1>1, ConcatProperties
<1>3. DOMAIN (s \o t) = 1..(m + n)
  BY <1>2
<1>4. ASSUME NEW i \in 1..m PROVE s[i] \in ToSet(s \o t)
  <2>1. i \in 1..(m + n) /\ i <= m
    OBVIOUS
  <2>2. (s \o t)[i] = s[i]
    BY <1>2, <2>1
  <2> QED
    BY <1>3, <2>1, <2>2 DEF ToSet
<1>5. ASSUME NEW i \in 1..n PROVE t[i] \in ToSet(s \o t)
  <2>1. m + i \in 1..(m + n) /\ ~(m + i <= m) /\ (m + i) - m = i
    OBVIOUS
  <2>2. (s \o t)[m + i] = t[i]
    BY <1>2, <2>1
  <2> QED
    BY <1>3, <2>1, <2>2 DEF ToSet
<1> QED
  BY <1>1, <1>4, <1>5 DEF ToSet

\* What a parse has once it has read to the end of the file.
LEMMA ParseReadsAll ==
  ASSUME ScanTypeOK, NEW p \in PathSet, disk[p] # Nil, NEW offset \in Nat, NEW blob \in Seq(Lines),
         HasBegun(offset, blob, p), NEW got, got = ScanJSONL(disk[p], offset)
  PROVE  /\ ToSet(disk[p].lines) \subseteq ToSet(blob \o got.lines)
         /\ got.consumed <= 2 * Len(disk[p].lines)
<1>1. disk[p] \in File
  BY FileThere
<1>2. /\ got.lines \in Seq(Lines)
      /\ got.consumed = IF offset > 2 * Len(disk[p].lines) THEN offset ELSE 2 * Len(disk[p].lines)
      /\ \A i \in DOMAIN disk[p].lines : 2 * (i - 1) >= offset => disk[p].lines[i] \in ToSet(got.lines)
  BY <1>1, ReadFrom
<1>3. PICK len \in Nat : len = Len(disk[p].lines) /\ DOMAIN disk[p].lines = 1..len /\ offset <= 2 * len
  BY <1>1, FileShape DEF HasBegun
<1>4. ASSUME NEW i \in 1..len PROVE disk[p].lines[i] \in ToSet(blob) \cup ToSet(got.lines)
  <2>1. 2 * (i - 1) >= offset \/ 2 * (i - 1) < offset
    OBVIOUS
  <2> QED
    BY <1>2, <1>3, <2>1 DEF HasBegun
<1>5. ToSet(disk[p].lines) \subseteq ToSet(blob) \cup ToSet(got.lines)
  BY <1>3, <1>4 DEF ToSet
<1> QED
  BY <1>2, <1>3, <1>5, ConcatSet

\* A row of what has been read of a whole file holds.
LEMMA WholeRowHolds ==
  ASSUME ScanTypeOK, NEW p \in PathSet, NEW r \in IndexRow, StatHolds(r.cur, p),
         disk[p] # Nil /\ disk[p].ino = r.cur.ino =>
           /\ ToSet(disk[p].lines) \subseteq ToSet(r.blob)
           /\ p \in Incremental => r.offset <= 2 * Len(disk[p].lines)
  PROVE  RowHolds(r, p)
<1> SUFFICES ASSUME disk[p] # Nil, disk[p].ino = r.cur.ino
             PROVE  HasEnded(r.cur.size, r.blob, p) /\ (p \in Incremental => HasBegun(r.offset, r.blob, p))
  BY DEF RowHolds
<1>1. \A i \in DOMAIN disk[p].lines : disk[p].lines[i] \in ToSet(r.blob)
  BY DEF ToSet
<1> QED
  BY <1>1 DEF HasEnded, HasBegun

LEMMA CutOff ==
  ASSUME NEW offset \in Nat, NEW size \in Nat
  PROVE  Cut(offset, size) \in Nat /\ Cut(offset, size) <= offset
  BY DEF Cut

\* The row that the scan has made stays true of its path.
LEMMA RowCarries ==
  ASSUME ScanTypeOK, ScanTypeOK', FilesMove, Path \in PathSet, NEW r \in IndexRow, RowHolds(r, Path),
         NewRow' = r, Path' = Path
  PROVE  RowHolds(NewRow, Path)'
<1>1. PICK p \in PathSet : p = Path
  OBVIOUS
<1>2. RowHolds(r, p)'
  BY <1>1, RowHoldsOn
<1> QED
  BY <1>1, <1>2 DEF RowHolds, StatHolds, HasEnded, HasBegun

LEMMA ParseCovered ==
  ASSUME ScanTypeOK, ScanTypeOK', Covered, Parse
  PROVE  Covered'
<1>1. /\ scan # Nil /\ scan.at = "parse" /\ scan.at \in OnPath /\ scan \in Scanning /\ Path \in PathSet
      /\ UNCHANGED <<disk, index, report>> /\ upsets' \in {upsets, upsets + 1} /\ scan.unread = {}
      /\ scan.cur \in Stat /\ scan.blob \in Seq(Lines) /\ scan.offset \in Nat /\ scan.cur.size \in Nat
  <2>1. scan # Nil /\ scan.at = "parse" /\ UNCHANGED <<disk, index, report>> /\ upsets' \in {upsets, upsets + 1}
    BY DEF Parse
  <2>2. scan.at \in OnPath /\ scan \in Scanning /\ Path \in PathSet /\ scan.unread = {} /\ scan.cur \in Stat
    BY <2>1, ScanThere DEF OnPath, ScanTypeOK, Covered, ScanHolds
  <2> QED
    BY <2>1, <2>2 DEF Scanning, Stat
<1>2. FilesMove /\ report'.unread = {}
  BY <1>1, StepMoves DEF Covered
<1>3. ASSUME NEW lines \in Seq(Lines), scan' = Leave(lines, FALSE) PROVE Covered'
  BY <1>1, <1>3, LeftCovered
<1>4. CASE /\ disk[Path] # Nil /\ UNCHANGED upsets
           /\ LET got == ScanJSONL(disk[Path], scan.offset) IN
                scan' = [scan EXCEPT !.at = "facts", !.blob = @ \o got.lines,
                           !.offset = IF Path \in Incremental THEN got.consumed ELSE scan.cur.size,
                           !.unread = @ \cup Unread(scan.blob \o got.lines, scan.cur)]
  <2>1. PICK got, blob, offset :
          /\ got = ScanJSONL(disk[Path], scan.offset) /\ blob = scan.blob \o got.lines
          /\ offset = IF Path \in Incremental THEN got.consumed ELSE scan.cur.size
          /\ scan' = [scan EXCEPT !.at = "facts", !.blob = blob, !.offset = offset,
                                  !.unread = @ \cup Unread(blob, scan.cur)]
    BY <1>4
  <2>2. /\ StatHolds(scan.cur, Path)
        /\ disk[Path].ino = scan.cur.ino => HasBegun(scan.offset, scan.blob, Path)
    BY <1>1, <1>4 DEF Covered, ScanHolds
  <2>3. disk[Path].ino = scan.cur.ino =>
          ToSet(disk[Path].lines) \subseteq ToSet(blob) /\ got.consumed <= 2 * Len(disk[Path].lines)
    BY <1>1, <1>4, <2>1, <2>2, ParseReadsAll
  <2>4. Unread(blob, scan.cur) = {}
    BY <2>3 DEF Unread
  <2>5. /\ scan'.at = "facts" /\ scan'.unread = {} /\ scan'.own = scan.own /\ scan'.next = scan.next
        /\ scan'.cur = scan.cur /\ scan'.offset = offset /\ scan'.blob = blob
    BY <1>1, <2>1, <2>4 DEF Scanning
  <2>6. offset \in Nat /\ blob \in Seq(Lines)
    <3>1. disk[Path] \in File
      BY <1>1, <1>4, FileThere
    <3>2. got.lines \in Seq(Lines) /\ Len(disk[Path].lines) \in Nat
          /\ got.consumed = IF scan.offset > 2 * Len(disk[Path].lines) THEN scan.offset ELSE 2 * Len(disk[Path].lines)
      BY <1>1, <2>1, <3>1, ReadFrom, FileShape
    <3>3. got.consumed \in Nat
      BY <1>1, <3>2
    <3> QED
      BY <1>1, <2>1, <3>2, <3>3, ConcatProperties
  <2>7. PICK r \in IndexRow : r.cur = scan.cur /\ r.offset = Cut(offset, scan.cur.size) /\ r.blob = blob /\ r = NewRow'
    <3>1. Row(scan.cur, Cut(offset, scan.cur.size), blob) \in IndexRow
      BY <1>1, <2>6, CutOff DEF Row, IndexRow
    <3> QED
      BY <2>5, <3>1 DEF NewRow, Row
  <2>8. disk[Path].ino = scan.cur.ino /\ Path \in Incremental => r.offset <= 2 * Len(disk[Path].lines)
    <3> SUFFICES ASSUME disk[Path].ino = scan.cur.ino, Path \in Incremental PROVE r.offset <= 2 * Len(disk[Path].lines)
      OBVIOUS
    <3>1. offset <= 2 * Len(disk[Path].lines)
      BY <2>1, <2>3
    <3>2. r.offset \in Nat /\ r.offset <= offset
      BY <1>1, <2>6, <2>7, CutOff
    <3>3. Len(disk[Path].lines) \in Nat
      BY <1>1, <1>4, FileThere, FileShape
    <3> QED
      BY <2>6, <3>1, <3>2, <3>3
  <2>9. RowHolds(r, Path)
    BY <1>1, <2>2, <2>3, <2>7, <2>8, WholeRowHolds
  <2>10. RowHolds(NewRow, Path)'
    BY <1>1, <1>2, <2>5, <2>7, <2>9, RowCarries DEF Path
  <2>11. TableHolds(index)' /\ (scan.own # Nil => TableHolds(scan.own))'
    BY <1>1, <1>2, <2>5, TablesHoldOn
  <2>12. ScanHolds'
    BY <2>5, <2>10, <2>11 DEF ScanHolds
  <2> QED
    BY <1>2, <2>11, <2>12 DEF Covered, FilesMove
<1>5. <<>> \in Seq(Lines)
  OBVIOUS
<1> QED
  BY <1>1, <1>3, <1>4, <1>5 DEF Parse

LEMMA CommitFactsCovered ==
  ASSUME ScanTypeOK, ScanTypeOK', Covered, CommitFacts
  PROVE  Covered'
<1>1. /\ scan # Nil /\ scan.at = "facts" /\ scan.at \in OnPath /\ scan \in Scanning /\ Path \in PathSet
      /\ UNCHANGED <<disk, index, report>> /\ upsets' \in {upsets, upsets + 1} /\ scan.unread = {}
      /\ scan.blob \in Seq(Lines) /\ RowHolds(NewRow, Path)
  <2>1. scan # Nil /\ scan.at = "facts" /\ UNCHANGED <<disk, index, report>> /\ upsets' \in {upsets, upsets + 1}
    BY DEF CommitFacts
  <2>2. /\ scan.at \in OnPath /\ scan \in Scanning /\ Path \in PathSet
        /\ scan.unread = {} /\ RowHolds(NewRow, Path)
    BY <2>1, ScanThere DEF OnPath, ScanTypeOK, Covered, ScanHolds
  <2> QED
    BY <2>1, <2>2 DEF Scanning
<1>2. FilesMove /\ report'.unread = {}
  BY <1>1, StepMoves DEF Covered
<1>3. CASE scan' = [scan EXCEPT !.at = "checkpoint"]
  <2>1. /\ scan'.at = "checkpoint" /\ scan'.unread = {} /\ scan'.own = scan.own /\ scan'.next = scan.next
        /\ scan'.cur = scan.cur /\ scan'.offset = scan.offset /\ scan'.blob = scan.blob
    BY <1>1, <1>3 DEF Scanning
  <2>2. NewRow \in IndexRow
    <3>1. scan.cur \in Stat
      BY <1>1 DEF ScanTypeOK, OnPath
    <3> QED
      BY <1>1, <3>1, CutOff DEF NewRow, Row, IndexRow, Scanning, Stat
  <2>3. PICK r \in IndexRow : r = NewRow
    BY <2>2
  <2>4. NewRow' = r /\ Path' = Path
    BY <2>1, <2>3 DEF NewRow, Path
  <2>5. RowHolds(NewRow, Path)'
    BY <1>1, <1>2, <2>3, <2>4, RowCarries
  <2>6. TableHolds(index)' /\ (scan.own # Nil => TableHolds(scan.own))'
    BY <1>1, <1>2, <2>1, TablesHoldOn
  <2>7. ScanHolds'
    BY <2>1, <2>5, <2>6 DEF ScanHolds
  <2> QED
    BY <1>2, <2>6, <2>7 DEF Covered, FilesMove
<1>4. CASE scan' = Leave(scan.blob, FALSE)
  BY <1>1, <1>4, LeftCovered
<1> QED
  BY <1>3, <1>4 DEF CommitFacts

LEMMA CheckpointCovered ==
  ASSUME ScanTypeOK, ScanTypeOK', Covered, Checkpoint
  PROVE  Covered'
<1>1. /\ scan # Nil /\ scan.at = "checkpoint" /\ scan.at \in OnPath /\ scan \in Scanning /\ Path \in PathSet
      /\ UNCHANGED <<disk, report, upsets>> /\ scan.unread = {} /\ RowHolds(NewRow, Path)
      /\ NewRow \in IndexRow /\ scan.blob \in Seq(Lines) /\ index \in IndexTable
  <2>1. scan # Nil /\ scan.at = "checkpoint" /\ UNCHANGED <<disk, report, upsets>>
    BY DEF Checkpoint, bounds
  <2>2. /\ scan.at \in OnPath /\ scan \in Scanning /\ Path \in PathSet
        /\ scan.unread = {} /\ RowHolds(NewRow, Path) /\ index \in IndexTable
    BY <2>1, ScanThere DEF OnPath, ScanTypeOK, Covered, ScanHolds
  <2> QED
    BY <2>1, <2>2, CheckpointType DEF Scanning
<1>2. FilesMove /\ report'.unread = {}
  BY <1>1, StepMoves DEF Covered
<1>3. PICK r \in IndexRow, q \in PathSet : r = NewRow /\ q = Path
  BY <1>1
<1>4. RowHolds(r, q)'
  <2>1. RowHolds(r, q)
    BY <1>1, <1>3
  <2> QED
    BY <1>2, <2>1, RowHoldsOn
<1>5. PICK left \in Scanning : /\ left = Leave(scan.blob, TRUE) /\ left.at \in {"stat", "replay"}
                               /\ left.unread = {} /\ left.own = scan.own
  BY <1>1, LeaveType
<1>6. ASSUME NEW t \in IndexTable, t = index \/ (scan.own # Nil /\ t = scan.own),
             NEW u, u = [t EXCEPT ![q] = r]
      PROVE  TableHolds(u)'
  <2>1. TableHolds(t)'
    BY <1>1, <1>2, <1>6, TablesHoldOn
  <2>2. \A p \in PathSet : (u[p] = r /\ p = q) \/ u[p] = t[p]
    BY <1>6 DEF IndexTable
  <2> QED
    BY <1>4, <2>1, <2>2 DEF TableHolds, PathSet
<1>7. CASE scan.own = Nil
  <2>1. index' = [index EXCEPT ![q] = r] /\ scan' = left
    BY <1>3, <1>5, <1>7 DEF Checkpoint, NewRow
  <2>2. PICK u \in IndexTable : u = [index EXCEPT ![q] = r]
    BY <1>1 DEF IndexTable
  <2>3. TableHolds(u)'
    BY <1>1, <1>6, <2>2
  <2>4. TableHolds(index)'
    BY <2>1, <2>2, <2>3 DEF TableHolds
  <2>5. (scan.own # Nil => TableHolds(scan.own))'
    BY <1>5, <1>7, <2>1
  <2> QED
    BY <1>2, <1>5, <2>1, <2>4, <2>5, BetweenFiles
<1>8. CASE scan.own # Nil
  <2>1. PICK own \in IndexTable : own = scan.own
    BY <1>1, <1>8 DEF Scanning
  <2>2. PICK u \in IndexTable : u = [own EXCEPT ![q] = r]
    BY DEF IndexTable
  <2>3. scan' = [left EXCEPT !.own = u] /\ UNCHANGED index
    BY <1>3, <1>5, <1>8, <2>1, <2>2 DEF Checkpoint, NewRow, Scanning
  <2>4. scan'.at = left.at /\ scan'.unread = {} /\ scan'.own = u
    BY <1>5, <2>3 DEF Scanning
  <2>5. TableHolds(u)'
    BY <1>6, <1>8, <2>1, <2>2
  <2>6. (scan.own # Nil => TableHolds(scan.own))'
    BY <2>4, <2>5 DEF TableHolds
  <2>7. TableHolds(index)'
    BY <1>2, <2>3, TablesHoldOn
  <2> QED
    BY <1>2, <1>5, <2>4, <2>6, <2>7, BetweenFiles
<1> QED
  BY <1>7, <1>8

\* The files of the removed index stay readable for the scan that has them open.
LEMMA WipeCovered ==
  ASSUME ScanTypeOK, ScanTypeOK', Covered, Wipe
  PROVE  Covered'
<1>1. UNCHANGED <<disk, report>> /\ upsets' = upsets + 1 /\ index' = [p \in PathSet |-> Nil]
  BY DEF Wipe
<1>2. FilesMove /\ Inodes' /\ report'.unread = {}
  BY <1>1, StepMoves DEF Covered, FilesMove
<1>3. TableHolds(index)'
  BY <1>1 DEF TableHolds, PathSet
<1>4. CASE scan # Nil
  <2>1. PICK table \in IndexTable : table = Table
    BY <1>4, ScanThere
  <2>2. TableHolds(table)'
    BY <1>2, <1>4, <2>1, TablesHoldOn DEF Table
  <2>3. scan \in Scanning
    BY <1>4 DEF ScanTypeOK
  <2>4. scan' = IF scan.own = Nil THEN [scan EXCEPT !.own = index] ELSE scan
    BY <1>4 DEF Wipe
  <2>5. /\ scan'.at = scan.at /\ scan'.unread = scan.unread /\ scan'.own = table /\ scan'.next = scan.next
        /\ scan'.cur = scan.cur /\ scan'.offset = scan.offset /\ scan'.blob = scan.blob
    BY <2>1, <2>3, <2>4 DEF Scanning, Table
  <2>6. TableHolds(scan.own)'
    BY <2>2, <2>5 DEF TableHolds
  <2>7. ScanHolds'
    BY <1>2, <1>4, <2>5, <2>6, OpenHoldsOn
  <2> QED
    BY <1>2, <1>3, <2>7 DEF Covered
<1>5. CASE scan = Nil
  BY <1>2, <1>3, <1>5 DEF Wipe, Covered
<1> QED
  BY <1>4, <1>5

LEMMA CoveredStep ==
  ASSUME ScanTypeOK, Covered, [ScanNext]_scanVars
  PROVE  Covered'
<1>1. ScanTypeOK'
  BY ScanTypeStep
<1>2. CASE AgentsWork
  <2>1. PICK p \in PathSet : (\E whole \in BOOLEAN : WriteLine(p, whole)) \/ FinishLine(p) \/ Move(p)
    BY <1>2 DEF AgentsWork
  <2>2. FilesMove
    BY <2>1, WriteMoves, MoveMoves DEF Covered
  <2>3. UNCHANGED <<index, scan, report>>
    BY <2>1 DEF WriteLine, FinishLine, Move
  <2> QED
    BY <1>1, <2>2, <2>3, AgentsCovered
<1>3. CASE UNCHANGED scanVars
  <2>1. FilesMove
    BY <1>3, StepMoves DEF scanVars, bounds
  <2> QED
    BY <1>1, <1>3, <2>1, AgentsCovered DEF scanVars
<1> QED
  BY <1>1, <1>2, <1>3, BeginCovered, VisitCovered, ParseCovered, CommitFactsCovered, CheckpointCovered,
     ReplayCovered, EndCovered, WipeCovered DEF ScanNext, ScanSteps

\* What is on disk throughout a scan that reads its root without an error is in
\* its report: a row that decide takes over has read its file up to the size or
\* the offset that it names, whatever the agents, errors, crashes and rebuilds
\* did since.
THEOREM NothingOnDiskIsMissed == ScanSpec => []OnDiskIsReported
<1>1. ScanTypeOK /\ Covered /\ [ScanNext]_scanVars => Covered'
  BY CoveredStep
<1>2. Covered => OnDiskIsReported
  BY DEF Covered, OnDiskIsReported
<1> QED
  BY <1>1, <1>2, CoveredInit, ScanTypeCorrect, PTL DEF ScanSpec
-----------------------------------------------------------------------------
(* What a publication may do to the README of the owner's profile, for any    *)
(* number of publishers, palettes, snapshots, commits, edits and faults.  A   *)
(* publisher writes only what it saw Pages serve, and what Pages served once  *)
(* stays served-once: the check before the write cannot be made stale by a    *)
(* later deployment.  What it writes back of the owner's text is what it      *)
(* read, and GitHub takes it only in place of that.                           *)

\* Records have the fields the steps replace.
IsReadme(r) == r \in [key : {r.key}, text : {r.text}, commit : {r.commit}]
IsJob(j) == j \in [at : {j.at}, palette : {j.palette}, retry : {j.retry}, seen : {j.seen}, plan : {j.plan}]
Steps == {"idle", "readme?", "look", "write", "commit", "push", "pages", "live", "update", "put"}
Shaped ==
  /\ IsReadme(readme)
  /\ pages = [live |-> pages.live, run |-> pages.run, ended |-> pages.ended]
  /\ job = [x \in Publishers |-> job[x]]
  /\ \A x \in Publishers :
       /\ IsJob(job[x]) /\ job[x].at \in Steps
       /\ job[x].at \notin {"idle", "readme?"} => IsReadme(job[x].seen)

\* A publisher about to write has seen its pictures on Pages.
Seen ==
  /\ Asset(pages.live) \in everLive
  /\ \A x \in Publishers : job[x].at \in {"update", "put"} => Asset(job[x].plan.next) \in everLive

PublishInv == Shaped /\ Seen /\ ReadmeNamesWhatWasLive /\ OwnerTextSurvives

LEMMA PublishInvInit == PublishInit => PublishInv
<1> SUFFICES ASSUME PublishInit PROVE PublishInv
  OBVIOUS
<1>1. PICK served :
        /\ pages = [live |-> served, run |-> 0, ended |-> {}]
        /\ readme = [key |-> CacheKey(served), text |-> 0, commit |-> 0]
        /\ job = [x \in Publishers |-> NoJob] /\ edits = 0 /\ everLive = {Asset(served)}
  BY DEF PublishInit
<1>2. IsJob(NoJob) /\ NoJob.at = "idle"
  BY DEF IsJob, NoJob
<1>3. Shaped
  BY <1>1, <1>2 DEF Shaped, IsReadme, Steps
<1>4. pages.live = served /\ readme.key.asset = Asset(served) /\ readme.text = edits
  BY <1>1 DEF CacheKey
<1>5. Seen
  BY <1>1, <1>2, <1>4 DEF Seen
<1> QED
  BY <1>1, <1>3, <1>4, <1>5 DEF PublishInv, ReadmeNamesWhatWasLive, OwnerTextSurvives

\* Steps of a publisher that leave GitHub and Pages alone: its job ends, or goes
\* on with what it read.
LEMMA JobStep ==
  ASSUME PublishInv, NEW x \in Publishers, NEW j, IsJob(j), j.at \in Steps,
         job' = [job EXCEPT ![x] = j],
         j.at \notin {"idle", "readme?"} => IsReadme(j.seen),
         j.at \in {"update", "put"} => Asset(j.plan.next) \in everLive,
         pages' = [live |-> pages'.live, run |-> pages'.run, ended |-> pages'.ended],
         pages'.live = pages.live, UNCHANGED <<readme, edits, everLive>>
  PROVE  PublishInv'
<1>1. Shaped'
  BY DEF PublishInv, Shaped, IsReadme, IsJob
<1>2. Seen'
  BY DEF PublishInv, Shaped, Seen, Asset
<1> QED
  BY <1>1, <1>2 DEF PublishInv, ReadmeNamesWhatWasLive, OwnerTextSurvives

LEMMA GoesStep ==
  ASSUME PublishInv, NEW x \in Publishers, NEW at \in Steps, Goes(x, at),
         at \notin {"idle", "readme?"} => IsReadme(job[x].seen),
         at \in {"update", "put"} => Asset(job[x].plan.next) \in everLive,
         pages' = [live |-> pages'.live, run |-> pages'.run, ended |-> pages'.ended],
         pages'.live = pages.live, UNCHANGED <<readme, edits, everLive>>
  PROVE  PublishInv'
<1> DEFINE j == [job[x] EXCEPT !.at = at]
<1>1. IsJob(job[x])
  BY DEF PublishInv, Shaped
<1>2. IsJob(j) /\ j.at = at /\ j.seen = job[x].seen /\ j.plan = job[x].plan
  BY <1>1 DEF IsJob
<1>3. job' = [job EXCEPT ![x] = j]
  BY DEF Goes
<1> HIDE DEF j
<1> QED
  BY <1>2, <1>3, JobStep

LEMMA EndsStep ==
  ASSUME PublishInv, NEW x \in Publishers, Ends(x),
         pages' = [live |-> pages'.live, run |-> pages'.run, ended |-> pages'.ended],
         pages'.live = pages.live, UNCHANGED <<readme, edits, everLive>>
  PROVE  PublishInv'
<1>1. IsJob(NoJob) /\ NoJob.at = "idle" /\ "idle" \in Steps
  BY DEF NoJob, IsJob, Steps
<1> QED
  BY <1>1, JobStep DEF Ends

\* A push never changes what Pages serves now.
LEMMA DeploysKeepsLive ==
  ASSUME Shaped, NEW from, NEW to, Deploys(from, to)
  PROVE  /\ pages' = [live |-> pages'.live, run |-> pages'.run, ended |-> pages'.ended]
         /\ pages'.live = pages.live
  BY DEF Deploys, Shaped

-----------------------------------------------------------------------------
LEMMA StartSteps ==
  ASSUME PublishInv,
         \/ \E p \in Palettes, retry \in BOOLEAN : PublishExecute(p, retry)
         \/ \E x \in Publishers, p \in Palettes : RunProfilePublish(x, p)
  PROVE  PublishInv'
<1>1. Web \in Publishers
  BY PublishAssumption
<1>2. PICK x \in Publishers, p \in Palettes, retry \in BOOLEAN :
        Starts(x, p, retry) /\ UNCHANGED <<pages, readme, edits, everLive>>
  BY <1>1 DEF PublishExecute, RunProfilePublish
<1> DEFINE j == [NoJob EXCEPT !.at = "readme?", !.palette = p, !.retry = retry]
<1>3. IsJob(j) /\ j.at = "readme?" /\ "readme?" \in Steps
  BY DEF NoJob, IsJob, Steps
<1>4. job' = [job EXCEPT ![x] = j]
  BY <1>2 DEF Starts
<1>5. pages = [live |-> pages.live, run |-> pages.run, ended |-> pages.ended]
  BY DEF PublishInv, Shaped
<1> HIDE DEF j
<1> QED
  BY <1>2, <1>3, <1>4, <1>5, JobStep

LEMMA PlanSteps ==
  ASSUME PublishInv, NEW x \in Publishers, ReadReadme(x) \/ Look(x)
  PROVE  PublishInv'
<1>0. /\ IsReadme(readme) /\ IsJob(job[x])
      /\ job[x].at \notin {"idle", "readme?"} => IsReadme(job[x].seen)
      /\ pages = [live |-> pages.live, run |-> pages.run, ended |-> pages.ended]
  BY DEF PublishInv, Shaped
<1>1. CASE ReadReadme(x)
  <2> DEFINE j == [job[x] EXCEPT !.at = "look", !.seen = readme]
  <2>1. IsJob(j) /\ j.at = "look" /\ j.seen = readme /\ "look" \in Steps
    BY <1>0 DEF IsJob, Steps
  <2>2. job' = [job EXCEPT ![x] = j] /\ UNCHANGED <<pages, readme, edits, everLive>>
    BY <1>1 DEF ReadReadme
  <2> HIDE DEF j
  <2> QED
    BY <1>0, <2>1, <2>2, JobStep
<1>2. CASE Look(x)
  <2>1. PICK plan : Ends(x) \/ (/\ Decided(x, plan) # "idle"
                                /\ job' = [job EXCEPT ![x].at = Decided(x, plan), ![x].plan = plan])
    BY <1>2 DEF Look
  <2>2. UNCHANGED <<pages, readme, edits, everLive>> /\ job[x].at = "look"
    BY <1>2 DEF Look
  <2>3. CASE Ends(x)
    BY <1>0, <2>2, <2>3, EndsStep
  <2>4. CASE job' = [job EXCEPT ![x].at = Decided(x, plan), ![x].plan = plan]
    <3> DEFINE j == [job[x] EXCEPT !.at = Decided(x, plan), !.plan = plan]
    <3>1. Decided(x, plan) \in {"idle", "write", "push", "live"}
      BY DEF Decided
    <3>2. IsJob(j) /\ j.at = Decided(x, plan) /\ j.seen = job[x].seen
      BY <1>0 DEF IsJob
    <3>3. j.at \in Steps /\ j.at \notin {"update", "put"}
      BY <3>1, <3>2 DEF Steps
    <3>4. job' = [job EXCEPT ![x] = j]
      BY <2>4
    <3>5. IsReadme(job[x].seen)
      BY <1>0, <2>2
    <3> HIDE DEF j
    <3> QED
      BY <1>0, <2>2, <3>2, <3>3, <3>4, <3>5, JobStep
  <2> QED
    BY <2>1, <2>3, <2>4
<1> QED
  BY <1>1, <1>2

LEMMA RepositorySteps ==
  ASSUME PublishInv, NEW x \in Publishers,
         writeBundle(x) \/ commitBundle(x) \/ push(x) \/ waitPages(x) \/ Stop(x)
  PROVE  PublishInv'
<1>0. /\ IsJob(job[x]) /\ Shaped
      /\ job[x].at \notin {"idle", "readme?"} => IsReadme(job[x].seen)
      /\ pages = [live |-> pages.live, run |-> pages.run, ended |-> pages.ended]
  BY DEF PublishInv, Shaped
<1>1. {"commit", "push", "pages", "live"} \subseteq Steps
  BY DEF Steps
<1>2. CASE writeBundle(x)
  BY <1>0, <1>1, <1>2, GoesStep, EndsStep DEF writeBundle
<1>3. CASE commitBundle(x)
  <2> DEFINE j == [job[x] EXCEPT !.at = "push", !.plan.sha = Len(git.has) + 1]
  <2>1. IsJob(j) /\ j.at = "push" /\ j.seen = job[x].seen
    BY <1>0 DEF IsJob
  <2>2. Ends(x) \/ job' = [job EXCEPT ![x] = j]
    BY <1>3 DEF commitBundle
  <2>3. UNCHANGED <<pages, readme, edits, everLive>> /\ IsReadme(job[x].seen)
    BY <1>0, <1>3 DEF commitBundle
  <2> HIDE DEF j
  <2> QED
    BY <1>0, <1>1, <2>1, <2>2, <2>3, JobStep, EndsStep
<1>4. CASE push(x)
  <2>1. /\ pages' = [live |-> pages'.live, run |-> pages'.run, ended |-> pages'.ended]
        /\ pages'.live = pages.live
    BY <1>0, <1>4, DeploysKeepsLive DEF push
  <2>2. Goes(x, "pages") \/ Ends(x)
    BY <1>4 DEF push
  <2>3. UNCHANGED <<readme, edits, everLive>> /\ IsReadme(job[x].seen)
    BY <1>0, <1>4 DEF push
  <2> QED
    BY <1>1, <2>1, <2>2, <2>3, GoesStep, EndsStep
<1>5. CASE waitPages(x)
  BY <1>0, <1>1, <1>5, GoesStep, EndsStep DEF waitPages
<1>6. CASE Stop(x)
  BY <1>0, <1>6, EndsStep DEF Stop
<1> QED
  BY <1>2, <1>3, <1>4, <1>5, <1>6

\* The write comes after the pictures were seen, and in place of what was read.
LEMMA ReadmeSteps ==
  ASSUME PublishInv, NEW x \in Publishers, CheckLive(x) \/ updateReadme(x) \/ PutReadme(x)
  PROVE  PublishInv'
<1>0. /\ Shaped /\ Seen /\ IsJob(job[x]) /\ ReadmeNamesWhatWasLive /\ OwnerTextSurvives
      /\ job[x].at \notin {"idle", "readme?"} => IsReadme(job[x].seen)
      /\ pages = [live |-> pages.live, run |-> pages.run, ended |-> pages.ended]
  BY DEF PublishInv, Shaped
<1>1. "update" \in Steps /\ "put" \in Steps
  BY DEF Steps
<1>2. CASE CheckLive(x)
  <2>1. Ends(x) \/ (Goes(x, "update") /\ Asset(job[x].plan.next) \in everLive)
    BY <1>0, <1>2 DEF CheckLive, Shows, Seen
  <2>2. UNCHANGED <<pages, readme, edits, everLive>> /\ IsReadme(job[x].seen)
    BY <1>0, <1>2 DEF CheckLive
  <2> QED
    BY <1>0, <1>1, <2>1, <2>2, GoesStep, EndsStep
<1>3. CASE updateReadme(x)
  <2>1. UNCHANGED <<pages, readme, edits, everLive>> /\ IsReadme(job[x].seen)
    BY <1>0, <1>3 DEF updateReadme
  <2>2. Asset(job[x].plan.next) \in everLive
    BY <1>0, <1>3 DEF updateReadme, Seen
  <2> QED
    BY <1>0, <1>1, <1>3, <2>1, <2>2, GoesStep, EndsStep DEF updateReadme
<1>4. CASE PutReadme(x)
  <2>1. CASE UNCHANGED readme
    BY <1>0, <1>4, <2>1, EndsStep DEF PutReadme
  <2>2. CASE SameBlob(x) /\ readme' = [Rewritten(x) EXCEPT !.commit = readme.commit + 1]
    <3>1. IsReadme(job[x].seen) /\ Asset(job[x].plan.next) \in everLive
      BY <1>0, <1>4 DEF PutReadme, Seen
    <3>2. /\ IsReadme(readme)' /\ readme'.text = job[x].seen.text
          /\ readme'.key = CacheKey(job[x].plan.next)
      BY <2>2, <3>1 DEF IsReadme, Rewritten
    <3>3. readme'.text = edits' /\ readme'.key.asset \in everLive'
      BY <1>0, <1>4, <2>2, <3>1, <3>2 DEF PutReadme, SameBlob, OwnerTextSurvives, CacheKey
    <3>4. Shaped'
      BY <1>0, <1>4, <3>2 DEF PutReadme, Ends, Shaped, IsReadme, IsJob, NoJob, Steps
    <3>5. Seen'
      BY <1>0, <1>4 DEF PutReadme, Ends, Shaped, Seen, NoJob, Asset
    <3> QED
      BY <3>3, <3>4, <3>5 DEF PublishInv, ReadmeNamesWhatWasLive, OwnerTextSurvives
  <2> QED
    BY <1>4, <2>1, <2>2 DEF PutReadme
<1> QED
  BY <1>2, <1>3, <1>4

\* The owner, other people and Pages.
LEMMA OwnerStepsKeep ==
  ASSUME PublishInv, OwnerSteps \/ \E p \in Palettes : PublishPreflight(p)
  PROVE  PublishInv'
<1> USE DEF PublishInv
<1>1. ASSUME UNCHANGED <<readme, edits, everLive, job>>,
             pages' = [live |-> pages'.live, run |-> pages'.run, ended |-> pages'.ended],
             pages'.live = pages.live
      PROVE  PublishInv'
  BY <1>1 DEF Shaped, IsReadme, IsJob, Seen, Asset, ReadmeNamesWhatWasLive, OwnerTextSurvives
<1>2. CASE \/ RunProfileBuild \/ OwnerCommits \/ OwnerStages \/ OwnerDiscards \/ OwnerPulls
           \/ \E p \in Palettes : PublicProfile(p) \/ RunProfilePalette(p) \/ PublishPreflight(p)
  <2>1. UNCHANGED <<readme, edits, everLive, job, pages>>
    BY <1>2 DEF RunProfileBuild, OwnerCommits, OwnerStages, OwnerDiscards, OwnerPulls, PublicProfile,
       RunProfilePalette, PublishPreflight
  <2> QED
    BY <1>1, <2>1 DEF Shaped
<1>3. ASSUME NEW p \in Palettes, OthersPush(p) PROVE PublishInv'
  BY <1>1, <1>3, DeploysKeepsLive DEF OthersPush
<1>4. ASSUME NEW ok \in BOOLEAN, PagesEnds(ok) PROVE PublishInv'
  <2>1. Shaped'
    BY <1>4 DEF PagesEnds, Shaped, IsReadme, IsJob
  <2>2. everLive \subseteq everLive' /\ Asset(pages'.live) \in everLive' /\ UNCHANGED <<readme, edits, job>>
    BY <1>4 DEF PagesEnds
  <2>3. Asset(pages.live)' \in everLive'
    BY <2>2 DEF Asset
  <2>4. \A x \in Publishers : job[x].at \in {"update", "put"} => Asset(job[x].plan.next) \in everLive'
    BY <2>2 DEF Seen
  <2>5. Seen'
    BY <2>2, <2>3, <2>4 DEF Seen, Asset
  <2> QED
    BY <2>1, <2>2, <2>5 DEF ReadmeNamesWhatWasLive, OwnerTextSurvives
<1>5. CASE EditReadme \/ OtherProfileCommit
  <2>1. /\ IsReadme(readme)' /\ readme'.key = readme.key /\ readme'.text = edits'
        /\ UNCHANGED <<pages, job, everLive>>
    BY <1>5 DEF EditReadme, OtherProfileCommit, Shaped, IsReadme, OwnerTextSurvives
  <2>2. Shaped'
    BY <2>1 DEF Shaped, IsReadme, IsJob
  <2>3. Seen'
    BY <2>1 DEF Seen, Asset
  <2> QED
    BY <2>1, <2>2, <2>3 DEF ReadmeNamesWhatWasLive, OwnerTextSurvives
<1> QED
  BY <1>2, <1>3, <1>4, <1>5 DEF OwnerSteps

LEMMA PublishInvStep == PublishInv /\ [PublishNext]_publishVars => PublishInv'
<1> SUFFICES ASSUME PublishInv, [PublishNext]_publishVars PROVE PublishInv'
  OBVIOUS
<1>1. ASSUME NEW x \in Publishers, PublisherSteps(x) PROVE PublishInv'
  BY <1>1, PlanSteps, RepositorySteps, ReadmeSteps DEF PublisherSteps
<1>2. CASE UNCHANGED publishVars
  BY <1>2 DEF publishVars, PublishInv, Shaped, IsReadme, IsJob, Seen, Asset,
     ReadmeNamesWhatWasLive, OwnerTextSurvives
<1> QED
  BY <1>1, <1>2, StartSteps, OwnerStepsKeep DEF PublishNext

-----------------------------------------------------------------------------
THEOREM PublishInvAlways == PublishSpec => []PublishInv
<1> QED
  BY PublishInvInit, PublishInvStep, PTL DEF PublishSpec

\* The README asks only for pictures that Pages has served.
THEOREM ReadmeIsServed == PublishSpec => []ReadmeNamesWhatWasLive
<1>1. PublishInv => ReadmeNamesWhatWasLive
  BY DEF PublishInv
<1> QED
  BY <1>1, PublishInvAlways, PTL

\* No publication undoes what the owner writes in the README.
THEOREM OwnerKeepsTheText == PublishSpec => []OwnerTextSurvives
<1>1. PublishInv => OwnerTextSurvives
  BY DEF PublishInv
<1> QED
  BY <1>1, PublishInvAlways, PTL
==============================================================================
