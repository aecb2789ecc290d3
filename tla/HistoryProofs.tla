---------------------------- MODULE HistoryProofs ----------------------------
(***************************************************************************)
(* What the history of an account promises, for every calendar, every        *)
(* outcome of a request and every content of the ledger: whose it is never    *)
(* changes hands, no day of it is shown twice, and the open month is shown as  *)
(* the account was used.  And of this machine's own lines: a streak stands     *)
(* over midnight, and what a wall shows of the account is what the account's   *)
(* own observation sums to.                                                  *)
(***************************************************************************)
EXTENDS AccountHistory, PublicFigures,
        FiniteSetTheorems, NaturalsInduction, WellFoundedInduction, SequenceTheorems, TLAPS

-----------------------------------------------------------------------------
(* The link. *)

\* An answer names the account that gave it.
Answer ==
    /\ \E subject, decision, who : meta = [subject |-> subject, decision |-> decision, who |-> who]
    /\ meta.decision \in {"", "declined", "confirmed"}
    /\ meta.decision = "declined" => meta.who # Nobody

LEMMA ScanSubject ==
    ASSUME NEW outcome
    PROVE  meta.subject # Nobody => ScanOf(outcome).subject = meta.subject
  <1>1. ScanOf(outcome).subject
          = IF outcome.net THEN AcceptSubject(Sub(signed)).subject ELSE meta.subject
    BY DEF ScanOf
  <1>2. meta.subject # Nobody => AcceptSubject(Sub(signed)).subject = meta.subject
    BY DEF AcceptSubject, Accepted, Refused
  <1> QED BY <1>1, <1>2

LEMMA ScanIsRecord ==
    ASSUME NEW outcome, NEW table
    PROVE  [ScanOf(outcome) EXCEPT !.table = table].subject = ScanOf(outcome).subject
  BY DEF ScanOf

\* A reading keeps the answer, and the account if there is one.
LEMMA ScanKeepsLink ==
    ASSUME Answer, Scan
    PROVE  /\ meta' = [meta EXCEPT !.subject = meta'.subject]
           /\ meta.subject # Nobody => meta'.subject = meta.subject
  <1>1. PICK outcome \in Outcomes : Report(ScanOf(outcome)) \/ Refresh(ScanOf(outcome))
    BY DEF Scan
  <1>2. PICK table : meta' = [meta EXCEPT !.subject = [ScanOf(outcome) EXCEPT !.table = table].subject]
                     \/ meta' = [meta EXCEPT !.subject = ScanOf(outcome).subject]
    BY <1>1 DEF Report, Refresh, ReadRows
  <1>3. meta' = [meta EXCEPT !.subject = ScanOf(outcome).subject]
    BY <1>2, ScanIsRecord
  <1>4. meta'.subject = ScanOf(outcome).subject
    BY <1>3 DEF Answer
  <1> QED BY <1>3, <1>4, ScanSubject

\* Nobody but the account that declined may answer again, and a confirmed answer
\* stands.
LEMMA LinkKeeps ==
    ASSUME Answer, meta.subject = Nobody, NEW sub, sub # Nobody,
           NEW decision \in {"confirmed", "declined"},
           meta' = Link(sub, decision)
    PROVE  /\ Answer'
           /\ meta.decision # "" => meta'.who = meta.who
           /\ meta.decision = "confirmed" => meta'.decision = "confirmed"
  <1>1. CASE meta' = meta
    BY <1>1 DEF Answer
  <1>2. CASE meta' # meta
    <2>1. /\ meta.decision # "confirmed"
          /\ meta.decision = "declined" => meta.who = sub
      BY <1>2 DEF Link, Answer
    <2>2. \/ meta' = [subject |-> sub, decision |-> "confirmed", who |-> sub]
          \/ meta' = [meta EXCEPT !.decision = "declined", !.who = sub]
      BY <1>2 DEF Link
    <2>3. CASE meta' = [subject |-> sub, decision |-> "confirmed", who |-> sub]
      <3>1. meta'.decision = "confirmed" /\ meta'.who = sub
        BY <2>3
      <3>2. Answer'
        BY <2>3, <3>1 DEF Answer
      <3> QED BY <2>1, <3>1, <3>2 DEF Answer
    <2>4. CASE meta' = [meta EXCEPT !.decision = "declined", !.who = sub]
      <3>1. PICK old, given, who : meta = [subject |-> old, decision |-> given, who |-> who]
        BY DEF Answer
      <3>2. meta' = [subject |-> old, decision |-> "declined", who |-> sub]
        BY <2>4, <3>1
      <3>3. meta'.decision = "declined" /\ meta'.who = sub
        BY <3>2
      <3>4. Answer'
        BY <3>2, <3>3 DEF Answer
      <3> QED BY <2>1, <3>3, <3>4 DEF Answer
    <2> QED BY <2>2, <2>3, <2>4
  <1> QED BY <1>1, <1>2

LEMMA StepKeeps ==
    ASSUME Answer, [HistoryNext]_historyVars
    PROVE  /\ Answer'
           /\ meta.subject # Nobody => meta'.subject = meta.subject
           /\ meta.decision # "" => meta'.who = meta.who
           /\ meta.decision = "confirmed" => meta'.decision = "confirmed"
  <1>1. CASE UNCHANGED meta
    BY <1>1 DEF Answer
  <1>2. CASE Scan
    <2>1. /\ meta' = [meta EXCEPT !.subject = meta'.subject]
          /\ meta.subject # Nobody => meta'.subject = meta.subject
      BY <1>2, ScanKeepsLink
    <2>2. PICK subject : meta' = [meta EXCEPT !.subject = subject]
      BY <2>1
    <2>3. PICK old, decision, who : meta = [subject |-> old, decision |-> decision, who |-> who]
      BY DEF Answer
    <2>4. meta' = [subject |-> subject, decision |-> decision, who |-> who]
      BY <2>2, <2>3
    <2>5. /\ meta'.decision = meta.decision /\ meta'.who = meta.who
      BY <2>3, <2>4
    <2> QED BY <2>1, <2>4, <2>5 DEF Answer
  <1>3. ASSUME NEW decision \in {"confirmed", "declined"}, Connect(decision)
        PROVE  /\ Answer'
               /\ meta.subject # Nobody => meta'.subject = meta.subject
               /\ meta.decision # "" => meta'.who = meta.who
               /\ meta.decision = "confirmed" => meta'.decision = "confirmed"
    <2>1. meta.subject = Nobody /\ Sub(signed) # Nobody /\ meta' = Link(Sub(signed), decision)
      BY <1>3 DEF Connect
    <2> QED BY <2>1, LinkKeeps
  <1>4. \/ UNCHANGED meta \/ Scan
        \/ \E decision \in {"confirmed", "declined"} : Connect(decision)
    BY DEF HistoryNext, Spend, NextDay, SignIn, historyVars
  <1> QED BY <1>1, <1>2, <1>3, <1>4

\* The account of a history and the answer about it never change hands, by whatever
\* order of scans, sign-ins and questions, and whatever the ledger holds: a scan
\* binds a history only while it has no account, and the answer is given once, or
\* again by the account that declined.
THEOREM LinkStands == HistorySpec => LinkIsKept
  <1>1. ASSUME HistoryInit
        PROVE  Answer
    <2>1. meta = [subject |-> Nobody, decision |-> "", who |-> Nobody]
      BY <1>1 DEF HistoryInit
    <2> QED BY <2>1 DEF Answer
  <1>2. Answer /\ [HistoryNext]_historyVars => Answer'
    BY StepKeeps
  <1>3. Answer /\ [HistoryNext]_historyVars
          => [/\ meta.subject # Nobody => meta'.subject = meta.subject
              /\ meta.decision # "" => meta'.who = meta.who
              /\ meta.decision = "confirmed" => meta'.decision = "confirmed"]_historyVars
    BY StepKeeps
  <1> QED BY <1>1, <1>2, <1>3, PTL DEF HistorySpec, LinkIsKept

-----------------------------------------------------------------------------
(* The days. *)

\* The rows of a day are of one kind: fetched, cached or retained.
OneKind(counted) == \A r, q \in counted : r.day = q.day => r.kind = q.kind

Retained(counted) == \A r \in counted : r.kind = "retained"

\* What a scan emits: one kind each day, and no other kinds than these.
Emitted(counted) == OneKind(counted) /\ \A r \in counted : r.kind \in {"fresh", "cached", "retained"}

LEMMA MergedOnce ==
    ASSUME NEW counted, OneKind(counted), NEW r \in CanonicalRows(counted), NEW q \in CanonicalRows(counted),
           r.day = q.day
    PROVE  r = q
  <1> DEFINE Largest(p) == Max({x.n : x \in {y \in counted : y.day = p.day /\ y.kind = p.kind}})
  <1>1. PICK a \in counted : r = [day |-> a.day, n |-> Largest(a), kind |-> a.kind]
    BY DEF CanonicalRows, DayRow
  <1>2. PICK b \in counted : q = [day |-> b.day, n |-> Largest(b), kind |-> b.kind]
    BY DEF CanonicalRows, DayRow
  <1>3. a.day = b.day
    BY <1>1, <1>2
  <1>4. a.kind = b.kind
    BY <1>3 DEF OneKind
  <1>5. Largest(a) = Largest(b)
    BY <1>3, <1>4
  <1> QED BY <1>1, <1>2, <1>3, <1>4, <1>5

LEMMA ChainIsRetained ==
    ASSUME NEW table, NEW ns
    PROVE  Retained(ChainedRetained(table, ns))
  BY DEF ChainedRetained, Retained, DayRow

\* A scan whose account was not read has only what the ledger retained.
LEMMA NoAccountRows ==
    ASSUME NEW counted, Emitted(counted), AccountRows(counted) = {}
    PROVE  Retained(counted)
  BY DEF Emitted, AccountRows, Retained

LEMMA RetainedTogether ==
    ASSUME NEW counted, NEW more, Retained(counted), Retained(more)
    PROVE  Retained(counted \cup more) /\ Emitted(counted \cup more)
  BY DEF Retained, Emitted, OneKind

\* Days of the ledger beside days that were fetched: none of them is both.
LEMMA OtherDays ==
    ASSUME NEW counted, Emitted(counted), NEW more, Emitted(more),
           \A r \in more : r.day \notin DaysOf(counted)
    PROVE  Emitted(counted \cup more)
  BY DEF Emitted, OneKind, DaysOf

LEMMA FetchedIsFresh ==
    ASSUME NEW asked, NEW protect, NEW outcome, NEW r \in AccountUsage(asked, protect, outcome).rows
    PROVE  r.kind = "fresh"
  <1> DEFINE got == Fetch(asked, protect, outcome)
             counted == {FreshRow(d, usage[signed][d]) : d \in got.days}
  <1>1. AccountUsage(asked, protect, outcome).rows = {}
        \/ (\E n : AccountUsage(asked, protect, outcome).rows = {FreshRow(today, n)})
        \/ AccountUsage(asked, protect, outcome).rows = counted
    BY DEF AccountUsage
  <1> HIDE DEF got
  <1> QED BY <1>1 DEF FreshRow, DayRow

LEMMA SupplementRows ==
    ASSUME NEW table, NEW ns, NEW lookback, NEW fetched, NEW counted
    PROVE  /\ Emitted(AccountSupplement(table, ns, lookback, fetched, counted))
           /\ \A r \in AccountSupplement(table, ns, lookback, fetched, counted) : r.day \notin DaysOf(counted)
  <1> DEFINE map == chainDayMap(table, ns)
             Finished(d) == lookback.from <= d /\ d <= lookback.to /\ Inside(d, Windows(table, ns))
             Days0 == {e \in DOMAIN map : e \notin DaysOf(counted) /\ ~Inside(e, fetched)}
  <1>1. AccountSupplement(table, ns, lookback, fetched, counted)
          = {DayRow(d, map[d], IF Finished(d) THEN "cached" ELSE "retained") : d \in Days0}
    BY DEF AccountSupplement
  <1> HIDE DEF map, Finished
  <1> QED BY <1>1 DEF Emitted, OneKind, DayRow

LEMMA ScanEmits ==
    ASSUME NEW outcome
    PROVE  Emitted(ScanOf(outcome).rows)
  <1> DEFINE who == AcceptSubject(Sub(signed))
             lookback == [from |-> Max({1, today - Lookback}), to |-> today]
             got == IF outcome.net /\ who.error = "" THEN AccountUsage(WindowsToAsk, Protect, outcome)
                    ELSE [rows |-> {}, windows |-> <<>>, error |-> IF outcome.net THEN who.error ELSE ""]
             noted == FoldLeft(LAMBDA table, w : NoteCoveredWindow(table, who.ns, w, got.rows), obs, got.windows)
             more == AccountSupplement(noted, who.ns, lookback, ToSet(got.windows), got.rows)
  <1>1. ScanOf(outcome).rows = IF got.windows = <<>> THEN got.rows ELSE got.rows \cup more
    BY Zenon DEF ScanOf
  <1>2. \A r \in got.rows : r.kind = "fresh"
    BY FetchedIsFresh
  <1>3. Emitted(more) /\ \A r \in more : r.day \notin DaysOf(got.rows)
    BY SupplementRows
  <1> HIDE DEF got, more
  <1>4. Emitted(got.rows)
    BY <1>2 DEF Emitted, OneKind
  <1>5. Emitted(got.rows \cup more)
    BY <1>3, <1>4, OtherDays
  <1> QED BY <1>1, <1>4, <1>5

\* A report adds the chain only to a scan that read nothing of the account.
LEMMA ReportEmits ==
    ASSUME NEW outcome
    PROVE  Emitted(ReportRows(ScanOf(outcome)))
  <1> DEFINE scan == ScanOf(outcome)
  <1>1. Emitted(scan.rows)
    BY ScanEmits
  <1>2. Retained(ChainedRetained(scan.table, Chain))
    BY ChainIsRetained
  <1>3. AccountRows(scan.rows) = {} => Emitted(scan.rows \cup ChainedRetained(scan.table, Chain))
    BY <1>1, <1>2, NoAccountRows, RetainedTogether
  <1> HIDE DEF scan
  <1>4. Emitted(ReportRows(scan))
    BY <1>1, <1>3 DEF ReportRows
  <1> QED BY <1>4 DEF scan

LEMMA NarrowEmits ==
    ASSUME NEW table, NEW counted, Emitted(counted), NEW noted
    PROVE  Emitted(SupplementNarrowWindow(table, counted, noted))
  <1> DEFINE map == DayMapWithout(table, Chain, noted)
             first == Min(DaysOf(AccountRows(counted)))
             more == {DayRow(d, map[d], "retained") : d \in {e \in DOMAIN map : e < first /\ e \notin DaysOf(counted)}}
  <1>1. SupplementNarrowWindow(table, counted, noted) = IF AccountRows(counted) = {} THEN counted ELSE counted \cup more
    BY Zenon DEF SupplementNarrowWindow
  <1> HIDE DEF map, first
  <1>2. Emitted(more) /\ \A r \in more : r.day \notin DaysOf(counted)
    BY DEF Emitted, OneKind, DayRow
  <1> HIDE DEF more
  <1>3. Emitted(counted \cup more)
    BY <1>2, OtherDays
  <1> QED BY <1>1, <1>3

LEMMA RefreshEmits ==
    ASSUME NEW outcome
    PROVE  /\ Emitted(RefreshRows(ScanOf(outcome)))
           /\ AccountRows(RefreshRows(ScanOf(outcome))) = {} =>
                \A table : Emitted(RefreshRows(ScanOf(outcome)) \cup ChainedRetained(table, Chain))
  <1> DEFINE scan == ScanOf(outcome)
             wide == SupplementNarrowWindow(scan.table, scan.rows, scan.note)
  <1>1. Emitted(wide)
    BY ScanEmits, NarrowEmits
  <1>2. AccountRows(wide) = {} => Emitted(wide \cup ChainedRetained(scan.table, Chain))
    BY <1>1, ChainIsRetained, NoAccountRows, RetainedTogether
  <1>3. RefreshRows(scan) = IF scan.error # "" /\ AccountRows(wide) = {}
                            THEN wide \cup ChainedRetained(scan.table, Chain) ELSE wide
    BY Zenon DEF RefreshRows
  <1> HIDE DEF scan, wide
  <1>4. Emitted(RefreshRows(scan))
    BY <1>1, <1>2, <1>3
  <1>5. ASSUME AccountRows(RefreshRows(scan)) = {}, NEW table
        PROVE  Emitted(RefreshRows(scan) \cup ChainedRetained(table, Chain))
    BY <1>4, <1>5, ChainIsRetained, NoAccountRows, RetainedTogether
  <1> QED BY <1>4, <1>5 DEF scan

\* What is read is merged, and of one kind each day before that.
LEMMA ReadingEmits ==
    ASSUME NEW outcome, Report(ScanOf(outcome)) \/ Refresh(ScanOf(outcome))
    PROVE  \E counted : Emitted(counted) /\ read'.rows = CanonicalRows(counted)
  <1> DEFINE scan == ScanOf(outcome)
  <1>1. ASSUME NEW kind, NEW counted, NEW some, Emitted(counted), ReadRows(kind, counted, some)
        PROVE  \E all : Emitted(all) /\ read'.rows = CanonicalRows(all)
    BY <1>1 DEF ReadRows
  <1>2. CASE Report(scan)
    BY <1>1, <1>2, ReportEmits DEF Report
  <1>3. CASE Refresh(scan)
    <2> DEFINE counted == RefreshRows(scan)
               seeded == insertObservation(scan.table, Seed)
    <2>1. Emitted(counted) /\ (AccountRows(counted) = {} => Emitted(counted \cup ChainedRetained(seeded, Chain)))
      BY RefreshEmits
    <2>2. \/ ReadRows("refresh", counted, scan)
          \/ /\ AccountRows(counted) = {}
             /\ ReadRows("refresh", counted \cup ChainedRetained(seeded, Chain), [scan EXCEPT !.table = seeded])
      BY <1>3, Zenon DEF Refresh
    <2> HIDE DEF counted, seeded, scan
    <2> QED BY <1>1, <2>1, <2>2
  <1> QED BY <1>2, <1>3

\* A day of an account is shown once: whatever months were asked for, answered,
\* missing, cut short or read again, whatever the ledger holds of which source,
\* and whether a report or a refresh shows it.
THEOREM DaysOnce == HistorySpec => []NoDayTwice
  <1>1. ASSUME HistoryInit
        PROVE  NoDayTwice
    <2>1. read = NoRead
      BY <1>1 DEF HistoryInit
    <2> QED BY <2>1 DEF NoRead, NoDayTwice
  <1>2. ASSUME NoDayTwice, [HistoryNext]_historyVars
        PROVE  NoDayTwice'
    <2>1. CASE read' = NoRead
      BY <2>1 DEF NoRead, NoDayTwice
    <2>2. CASE read' = read
      BY <1>2, <2>2 DEF NoDayTwice
    <2>3. CASE Scan
      <3>1. PICK outcome : Report(ScanOf(outcome)) \/ Refresh(ScanOf(outcome))
        BY <2>3 DEF Scan
      <3>2. PICK counted : Emitted(counted) /\ read'.rows = CanonicalRows(counted)
        BY <3>1, ReadingEmits
      <3> QED BY <3>2, MergedOnce DEF Emitted, NoDayTwice
    <2> QED BY <1>2, <2>1, <2>2, <2>3 DEF HistoryNext, Spend, NextDay, SignIn, Connect, historyVars
  <1> QED BY <1>1, <1>2, PTL DEF HistorySpec

-----------------------------------------------------------------------------
(* Folds.  No theorem of the libraries on induction can be instantiated with a  *)
(* predicate of ours; what a fold computes follows from its least               *)
(* counterexample instead.                                                      *)

LEMMA LeastNatural ==
    ASSUME NEW T \in SUBSET Nat, T # {}
    PROVE  \E m \in T : \A n \in T : m <= n
  <1>1. PICK m \in T : \A n \in T : ~(<<n, m>> \in OpToRel(<, Nat))
    BY NatLessThanWellFounded, WFMin
  <1>2. \A n \in T : ~(n < m)
    BY <1>1 DEF OpToRel
  <1> QED BY <1>2

\* Induction up to n, for a set of numbers.
LEMMA CountUp ==
    ASSUME NEW n \in Nat, NEW S, 0 \in S, \A k \in 1..n : k - 1 \in S => k \in S
    PROVE  \A k \in 0..n : k \in S
  <1> DEFINE Missing == {k \in 0..n : k \notin S}
  <1>1. SUFFICES ASSUME Missing # {}
                 PROVE  FALSE
    OBVIOUS
  <1>2. Missing \subseteq Nat
    OBVIOUS
  <1>3. PICK k \in Missing : \A j \in Missing : k <= j
    <2> HIDE DEF Missing
    <2> QED BY <1>1, <1>2, LeastNatural
  <1>4. \A j \in Missing : ~ (j < k)
    BY <1>2, <1>3
  <1>5. k # 0 /\ k - 1 \in 0..n /\ k - 1 < k
    BY <1>3
  <1>6. k - 1 \in S
    BY <1>4, <1>5
  <1> QED BY <1>3, <1>5, <1>6

\* Induction over the subsets of a finite set, for a set of them.
LEMMA SubsetsUp ==
    ASSUME NEW S, IsFiniteSet(S), NEW G,
           \A T \in SUBSET S : (\A x \in T : T \ {x} \in G) => T \in G
    PROVE  \A T \in SUBSET S : T \in G
  <1> DEFINE Bad == {n \in Nat : \E T \in SUBSET S : T \notin G /\ Cardinality(T) = n}
  <1> SUFFICES ASSUME NEW T \in SUBSET S, T \notin G
               PROVE  FALSE
    OBVIOUS
  <1>1. \A U \in SUBSET S : IsFiniteSet(U) /\ Cardinality(U) \in Nat
    BY FS_Subset, FS_CardinalityType
  <1>2. PICK n \in Bad : \A k \in Bad : n <= k
    <2>1. Cardinality(T) \in Bad /\ Bad \in SUBSET Nat
      BY <1>1
    <2> HIDE DEF Bad
    <2> QED BY <2>1, LeastNatural
  <1>3. n \in Nat /\ \E U \in SUBSET S : U \notin G /\ Cardinality(U) = n
    OBVIOUS
  <1>4. \A k \in Nat : k < n => \A U \in SUBSET S : Cardinality(U) = k => U \in G
    <2>1. \A k \in Nat : k \notin Bad => \A U \in SUBSET S : Cardinality(U) = k => U \in G
      OBVIOUS
    <2>2. \A k \in Nat : k < n => k \notin Bad
      <3> HIDE DEF Bad
      <3> QED BY <1>2, <1>3
    <2> QED BY <2>1, <2>2
  <1> HIDE DEF Bad
  <1>5. PICK U \in SUBSET S : U \notin G /\ Cardinality(U) = n
    BY <1>3
  <1>6. ASSUME NEW x \in U
        PROVE  U \ {x} \in G
    <2>1. Cardinality(U \ {x}) = n - 1 /\ Cardinality(U \ {x}) \in Nat /\ U \ {x} \in SUBSET S
      BY <1>1, <1>5, FS_RemoveElement
    <2>2. n - 1 \in Nat /\ n - 1 < n
      BY <1>3, <2>1
    <2> QED BY <1>4, <2>1, <2>2
  <1> QED BY <1>5, <1>6

LEMMA SetMax ==
    ASSUME NEW n \in Nat, NEW s \in SUBSET (0..n), s # {}
    PROVE  Max(s) \in s /\ \A x \in s : x <= Max(s)
  <1> DEFINE Bounds == {b \in Nat : \A x \in s : x <= b}
  <1>1. n \in Bounds
    OBVIOUS
  <1>2. PICK b \in Bounds : \A j \in Bounds : b <= j
    <2> Bounds \in SUBSET Nat
      OBVIOUS
    <2> HIDE DEF Bounds
    <2> QED BY <1>1, LeastNatural
  <1>3. \A j \in Bounds : ~ (j < b)
    BY <1>2
  <1>4. b \in s
    <2>1. CASE b = 0
      <3>1. PICK x : x \in s
        OBVIOUS
      <3>2. x \in Nat /\ x <= 0
        BY <1>2, <2>1, <3>1
      <3>3. x = b
        BY <2>1, <3>2
      <3> QED BY <3>1, <3>3
    <2>2. CASE b # 0
      <3>1. b - 1 \in Nat /\ b - 1 < b
        BY <1>2, <2>2
      <3>2. b - 1 \notin Bounds
        BY <1>3, <3>1
      <3>3. PICK x \in s : ~ (x <= b - 1)
        BY <3>1, <3>2
      <3> QED BY <1>2, <3>1, <3>3
    <2> QED BY <2>1, <2>2
  <1>5. \E x \in s : \A y \in s : x >= y
    BY <1>2, <1>4
  <1>6. Max(s) \in s /\ \A y \in s : Max(s) >= y
    BY <1>5 DEF Max
  <1> QED BY <1>6

-----------------------------------------------------------------------------
\* A choice of one element from each part of a set.
Picks(pick, S) == \A s \in SUBSET S : s # {} => pick[s] \in s

\* A fold of step over every subset of S.
TheFold(g, S, A, base, step, pick) ==
    /\ g \in [SUBSET S -> A]
    /\ g = [s \in SUBSET S |-> IF s = {} THEN base ELSE step[pick[s]][g[s \ {pick[s]}]]]

LEMMA FoldExists ==
    ASSUME NEW S, IsFiniteSet(S), NEW A, NEW base \in A, NEW step \in [S -> [A -> A]],
           NEW pick, Picks(pick, S)
    PROVE  \E g : TheFold(g, S, A, base, step, pick)
  <1> DEFINE Upto(m) == {s \in SUBSET S : Cardinality(s) <= m}
             Is(g, m) == /\ g \in [Upto(m) -> A]
                         /\ \A s \in Upto(m) : g[s] = IF s = {} THEN base ELSE step[pick[s]][g[s \ {pick[s]}]]
             n == Cardinality(S)
             Good == {m \in 0..n : \E g : Is(g, m)}
  <1>1. \A s \in SUBSET S : /\ IsFiniteSet(s) /\ Cardinality(s) \in Nat /\ Cardinality(s) <= n
                            /\ Cardinality(s) = 0 <=> s = {}
    BY FS_Subset, FS_CardinalityType, FS_EmptySet
  <1>2. n \in Nat
    BY FS_CardinalityType
  <1>3. \A s \in SUBSET S : s # {} =>
           /\ pick[s] \in s /\ s \ {pick[s]} \in SUBSET S
           /\ Cardinality(s \ {pick[s]}) = Cardinality(s) - 1
    BY <1>1, FS_RemoveElement DEF Picks
  <1>4. 0 \in Good
    <2>1. \A s \in Upto(0) : s = {}
      BY <1>1
    <2>2. Is([s \in Upto(0) |-> base], 0)
      BY <2>1
    <2>3. \E g : Is(g, 0)
      BY <2>2, Zenon
    <2> HIDE DEF Is
    <2> QED BY <1>2, <2>3
  <1>5. ASSUME NEW m \in 1..n, m - 1 \in Good
        PROVE  m \in Good
    <2>1. PICK g : Is(g, m - 1)
      BY <1>5
    <2> DEFINE Step(s) == IF s = {} THEN base ELSE step[pick[s]][g[s \ {pick[s]}]]
               h == [s \in Upto(m) |-> Step(s)]
    <2>2. \A s \in Upto(m) : s # {} => s \ {pick[s]} \in Upto(m - 1) /\ s \ {pick[s]} \in Upto(m)
      <3> SUFFICES ASSUME NEW s \in SUBSET S, Cardinality(s) <= m, s # {}
                   PROVE  /\ s \ {pick[s]} \in SUBSET S
                          /\ Cardinality(s \ {pick[s]}) <= m - 1 /\ Cardinality(s \ {pick[s]}) <= m
        OBVIOUS
      <3>1. s \ {pick[s]} \in SUBSET S /\ Cardinality(s \ {pick[s]}) = Cardinality(s) - 1 /\ Cardinality(s) \in Nat
        BY <1>1, <1>3
      <3> QED BY <3>1, m \in Int
    <2>3. \A s \in Upto(m - 1) : s \in Upto(m) /\ g[s] = Step(s)
      <3>1. \A s \in Upto(m - 1) : g[s] = Step(s)
        BY <2>1
      <3>2. \A s \in Upto(m - 1) : s \in Upto(m)
        BY <1>1, m \in Int
      <3> QED BY <3>1, <3>2
    <2>4. \A s \in Upto(m) : s # {} => pick[s] \in S /\ g[s \ {pick[s]}] \in A
      BY <1>3, <2>1, <2>2
    <2>5. h \in [Upto(m) -> A]
      <3>1. \A s \in Upto(m) : Step(s) \in A
        BY <2>4
      <3> HIDE DEF Step
      <3> QED BY <3>1
    <2>6. ASSUME NEW s \in Upto(m)
          PROVE  h[s] = IF s = {} THEN base ELSE step[pick[s]][h[s \ {pick[s]}]]
      <3>1. CASE s = {}
        BY <3>1
      <3>2. CASE s # {}
        <4>1. h[s \ {pick[s]}] = Step(s \ {pick[s]})
          BY <2>2, <3>2
        <4>2. h[s \ {pick[s]}] = g[s \ {pick[s]}]
          BY <2>2, <2>3, <3>2, <4>1
        <4>3. h[s] = step[pick[s]][g[s \ {pick[s]}]]
          BY <3>2
        <4> QED BY <3>2, <4>2, <4>3
      <3> QED BY <3>1, <3>2
    <2>7. Is(h, m)
      <3> HIDE DEF h
      <3> QED BY <2>5, <2>6
    <2>8. \E f : Is(f, m)
      BY <2>7, Zenon
    <2> HIDE DEF Is
    <2> QED BY <1>2, <2>8
  <1>6. n \in Good
    <2> HIDE DEF Good
    <2>1. \A k \in 0..n : k \in Good
      BY <1>2, <1>4, <1>5, CountUp
    <2> QED BY <1>2, <2>1
  <1>7. PICK g : Is(g, n)
    BY <1>6
  <1>8. Upto(n) = SUBSET S
    BY <1>1
  <1>9. TheFold(g, S, A, base, step, pick)
    <2>1. g \in [SUBSET S -> A]
      BY <1>7, <1>8
    <2>2. \A s \in SUBSET S : g[s] = IF s = {} THEN base ELSE step[pick[s]][g[s \ {pick[s]}]]
      BY <1>7, <1>8
    <2> QED BY <2>1, <2>2 DEF TheFold
  <1> QED BY <1>9

\* h is a fold of step over the subsets of S as far as its values are in A.
Folds(h, S, A, base, step, pick) ==
    /\ h[{}] = base
    /\ \A s \in SUBSET S : s # {} /\ h[s \ {pick[s]}] \in A => h[s] = step[pick[s]][h[s \ {pick[s]}]]

LEMMA FoldTyped ==
    ASSUME NEW S, IsFiniteSet(S), NEW A, NEW base \in A, NEW step \in [S -> [A -> A]],
           NEW pick, Picks(pick, S), NEW h, Folds(h, S, A, base, step, pick)
    PROVE  \A s \in SUBSET S : h[s] \in A
  <1> USE DEF Folds
  <1> DEFINE G == {s \in SUBSET S : h[s] \in A}
  <1>1. ASSUME NEW s \in SUBSET S, \A x \in s : s \ {x} \in G
        PROVE  s \in G
    <2>1. CASE s = {}
      BY <2>1
    <2>2. CASE s # {}
      <3>1. pick[s] \in s /\ pick[s] \in S
        BY <2>2 DEF Picks
      <3>2. h[s \ {pick[s]}] \in A
        BY <1>1, <3>1
      <3>3. h[s] = step[pick[s]][h[s \ {pick[s]}]]
        BY <2>2, <3>2
      <3>4. step[pick[s]] \in [A -> A]
        BY <3>1
      <3>5. step[pick[s]][h[s \ {pick[s]}]] \in A
        BY <3>2, <3>4
      <3> QED BY <3>3, <3>5
    <2> QED BY <2>1, <2>2
  <1>2. \A s \in SUBSET S : s \in G
    <2> HIDE DEF G
    <2>1. \A s \in SUBSET S : (\A x \in s : s \ {x} \in G) => s \in G
      BY <1>1
    <2> QED BY <2>1, SubsetsUp, Zenon
  <1> QED BY <1>2

-----------------------------------------------------------------------------
\* A fold over a sequence goes along its prefixes.
LEMMA SeqMax ==
    ASSUME NEW n \in Nat
    PROVE  /\ IsFiniteSet(1..n)
           /\ \A s \in SUBSET (1..n) : s # {} => Max(s) \in s
           /\ \A k \in 1..n : /\ 1..k \in SUBSET (1..n) /\ 1..k # {} /\ Max(1..k) = k
                             /\ (1..k) \ {k} = 1..(k - 1) /\ 1..(k - 1) \in SUBSET (1..n)
  <1>1. IsFiniteSet(1..n)
    BY FS_Interval
  <1>2. \A s \in SUBSET (1..n) : s \in SUBSET (0..n)
    OBVIOUS
  <1>3. \A s \in SUBSET (1..n) : s # {} => Max(s) \in s
    BY <1>2, SetMax
  <1>4. ASSUME NEW k \in 1..n
        PROVE  /\ 1..k \in SUBSET (1..n) /\ 1..k # {} /\ Max(1..k) = k
               /\ (1..k) \ {k} = 1..(k - 1) /\ 1..(k - 1) \in SUBSET (1..n)
    <2>1. /\ \A i \in 1..k : i \in 1..n
          /\ \A i \in 1..(k - 1) : i \in 1..n
          /\ k \in 1..k
      OBVIOUS
    <2>2. 1..k \in SUBSET (1..n) /\ 1..(k - 1) \in SUBSET (1..n) /\ 1..k # {}
      BY <2>1, Zenon
    <2>3. Max(1..k) \in 1..k /\ \A x \in 1..k : x <= Max(1..k)
      BY <1>2, <2>2, SetMax
    <2>4. Max(1..k) = k
      BY <2>1, <2>3
    <2>5. (1..k) \ {k} = 1..(k - 1)
      OBVIOUS
    <2> QED BY <2>2, <2>4, <2>5
  <1> QED BY <1>1, <1>3, <1>4

\* h folds step over n elements as far as its values are in A.
Follows(h, n, A, base, step) ==
    /\ h[{}] = base
    /\ \A s \in SUBSET (1..n) : s # {} /\ h[s \ {Max(s)}] \in A => h[s] = step[Max(s)][h[s \ {Max(s)}]]

\* What has been computed after each of n elements.
Trace(r, n, A, base, step) ==
    r \in [0..n -> A] /\ r[0] = base /\ \A k \in 1..n : r[k] = step[k][r[k - 1]]

LEMMA FoldTrace ==
    ASSUME NEW n \in Nat, NEW A, NEW base \in A, NEW step \in [1..n -> [A -> A]],
           NEW h, Follows(h, n, A, base, step)
    PROVE  \E r : Trace(r, n, A, base, step) /\ h[1..n] = r[n]
  <1> USE DEF Follows
  <1> DEFINE pick == [s \in SUBSET (1..n) |-> Max(s)]
             r == [k \in 0..n |-> h[1..k]]
  <1>1. Picks(pick, 1..n)
    BY SeqMax DEF Picks
  <1>2. Folds(h, 1..n, A, base, step, pick)
    BY DEF Folds
  <1>3. \A s \in SUBSET (1..n) : h[s] \in A
    <2> HIDE DEF pick
    <2>1. IsFiniteSet(1..n)
      BY SeqMax
    <2> QED BY <1>1, <1>2, <2>1, FoldTyped, Zenon
  <1>4. \A k \in 0..n : 1..k \in SUBSET (1..n) /\ (k = 0 => 1..k = {})
    <2>1. 1..0 = {}
      OBVIOUS
    <2>2. \A k \in 0..n : k = 0 \/ k \in 1..n
      OBVIOUS
    <2> QED BY <2>1, <2>2, SeqMax
  <1>5. r \in [0..n -> A]
    BY <1>3, <1>4
  <1>6. r[0] = base /\ r[n] = h[1..n]
    <2>1. 0 \in 0..n /\ n \in 0..n
      OBVIOUS
    <2> QED BY <1>4, <2>1
  <1>7. ASSUME NEW k \in 1..n
        PROVE  r[k] = step[k][r[k - 1]]
    <2>1. k \in 0..n /\ k - 1 \in 0..n
      OBVIOUS
    <2>2. /\ 1..k \in SUBSET (1..n) /\ 1..k # {} /\ Max(1..k) = k
          /\ (1..k) \ {k} = 1..(k - 1) /\ 1..(k - 1) \in SUBSET (1..n)
      BY SeqMax
    <2>3. h[(1..k) \ {Max(1..k)}] = h[1..(k - 1)] /\ h[1..(k - 1)] \in A
      BY <1>3, <2>2
    <2>4. h[1..k] = step[Max(1..k)][h[(1..k) \ {Max(1..k)}]]
      BY <2>2, <2>3, Zenon
    <2>5. h[1..k] = step[k][h[1..(k - 1)]]
      BY <2>2, <2>3, <2>4
    <2> QED BY <2>1, <2>5
  <1>8. Trace(r, n, A, base, step)
    <2> HIDE DEF r
    <2> QED BY <1>5, <1>6, <1>7 DEF Trace
  <1> QED BY <1>6, <1>8

\* A step that stays in A has a fold.
Unfolds(g, n, A, base, step) ==
    /\ g = [s \in SUBSET (1..n) |-> IF s = {} THEN base ELSE step[Max(s)][g[s \ {Max(s)}]]]
    /\ \A s \in SUBSET (1..n) : s # {} => Max(s) \in 1..n /\ g[s \ {Max(s)}] \in A

LEMMA FoldFound ==
    ASSUME NEW n \in Nat, NEW A, NEW base \in A, NEW step \in [1..n -> [A -> A]]
    PROVE  \E g : Unfolds(g, n, A, base, step)
  <1> DEFINE pick == [s \in SUBSET (1..n) |-> Max(s)]
  <1>1. Picks(pick, 1..n) /\ IsFiniteSet(1..n)
    BY SeqMax DEF Picks
  <1>2. PICK g : TheFold(g, 1..n, A, base, step, pick)
    <2> HIDE DEF pick
    <2> QED BY <1>1, FoldExists
  <1>3. \A s \in SUBSET (1..n) : s # {} => Max(s) \in 1..n /\ g[s \ {Max(s)}] \in A
    BY <1>1, <1>2 DEF Picks, TheFold
  <1>4. g = [s \in SUBSET (1..n) |-> IF s = {} THEN base ELSE step[Max(s)][g[s \ {Max(s)}]]]
    BY <1>2 DEF TheFold
  <1> QED BY <1>3, <1>4 DEF Unfolds

-----------------------------------------------------------------------------
(* The figures of this machine: what its merged lines make of its days. *)

LEMMA SatInt == \A x, y \in Int : satAdd(x, y) \in Int
  BY MetricsAssumption DEF satAdd, MetricsAssumption

\* A tally goes over the components, one chosen component after the other.
TallySteps(h, tok) ==
    \A s \in SUBSET Components :
      h[s] = IF s = {} THEN 0
             ELSE satAdd(tok[CHOOSE x \in s : TRUE], h[s \ {CHOOSE x \in s : TRUE}])

LEMMA TallyFold ==
    ASSUME NEW tok \in [Components -> Int]
    PROVE  \E h : /\ Tally(tok) = h[Components] /\ h[Components] \in Int
                  /\ TallySteps(h, tok)
  <1> DEFINE Step(g) == [s \in SUBSET Components |->
                            IF s = {} THEN 0
                            ELSE satAdd(tok[CHOOSE x \in s : TRUE], g[s \ {CHOOSE x \in s : TRUE}])]
             h == CHOOSE g : g = Step(g)
             pick == [s \in SUBSET Components |-> CHOOSE x \in s : TRUE]
             step == [c \in Components |-> [x \in Int |-> satAdd(tok[c], x)]]
  <1>1. Tally(tok) = h[Components]
    <2>1. DOMAIN tok = Components
      OBVIOUS
    <2>2. Tally(tok) = FoldFunctionOnSet(satAdd, 0, tok, Components)
      BY <2>1 DEF Tally, FoldFunction
    <2> QED BY <2>2 DEF FoldFunctionOnSet, MapThenFoldSet
  <1>2. Picks(pick, Components)
    BY DEF Picks
  <1>3. step \in [Components -> [Int -> Int]]
    BY SatInt
  <1>4. h = Step(h)
    <2>1. PICK g : TheFold(g, Components, Int, 0, step, pick)
      <3> HIDE DEF pick, step
      <3>1. IsFiniteSet(Components) /\ 0 \in Int
        BY MetricsAssumption DEF MetricsAssumption
      <3> QED BY <1>2, <1>3, <3>1, FoldExists
    <2>2. ASSUME NEW s \in SUBSET Components, s # {}
          PROVE  step[pick[s]][g[s \ {pick[s]}]] = satAdd(tok[pick[s]], g[s \ {pick[s]}])
      <3>1. pick[s] \in Components /\ g[s \ {pick[s]}] \in Int
        BY <1>2, <2>1, <2>2 DEF Picks, TheFold
      <3> HIDE DEF pick
      <3> QED BY <3>1
    <2>3. g = [s \in SUBSET Components |-> IF s = {} THEN 0 ELSE satAdd(tok[pick[s]], g[s \ {pick[s]}])]
      <3> HIDE DEF pick, step
      <3> QED BY <2>1, <2>2, Zenon DEF TheFold
    <2>4. g = Step(g)
      BY <2>3
    <2> QED BY <2>4
  <1>5. Folds(h, Components, Int, 0, step, pick)
    <2> HIDE DEF h
    <2> QED BY <1>2, <1>4 DEF Folds, Picks
  <1>6. \A s \in SUBSET Components : h[s] \in Int
    <2> HIDE DEF pick, step, h
    <2> QED BY <1>2, <1>3, <1>5, 0 \in Int, FoldTyped, MetricsAssumption DEF MetricsAssumption
  <1> HIDE DEF h
  <1>7. TallySteps(h, tok)
    BY <1>4, Zenon DEF TallySteps
  <1> QED BY <1>1, <1>6, <1>7

LEMMA TallyInt ==
    ASSUME NEW tok \in [Components -> Int]
    PROVE  Tally(tok) \in Int
  BY TallyFold

-----------------------------------------------------------------------------
\* The request ids of this machine's log lines.
OwnIds == {<<n>> : n \in Nat}

\* A log line with one of some times.
NoDeriv == ""

LineSet(ats) ==
    [src : Agents, req : OwnIds, session : {NoId}, at : ats, tok : [Components -> Nat],
     quality : {"authoritative", "degraded"}, deriv : {NoDeriv}, skip : BOOLEAN]

LEMMA LargerLine ==
    ASSUME NEW ats \in SUBSET Nat, NEW a \in LineSet(ats), NEW b \in LineSet(ats)
    PROVE  maxEvent(a, b) \in LineSet(ats)
  <1> DEFINE tok == [c \in Components |-> IF b.tok[c] > a.tok[c] THEN b.tok[c] ELSE a.tok[c]]
             quality == WorseQuality(a.quality, b.quality)
             at == IF b.at > a.at THEN b.at ELSE a.at
  <1>1. tok \in [Components -> Nat] /\ at \in ats
    BY DEF LineSet
  <1>2. quality \in {"authoritative", "degraded"}
    BY DEF LineSet, WorseQuality
  <1>3. maxEvent(a, b) = [a EXCEPT !.tok = tok, !.quality = quality, !.at = at]
    BY DEF maxEvent
  <1> HIDE DEF tok, quality, at
  <1> QED BY <1>1, <1>2, <1>3 DEF LineSet

LEMMA MergedLine ==
    ASSUME NEW ats \in SUBSET Nat, NEW out \in Seq(LineSet(ats)), NEW row \in LineSet(ats)
    PROVE  MergeRow(out, row) \in Seq(LineSet(ats))
  <1> DEFINE same == SameRequest(out, row)
  <1>1. \/ MergeRow(out, row) = out
        \/ MergeRow(out, row) = Append(out, row)
        \/ MergeRow(out, row) = [i \in DOMAIN out |-> IF i \in same THEN maxEvent(out[i], row) ELSE out[i]]
    BY DEF MergeRow
  <1>2. \A i \in DOMAIN out : out[i] \in LineSet(ats) /\ maxEvent(out[i], row) \in LineSet(ats)
    BY LargerLine
  <1> HIDE DEF same
  <1>3. [i \in DOMAIN out |-> IF i \in same THEN maxEvent(out[i], row) ELSE out[i]] \in Seq(LineSet(ats))
    <2> DEFINE list == [i \in DOMAIN out |-> IF i \in same THEN maxEvent(out[i], row) ELSE out[i]]
    <2>1. DOMAIN out = 1..Len(out) /\ Len(out) \in Nat
      OBVIOUS
    <2>2. list \in [1..Len(out) -> LineSet(ats)]
      BY <1>2, <2>1
    <2> HIDE DEF list
    <2>3. list \in Seq(LineSet(ats))
      BY <2>1, <2>2, IsASeq
    <2> QED BY <2>3 DEF list
  <1> QED BY <1>1, <1>3

LEMMA MergedLines ==
    ASSUME NEW ats \in SUBSET Nat, NEW list \in Seq(LineSet(ats))
    PROVE  mergeByRequest(list) \in Seq(LineSet(ats))
  <1> DEFINE n == Len(list)
             A == Seq(LineSet(ats))
             Step(g) == [s \in SUBSET (1..n) |->
                            IF s = {} THEN <<>> ELSE MergeRow(g[s \ {Max(s)}], list[Max(s)])]
             h == CHOOSE g : g = Step(g)
             pick == [s \in SUBSET (1..n) |-> Max(s)]
             step == [i \in 1..n |-> [out \in A |-> MergeRow(out, list[i])]]
  <1>1. mergeByRequest(list) = h[1..n]
    <2>1. DOMAIN list = 1..n
      OBVIOUS
    <2> QED BY <2>1 DEF mergeByRequest, FoldLeft, MapThenFoldSet
  <1>2. Picks(pick, 1..n) /\ IsFiniteSet(1..n) /\ <<>> \in A
    BY SeqMax DEF Picks
  <1>3. step \in [1..n -> [A -> A]]
    BY MergedLine
  <1>4. h = Step(h)
    <2>1. PICK g : TheFold(g, 1..n, A, <<>>, step, pick)
      <3> HIDE DEF pick, step, A, n
      <3> QED BY <1>2, <1>3, FoldExists
    <2>2. ASSUME NEW s \in SUBSET (1..n), s # {}
          PROVE  step[pick[s]][g[s \ {pick[s]}]] = MergeRow(g[s \ {pick[s]}], list[pick[s]])
      <3>1. pick[s] \in 1..n /\ g[s \ {pick[s]}] \in A
        BY <1>2, <2>1, <2>2 DEF Picks, TheFold
      <3> HIDE DEF pick, A, n
      <3> QED BY <3>1
    <2>3. g = [s \in SUBSET (1..n) |-> IF s = {} THEN <<>> ELSE MergeRow(g[s \ {pick[s]}], list[pick[s]])]
      <3> HIDE DEF pick, step, A, n
      <3> QED BY <2>1, <2>2, Zenon DEF TheFold
    <2>4. g = Step(g)
      BY <2>3
    <2> QED BY <2>4
  <1>5. Folds(h, 1..n, A, <<>>, step, pick)
    <2> HIDE DEF h
    <2> QED BY <1>2, <1>4 DEF Folds, Picks
  <1>6. \A s \in SUBSET (1..n) : h[s] \in A
    <2> HIDE DEF pick, step, h, A, n
    <2> QED BY <1>2, <1>3, <1>5, FoldTyped
  <1> QED BY <1>1, <1>6

-----------------------------------------------------------------------------
\* Days with their tokens.
Tables(D) == UNION {[E -> Int] : E \in SUBSET D}

WithDay(days, d, n) == [e \in DOMAIN days \cup {d} |-> IF e = d THEN n ELSE days[e]]
AddDayOf(days, r) ==
    IF r.at = NoTime \/ Tally(r.tok) = 0 THEN days
    ELSE WithDay(days, DayOf(r.at), satAdd(UsedOn(days, DayOf(r.at)), Tally(r.tok)))

LEMMA LineParts ==
    ASSUME NEW ats, NEW r \in LineSet(ats)
    PROVE  r.at \in ats /\ r.tok \in [Components -> Nat]
  BY DEF LineSet

LEMMA AddedUse ==
    ASSUME NEW D, NEW days \in Tables(D), NEW d, NEW tally \in Int
    PROVE  satAdd(UsedOn(days, d), tally) \in Int
  <1>1. PICK E \in SUBSET D : days \in [E -> Int]
    BY DEF Tables
  <1>2. UsedOn(days, d) \in Int
    BY <1>1 DEF UsedOn
  <1> QED BY <1>2, SatInt

LEMMA AddedDay ==
    ASSUME NEW ats \in SUBSET Nat, NEW D, \A at \in ats : DayOf(at) \in D,
           NEW days \in Tables(D), NEW r \in LineSet(ats)
    PROVE  AddDayOf(days, r) \in Tables(D)
  <1>1. r.at \in ats /\ r.tok \in [Components -> Nat]
    BY LineParts
  <1> DEFINE d == DayOf(r.at)
             n == satAdd(UsedOn(days, d), Tally(r.tok))
  <1>2. d \in D /\ r.tok \in [Components -> Int]
    <2>1. d \in D
      BY <1>1
    <2>2. \A c \in Components : r.tok[c] \in Int
      BY <1>1
    <2> QED BY <1>1, <2>1, <2>2
  <1>3. Tally(r.tok) \in Int
    BY <1>2, TallyInt
  <1>4. PICK E \in SUBSET D : days \in [E -> Int]
    BY DEF Tables
  <1>5. n \in Int
    BY <1>3, AddedUse
  <1>6. AddDayOf(days, r) = days \/ AddDayOf(days, r) = WithDay(days, d, n)
    BY DEF AddDayOf
  <1> HIDE DEF d, n
  <1>7. WithDay(days, d, n) \in [E \cup {d} -> Int] /\ E \cup {d} \in SUBSET D
    BY <1>2, <1>4, <1>5 DEF WithDay
  <1>8. WithDay(days, d, n) \in Tables(D)
    BY <1>7 DEF Tables
  <1> QED BY <1>6, <1>8

LEMMA BucketedDays ==
    ASSUME NEW ats \in SUBSET Nat, NEW D, \A at \in ats : DayOf(at) \in D,
           NEW list \in Seq(LineSet(ats))
    PROVE  bucketDays(list) \in Tables(D)
  <1> DEFINE n == Len(list)
             A == Tables(D)
             Step(g) == [s \in SUBSET (1..n) |->
                            IF s = {} THEN <<>> ELSE AddDayOf(g[s \ {Max(s)}], list[Max(s)])]
             h == CHOOSE g : g = Step(g)
             pick == [s \in SUBSET (1..n) |-> Max(s)]
             step == [i \in 1..n |-> [days \in A |-> AddDayOf(days, list[i])]]
  <1>1. bucketDays(list) = h[1..n]
    <2>1. DOMAIN list = 1..n
      OBVIOUS
    <2> QED BY <2>1 DEF bucketDays, FoldLeft, MapThenFoldSet, AddDayOf, WithDay
  <1>2. Picks(pick, 1..n) /\ IsFiniteSet(1..n)
    BY SeqMax DEF Picks
  <1>3. <<>> \in A
    <2>1. <<>> = [x \in {} |-> 0] /\ [x \in {} |-> 0] \in [{} -> Int] /\ {} \in SUBSET D
      OBVIOUS
    <2> QED BY <2>1 DEF Tables
  <1>4. step \in [1..n -> [A -> A]]
    BY AddedDay
  <1>5. h = Step(h)
    <2>1. PICK g : TheFold(g, 1..n, A, <<>>, step, pick)
      <3> HIDE DEF pick, step, A, n
      <3> QED BY <1>2, <1>3, <1>4, FoldExists
    <2>2. ASSUME NEW s \in SUBSET (1..n), s # {}
          PROVE  step[pick[s]][g[s \ {pick[s]}]] = AddDayOf(g[s \ {pick[s]}], list[pick[s]])
      <3>1. pick[s] \in 1..n /\ g[s \ {pick[s]}] \in A
        BY <1>2, <2>1, <2>2 DEF Picks, TheFold
      <3> HIDE DEF pick, A, n
      <3> QED BY <3>1
    <2>3. g = [s \in SUBSET (1..n) |-> IF s = {} THEN <<>> ELSE AddDayOf(g[s \ {pick[s]}], list[pick[s]])]
      <3> HIDE DEF pick, step, A, n
      <3> QED BY <2>1, <2>2, Zenon DEF TheFold
    <2>4. g = Step(g)
      BY <2>3
    <2> QED BY <2>4
  <1>6. Folds(h, 1..n, A, <<>>, step, pick)
    <2> HIDE DEF h
    <2> QED BY <1>2, <1>5 DEF Folds, Picks
  <1>7. \A s \in SUBSET (1..n) : h[s] \in A
    <2> HIDE DEF pick, step, h, A, n
    <2> QED BY <1>2, <1>3, <1>4, <1>6, FoldTyped
  <1> QED BY <1>1, <1>7

-----------------------------------------------------------------------------
(* Streaks. *)

LEMMA TableDays ==
    ASSUME NEW D, NEW days \in Tables(D), NEW d, d \notin D
    PROVE  UsedOn(days, d) = 0
  <1>1. PICK E \in SUBSET D : days \in [E -> Int]
    BY DEF Tables
  <1> QED BY <1>1 DEF UsedOn

\* A run of n used days that ends at anchor.
Run(days, anchor, n) == \A i \in 0..(n - 1) : UsedOn(days, anchor - i) > 0

LEMMA CurrentIsRun ==
    ASSUME NEW days, NEW last, NEW anchor,
           anchor = IF UsedOn(days, last) = 0 THEN last - 1 ELSE last
    PROVE  currentStreak(days, last) = Max({n \in 0..last : Run(days, anchor, n)})
  BY DEF currentStreak, Run

LEMMA StreakStays ==
    ASSUME NEW now \in Nat \ {0}, NEW days \in Tables(1..now), UsedOn(days, now) > 0
    PROVE  currentStreak(days, now + 1) = currentStreak(days, now)
  <1>1. UsedOn(days, 0) = 0 /\ UsedOn(days, now + 1) = 0
    BY TableDays
  <1>2. currentStreak(days, now) = Max({n \in 0..now : Run(days, now, n)})
    <2>1. now = IF UsedOn(days, now) = 0 THEN now - 1 ELSE now
      OBVIOUS
    <2> QED BY <2>1, CurrentIsRun
  <1>3. currentStreak(days, now + 1) = Max({n \in 0..(now + 1) : Run(days, now, n)})
    <2>1. now = IF UsedOn(days, now + 1) = 0 THEN now + 1 - 1 ELSE now + 1
      BY <1>1
    <2> QED BY <2>1, CurrentIsRun
  <1>4. ~Run(days, now, now + 1)
    <2>1. now \in 0..(now + 1 - 1) /\ now - now = 0
      OBVIOUS
    <2> QED BY <1>1, <2>1 DEF Run
  <1>5. {n \in 0..now : Run(days, now, n)} = {n \in 0..(now + 1) : Run(days, now, n)}
    <2>1. \A n \in 0..(now + 1) : Run(days, now, n) => n \in 0..now
      BY <1>4
    <2>2. \A n \in 0..now : n \in 0..(now + 1)
      OBVIOUS
    <2> QED BY <2>1, <2>2
  <1> QED BY <1>2, <1>3, <1>5

LEMMA StreakIsOne ==
    ASSUME NEW last \in Nat \ {0}, NEW days \in Tables(1..(last - 1))
    PROVE  currentStreak(days, last) <= longestStreak(days, last)
  <1> DEFINE all == 1..last
             now == last - 1
             pairs == {q \in all \X all : q[1] <= q[2] /\ \A f \in q[1]..q[2] : UsedOn(days, f) > 0}
             lengths == {0} \cup {p[2] - p[1] + 1 : p \in pairs}
             runs == {n \in 0..last : Run(days, now, n)}
             cur == Max(runs)
  <1>1. UsedOn(days, 0) = 0 /\ UsedOn(days, last) = 0 /\ now \in Nat
    BY TableDays
  <1>2. currentStreak(days, last) = cur
    <2>1. now = IF UsedOn(days, last) = 0 THEN last - 1 ELSE last
      BY <1>1
    <2> QED BY <2>1, CurrentIsRun
  <1>3. longestStreak(days, last) = Max(lengths)
    BY DEF longestStreak
  <1>4. cur \in 0..last /\ Run(days, now, cur)
    <2>1. Run(days, now, 0) /\ 0 \in 0..last
      BY DEF Run
    <2>2. 0 \in runs /\ runs \in SUBSET (0..last)
      BY <2>1
    <2>3. Max(runs) \in runs
      <3> HIDE DEF runs
      <3> QED BY <2>2, SetMax
    <2> QED BY <2>3
  <1>5. lengths \in SUBSET (0..last)
    <2>1. \A p \in all \X all : p[1] <= p[2] => p[2] - p[1] + 1 \in 0..last
      OBVIOUS
    <2> QED BY <2>1
  <1> HIDE DEF runs, cur
  <1>6. cur \in lengths
    <2>1. CASE cur = 0
      BY <2>1
    <2>2. CASE cur # 0
      <3>1. cur \in 1..last
        BY <1>4, <2>2
      <3>2. \A f \in (now - cur + 1)..now : UsedOn(days, f) > 0
        <4>1. \A f \in (now - cur + 1)..now : now - f \in 0..(cur - 1) /\ now - (now - f) = f
          BY <3>1
        <4> QED BY <1>4, <4>1 DEF Run
      <3>3. cur # last
        <4> SUFFICES ASSUME cur = last
                     PROVE  FALSE
          OBVIOUS
        <4>1. 0 \in (now - cur + 1)..now
          BY <1>1
        <4> QED BY <1>1, <3>2, <4>1
      <3>4. now - cur + 1 \in all /\ now \in all /\ now - cur + 1 <= now /\ now - (now - cur + 1) + 1 = cur
        BY <3>1, <3>3
      <3> HIDE DEF all, now
      <3>5. <<now - cur + 1, now>> \in pairs
        BY <3>2, <3>4
      <3> HIDE DEF pairs
      <3>6. <<now - cur + 1, now>>[2] - <<now - cur + 1, now>>[1] + 1 = cur
        BY <3>4
      <3> QED BY <3>5, <3>6
    <2> QED BY <2>1, <2>2
  <1> HIDE DEF lengths
  <1>7. cur <= Max(lengths)
    BY <1>5, <1>6, SetMax
  <1> QED BY <1>2, <1>3, <1>7

-----------------------------------------------------------------------------
\* The lines of this machine are of the days up to today.
LinesOK ==
    /\ day \in Nat \ {0}
    /\ rows \in Seq(LineSet({StartOf(d) : d \in 1..day}))

LEMMA StartIsOfDay ==
    ASSUME NEW d \in Nat \ {0}
    PROVE  StartOf(d) \in Nat /\ DayOf(StartOf(d)) = d
  <1>1. DayLength \in Nat /\ DayLength >= 1
    BY MetricsAssumption DEF MetricsAssumption
  <1>2. (d - 1) * DayLength \in Nat
    BY <1>1
  <1>3. ((d - 1) * DayLength + 1 + DayLength - 1) \div DayLength = d
    BY <1>1
  <1> QED BY <1>2, <1>3 DEF StartOf, DayOf

LEMMA NewLine ==
    ASSUME LinesOK, NEW agent \in Agents, NEW tok \in Chunks, NEW req \in OwnIds
    PROVE  Line(agent, req, tok) \in LineSet({StartOf(d) : d \in 1..day})
  <1>1. QualityOf[agent] \in {"authoritative", "degraded"} /\ tok \in [Components -> Nat]
    <2>1. QualityOf \in [Agents -> {"authoritative", "degraded"}]
      BY FiguresAssumption DEF FiguresAssumption
    <2>2. Chunks \subseteq [Components -> Nat]
      BY FiguresAssumption DEF FiguresAssumption
    <2> QED BY <2>1, <2>2
  <1>2. StartOf(day) \in {StartOf(d) : d \in 1..day}
    BY DEF LinesOK
  <1>3. NoDeriv = ""
    BY Zenon DEF NoDeriv
  <1>4. Line(agent, req, tok)
          = [src |-> agent, req |-> req, session |-> NoId, at |-> StartOf(day), tok |-> tok,
             quality |-> QualityOf[agent], deriv |-> NoDeriv, skip |-> FALSE]
    BY <1>3, Zenon DEF Line
  <1> QED BY <1>1, <1>2, <1>4 DEF LineSet

LEMMA LinesStay == LinesOK /\ [FiguresNext]_figureVars => LinesOK'
  <1> SUFFICES ASSUME LinesOK, [FiguresNext]_figureVars
               PROVE  LinesOK'
    OBVIOUS
  <1>1. CASE UNCHANGED <<day, rows>>
    BY <1>1 DEF LinesOK
  <1>2. CASE Write
    <2> DEFINE Lines == LineSet({StartOf(d) : d \in 1..day})
    <2>1. PICK agent \in Agents, tok \in Chunks, new \in BOOLEAN :
             /\ ~new => rows # <<>> /\ Last(rows).src = agent
             /\ rows' = Append(rows, Line(agent, IF new THEN <<Len(rows) + 1>> ELSE Last(rows).req, tok))
      BY <1>2 DEF Write
    <2> DEFINE req == IF new THEN <<Len(rows) + 1>> ELSE Last(rows).req
    <2>2. req \in OwnIds
      <3>1. rows \in Seq(Lines) /\ Len(rows) \in Nat
        BY DEF LinesOK
      <3>2. <<Len(rows) + 1>> \in OwnIds
        <4>1. Len(rows) + 1 \in Nat
          BY <3>1
        <4> QED BY <4>1 DEF OwnIds
      <3>3. rows # <<>> => Last(rows).req \in OwnIds
        <4>1. rows # <<>> => Last(rows) \in Lines
          BY <3>1 DEF Last
        <4> QED BY <4>1 DEF LineSet
      <3> QED BY <2>1, <3>2, <3>3
    <2>3. Line(agent, req, tok) \in Lines
      BY <2>2, NewLine
    <2>4. day' = day
      BY <1>2 DEF Write
    <2> HIDE DEF Lines, req
    <2>5. rows \in Seq(Lines)
      BY DEF LinesOK, Lines
    <2>6. rows' \in Seq(Lines)
      BY <2>1, <2>3, <2>5 DEF req
    <2> QED BY <2>4, <2>6 DEF LinesOK, Lines
  <1>3. CASE Midnight
    <2>1. day' = day + 1 /\ rows' = rows /\ day \in Nat \ {0}
      BY <1>3 DEF Midnight, LinesOK
    <2> DEFINE Old == {StartOf(d) : d \in 1..day}
               New == {StartOf(d) : d \in 1..(day + 1)}
    <2>2. Old \subseteq New
      <3>1. \A d \in 1..day : d \in 1..(day + 1)
        BY <2>1
      <3> QED BY <3>1
    <2> HIDE DEF Old, New
    <2>3. LineSet(Old) \subseteq LineSet(New)
      BY <2>2 DEF LineSet
    <2>4. rows \in Seq(LineSet(Old))
      BY DEF LinesOK, Old
    <2> HIDE DEF LineSet
    <2>5. rows \in Seq(LineSet(New))
      BY <2>3, <2>4, SeqMonotonic
    <2> QED BY <2>1, <2>5 DEF LinesOK, New
  <1> QED BY <1>1, <1>2, <1>3 DEF FiguresNext, UseAccount, Read, Apply, figureVars

\* A day without usage so far does not end a streak, and it is never longer than the longest.
THEOREM StreakStands == FiguresSpec => []StreakSurvivesMidnight
  <1>1. FiguresInit => LinesOK
    <2> SUFFICES ASSUME FiguresInit
                 PROVE  LinesOK
      OBVIOUS
    <2>1. day = 1 /\ rows = <<>>
      BY DEF FiguresInit
    <2> QED BY <2>1 DEF LinesOK
  <1>2. LinesOK => StreakSurvivesMidnight
    <2> SUFFICES ASSUME LinesOK
                 PROVE  StreakSurvivesMidnight
      OBVIOUS
    <2> DEFINE ats == {StartOf(d) : d \in 1..day}
               days == bucketDays(mergeByRequest(rows))
    <2>1. ats \in SUBSET Nat /\ \A at \in ats : DayOf(at) \in 1..day
      BY StartIsOfDay DEF LinesOK
    <2>2. days \in Tables(1..day)
      BY <2>1, MergedLines, BucketedDays DEF LinesOK
    <2>3. /\ UsedOn(days, day) > 0 => currentStreak(days, day + 1) = currentStreak(days, day)
          /\ currentStreak(days, day + 1) <= longestStreak(days, day + 1)
      <3> HIDE DEF days
      <3>1. day \in Nat \ {0} /\ day + 1 \in Nat \ {0} /\ day + 1 - 1 = day
        BY DEF LinesOK
      <3> QED BY <2>2, <3>1, StreakStays, StreakIsOne
    <2> QED BY <2>3 DEF StreakSurvivesMidnight, computeStats
  <1> QED BY <1>1, <1>2, LinesStay, PTL DEF FiguresSpec

-----------------------------------------------------------------------------
(* The open month: what is asked for, what is read of it, what the ledger      *)
(* makes of it, and what is shown.                                           *)

LEMMA OfTwo ==
    ASSUME NEW a \in Int, NEW b \in Int
    PROVE  /\ Min({a, b}) \in {a, b} /\ Min({a, b}) <= a /\ Min({a, b}) <= b
           /\ Max({a, b}) \in {a, b} /\ Max({a, b}) >= a /\ Max({a, b}) >= b
  <1>1. \E x \in {a, b} : \A y \in {a, b} : x <= y
    OBVIOUS
  <1>2. \E x \in {a, b} : \A y \in {a, b} : x >= y
    OBVIOUS
  <1>3. Min({a, b}) \in {a, b} /\ \A y \in {a, b} : Min({a, b}) <= y
    BY <1>1 DEF Min
  <1>4. Max({a, b}) \in {a, b} /\ \A y \in {a, b} : Max({a, b}) >= y
    BY <1>2 DEF Max
  <1> QED BY <1>3, <1>4

\* The month of a day, and its first and last day.
LEMMA InMonth ==
    ASSUME NEW d \in Int
    PROVE  /\ MonthOf(d) \in Int /\ FirstOf(MonthOf(d)) \in Int
           /\ FirstOf(MonthOf(d)) <= d /\ d < FirstOf(MonthOf(d) + 1)
           /\ FirstOf(MonthOf(d) + 1) = FirstOf(MonthOf(d)) + MonthLength
  <1> DEFINE L == MonthLength
             m == MonthOf(d)
  <1>1. L \in Nat \ {0}
    BY HistoryAssumption
  <1>2. m = (d + L - 1) \div L
    BY DEF MonthOf
  <1> HIDE DEF L, m
  <1>3. ASSUME NEW x \in Int
        PROVE  x \div L \in Int /\ L * (x \div L) <= x /\ x < L * (x \div L) + L
    <2>1. x \div L \in Int
      BY <1>1
    <2>2. L * (x \div L) <= x
      BY <1>1
    <2>3. x < L * (x \div L) + L
      BY <1>1
    <2> QED BY <2>1, <2>2, <2>3
  <1>4. m \in Int /\ L * m <= d + L - 1 /\ d + L - 1 < L * m + L
    <2>1. d + L - 1 \in Int
      BY <1>1
    <2> QED BY <1>2, <1>3, <2>1
  <1>5. (m - 1) * L = L * m - L /\ (m + 1 - 1) * L = L * m /\ L * m \in Int
    BY <1>1, <1>4
  <1>6. /\ FirstOf(m) = L * m - L + 1 /\ FirstOf(m + 1) = L * m + 1
    <2>1. FirstOf(m) = (m - 1) * L + 1 /\ FirstOf(m + 1) = ((m + 1) - 1) * L + 1
      BY Zenon DEF FirstOf, L
    <2> QED BY <1>1, <1>4, <1>5, <2>1
  <1>7. FirstOf(m) \in Int /\ FirstOf(m) <= d /\ d < FirstOf(m + 1) /\ FirstOf(m + 1) = FirstOf(m) + L
    BY <1>1, <1>4, <1>5, <1>6
  <1> QED BY <1>4, <1>7 DEF m, L

LEMMA MonthsGrow ==
    ASSUME NEW c \in Int, NEW d \in Int, c <= d
    PROVE  MonthOf(c) <= MonthOf(d)
  <1> DEFINE L == MonthLength
  <1>1. L \in Nat \ {0}
    BY HistoryAssumption
  <1>2. MonthOf(c) = (c + L - 1) \div L /\ MonthOf(d) = (d + L - 1) \div L
    BY DEF MonthOf
  <1> HIDE DEF L
  <1>3. c + L - 1 \in Int /\ d + L - 1 \in Int /\ c + L - 1 <= d + L - 1
    BY <1>1
  <1>4. \A x, y \in Int : x <= y => x \div L <= y \div L
    BY <1>1
  <1> QED BY <1>2, <1>3, <1>4

\* The last window that a scan may ask for is the open month, up to today.
AllWindows(now) ==
    {w \in [from : Int, to : Int] : 1 <= w.from /\ w.to <= now}

LEMMA OpenWindow ==
    ASSUME NEW now \in Nat \ {0}
    PROVE  /\ allUsageWindows(now) \in Seq(AllWindows(now)) /\ Len(allUsageWindows(now)) \in Nat \ {0}
           /\ allUsageWindows(now)[Len(allUsageWindows(now))].from = FirstOf(MonthOf(now))
           /\ allUsageWindows(now)[Len(allUsageWindows(now))].to = now
  <1> DEFINE earliest == Max({1, now - Lookback})
             n == MonthOf(now) - MonthOf(earliest) + 1
             from(m) == Max({earliest, FirstOf(m)})
             to(m) == Min({now, FirstOf(m + 1) - 1})
             window(i) == [from |-> from(MonthOf(earliest) + i - 1), to |-> to(MonthOf(earliest) + i - 1)]
  <1>1. allUsageWindows(now) = [i \in 1..n |-> window(i)]
    BY DEF allUsageWindows
  <1>2. MonthLength \in Nat \ {0} /\ Lookback \in Nat /\ MonthLength <= Lookback
    BY HistoryAssumption
  <1>3. /\ earliest \in Int /\ 1 <= earliest /\ earliest <= now
        /\ earliest = 1 \/ earliest = now - Lookback
    <2>1. now - Lookback \in Int /\ now - Lookback <= now
      BY <1>2
    <2>2. PICK b \in Int : b = now - Lookback
      BY <2>1
    <2>3. earliest = Max({1, b})
      BY <2>2
    <2>4. Max({1, b}) \in {1, b} /\ Max({1, b}) >= 1 /\ Max({1, b}) >= b
      BY OfTwo
    <2> QED BY <2>1, <2>2, <2>3, <2>4
  <1> HIDE DEF earliest
  <1>5. /\ MonthOf(now) \in Int /\ FirstOf(MonthOf(now)) \in Int
        /\ FirstOf(MonthOf(now)) <= now /\ now < FirstOf(MonthOf(now) + 1)
        /\ FirstOf(MonthOf(now) + 1) = FirstOf(MonthOf(now)) + MonthLength
    BY InMonth
  <1>6. MonthOf(earliest) \in Int /\ MonthOf(earliest) <= MonthOf(now)
    BY <1>3, InMonth, MonthsGrow
  <1>7. n \in Nat \ {0} /\ MonthOf(earliest) + n - 1 = MonthOf(now)
    BY <1>5, <1>6
  <1>8. \A m \in Int : FirstOf(m) \in Int
    BY <1>2 DEF FirstOf
  <1>9. \A m \in Int : from(m) \in Int /\ 1 <= from(m) /\ to(m) \in Int /\ to(m) <= now
    <2> SUFFICES ASSUME NEW m \in Int
                 PROVE  from(m) \in Int /\ 1 <= from(m) /\ to(m) \in Int /\ to(m) <= now
      OBVIOUS
    <2>1. FirstOf(m) \in Int /\ FirstOf(m + 1) - 1 \in Int
      BY <1>8
    <2>2. from(m) \in {earliest, FirstOf(m)} /\ from(m) >= earliest
      BY <1>3, <2>1, OfTwo
    <2>3. PICK b \in Int : b = FirstOf(m + 1) - 1
      BY <2>1
    <2>4. Min({now, b}) \in {now, b} /\ Min({now, b}) <= now
      BY OfTwo
    <2>5. to(m) = Min({now, b})
      BY <2>3
    <2> QED BY <1>3, <2>1, <2>2, <2>4, <2>5
  <1>10. from(MonthOf(now)) = FirstOf(MonthOf(now))
    <2>1. earliest <= FirstOf(MonthOf(now))
      <3>1. CASE earliest = now - Lookback
        BY <1>2, <1>5, <3>1
      <3>2. CASE earliest = 1
        <4>1. MonthOf(now) >= 1
          <5>1. MonthOf(1) = 1
            <6>1. MonthOf(1) = MonthLength \div MonthLength
              BY <1>2 DEF MonthOf
            <6>2. MonthLength \div MonthLength = 1
              BY <1>2
            <6> QED BY <6>1, <6>2
          <5>2. MonthOf(1) <= MonthOf(now)
            BY MonthsGrow
          <5> QED BY <1>5, <5>1, <5>2
        <4>2. (MonthOf(now) - 1) * MonthLength >= 0
          <5>1. \A a, b \in Nat : a * b >= 0
            OBVIOUS
          <5>2. MonthOf(now) - 1 \in Nat /\ MonthLength \in Nat
            BY <1>2, <1>5, <4>1
          <5> QED BY <5>1, <5>2
        <4>3. FirstOf(MonthOf(now)) = (MonthOf(now) - 1) * MonthLength + 1
          BY DEF FirstOf
        <4>4. (MonthOf(now) - 1) * MonthLength \in Int
          BY <1>2, <1>5
        <4> QED BY <3>2, <4>2, <4>3, <4>4
      <3> QED BY <1>3, <3>1, <3>2
    <2>2. from(MonthOf(now)) \in {earliest, FirstOf(MonthOf(now))} /\ from(MonthOf(now)) >= FirstOf(MonthOf(now))
      BY <1>3, <1>5, OfTwo
    <2> QED BY <1>3, <1>5, <2>1, <2>2
  <1>11. to(MonthOf(now)) = now
    <2>1. FirstOf(MonthOf(now) + 1) - 1 \in Int /\ now <= FirstOf(MonthOf(now) + 1) - 1
      BY <1>2, <1>5
    <2>2. PICK b \in Int : b = FirstOf(MonthOf(now) + 1) - 1
      BY <2>1
    <2>3. Min({now, b}) \in {now, b} /\ Min({now, b}) <= now
      BY OfTwo
    <2>4. to(MonthOf(now)) = Min({now, b})
      BY <2>2
    <2> QED BY <2>1, <2>2, <2>3, <2>4
  <1> HIDE DEF from, to, n
  <1>12. \A i \in 1..n : window(i) \in AllWindows(now)
    <2> SUFFICES ASSUME NEW i \in 1..n
                 PROVE  window(i) \in AllWindows(now)
      OBVIOUS
    <2>1. MonthOf(earliest) + i - 1 \in Int
      BY <1>6, <1>7
    <2> QED BY <1>9, <2>1 DEF AllWindows
  <1>13. allUsageWindows(now) \in Seq(AllWindows(now)) /\ Len(allUsageWindows(now)) = n
    <2> HIDE DEF window
    <2> QED BY <1>1, <1>7, <1>12
  <1>14. allUsageWindows(now)[n] = window(n)
    BY <1>1, <1>7
  <1> QED BY <1>7, <1>10, <1>11, <1>13, <1>14

LEMMA AskedEndsOpen ==
    ASSUME NEW now \in Nat \ {0}, NEW covered, NEW protect
    PROVE  /\ Asked(now, covered, protect) \in Seq(AllWindows(now))
           /\ Len(Asked(now, covered, protect)) \in Nat \ {0}
           /\ Asked(now, covered, protect)[Len(Asked(now, covered, protect))].from = FirstOf(MonthOf(now))
           /\ Asked(now, covered, protect)[Len(Asked(now, covered, protect))].to = now
  <1> DEFINE all == allUsageWindows(now)
             n == Len(all)
             Safe(w) == IF protect # NoDay /\ w.from < protect /\ protect <= w.to
                        THEN [w EXCEPT !.from = protect] ELSE w
             Recheck(i) == i = Len(all) - 1 /\ (protect = NoDay \/ DayOfMonth(now) <= RecheckDays)
             Chosen(i) == i = Len(all) \/ Recheck(i) \/ ~windowCovered(Safe(all[i]), covered)
             A == Seq(AllWindows(now))
             Add(out, i) == IF Chosen(i) THEN Append(out, all[i]) ELSE out
             index == [i \in DOMAIN all |-> i]
             step == [i \in 1..n |-> [out \in A |-> Add(out, i)]]
             Step(g) == [s \in SUBSET DOMAIN index |->
                            IF s = {} THEN <<>> ELSE Add(g[s \ {Max(s)}], index[Max(s)])]
             h == CHOOSE g : g = Step(g)
  <1>1. /\ all \in A /\ n \in Nat \ {0}
        /\ all[n].from = FirstOf(MonthOf(now)) /\ all[n].to = now
    BY OpenWindow
  <1>2. Asked(now, covered, protect) = h[DOMAIN index]
    BY DEF Asked, FoldLeft, MapThenFoldSet
  <1>3. Chosen(n) /\ (\A i \in 1..n : all[i] \in AllWindows(now)) /\ DOMAIN all = 1..n
    <2> HIDE DEF all
    <2> QED BY <1>1
  <1> HIDE DEF all, n, Chosen
  <1>4. <<>> \in A /\ step \in [1..n -> [A -> A]] /\ n \in Nat
    BY <1>1, <1>3
  <1>5. DOMAIN index = 1..n /\ \A i \in 1..n : index[i] = i
    BY <1>3
  <1>6. h = Step(h)
    <2>1. PICK g : Unfolds(g, n, A, <<>>, step)
      <3> HIDE DEF A, step, n
      <3> QED BY <1>4, FoldFound
    <2>2. ASSUME NEW s \in SUBSET (1..n), s # {}
          PROVE  step[Max(s)][g[s \ {Max(s)}]] = Add(g[s \ {Max(s)}], index[Max(s)])
      <3> HIDE DEF A, Add, index
      <3> QED BY <1>5, <2>1, <2>2 DEF Unfolds
    <2>3. g = Step(g)
      <3> HIDE DEF A, Add, index, step
      <3> QED BY <1>5, <2>1, <2>2 DEF Unfolds
    <2> QED BY <2>3
  <1>7. Follows(h, n, A, <<>>, step)
    <2> HIDE DEF h, A, Add, index
    <2> QED BY <1>4, <1>5, <1>6, SeqMax DEF Follows
  <1>8. PICK r : Trace(r, n, A, <<>>, step) /\ h[1..n] = r[n]
    <2> HIDE DEF h, A, step, n
    <2> QED BY <1>4, <1>7, FoldTrace
  <1>9. r[n] = Append(r[n - 1], all[n]) /\ r[n - 1] \in A
    <2>1. n \in 1..n /\ n - 1 \in 0..n
      BY <1>1
    <2> QED BY <1>3, <1>8, <2>1 DEF Trace
  <1>10. /\ r[n] \in A /\ Len(r[n]) = Len(r[n - 1]) + 1 /\ Len(r[n - 1]) \in Nat
         /\ r[n][Len(r[n])] = all[n]
    <2>1. n \in 1..n
      BY <1>1
    <2> QED BY <1>3, <1>9, <2>1
  <1>11. Asked(now, covered, protect) = r[n]
    BY <1>2, <1>5, <1>8
  <1> HIDE DEF h, index, step
  <1> QED BY <1>1, <1>10, <1>11

\* The days on which the account that is signed in was used.
SpentDays == {d \in 1..today : usage[signed][d] > 0}

\* The open month was read, as far as a linked snapshot does not speak for it.
OpenRead(got, protect) ==
    LET v == got.windows[Len(got.windows)]
    IN /\ Len(got.windows) \in Nat \ {0} /\ v \in AllWindows(today)
       /\ v.from \in {FirstOf(MonthOf(today)), protect} /\ v.to = today
       /\ \A d \in v.from..v.to : usage[signed][d] > 0 => d \in got.days

FetchResults ==
    [windows : Seq(AllWindows(today)), days : SUBSET SpentDays, missing : Nat, failed : BOOLEAN]

\* A request for months of the account, the open month last.
MonthsAsked(asked) ==
    /\ asked \in Seq(AllWindows(today)) /\ Len(asked) # 0
    /\ asked[Len(asked)].from = FirstOf(MonthOf(today)) /\ asked[Len(asked)].to = today

\* Whatever months are asked for and however they are answered, what was read are days of
\* the account, and without a failure the open month is among them.
LEMMA FetchReads ==
    ASSUME today \in Nat \ {0}, NEW asked, MonthsAsked(asked), NEW protect \in Int, NEW outcome
    PROVE  /\ Fetch(asked, protect, outcome) \in FetchResults
           /\ ~Fetch(asked, protect, outcome).failed /\ Fetch(asked, protect, outcome).missing = 0 =>
                 today < protect \/ OpenRead(Fetch(asked, protect, outcome), protect)
  <1> DEFINE n == Len(asked)
             V(i) == IF outcome.billing /\ asked[i].from < protect THEN [asked[i] EXCEPT !.from = protect] ELSE asked[i]
             Spent(i) == {d \in V(i).from..V(i).to : usage[signed][d] > 0}
             Next(acc, i) ==
                IF acc.failed \/ (outcome.billing /\ asked[i].to < protect) THEN acc
                ELSE IF outcome.answers[i] = "fail" THEN [acc EXCEPT !.failed = TRUE]
                ELSE IF ~Confirms(outcome, i, Spent(i)) THEN [acc EXCEPT !.missing = @ + 1]
                ELSE [acc EXCEPT !.windows = Append(@, V(i)), !.days = @ \cup Spent(i)]
             A == FetchResults
             base == [windows |-> <<>>, days |-> {}, missing |-> 0, failed |-> FALSE]
             index == [i \in DOMAIN asked |-> i]
             step == [i \in 1..n |-> [acc \in A |-> Next(acc, i)]]
             Step(g) == [s \in SUBSET DOMAIN index |->
                            IF s = {} THEN base ELSE Next(g[s \ {Max(s)}], index[Max(s)])]
             h == CHOOSE g : g = Step(g)
  <1>1. Fetch(asked, protect, outcome) = h[DOMAIN index]
    BY DEF Fetch, FoldLeft, MapThenFoldSet
  <1>2. /\ n \in Nat /\ n \in 1..n /\ DOMAIN asked = 1..n
        /\ \A i \in 1..n : asked[i] \in AllWindows(today)
        /\ asked[n].from = FirstOf(MonthOf(today)) /\ asked[n].to = today
    BY DEF MonthsAsked
  <1>3. DOMAIN index = 1..n /\ \A i \in 1..n : index[i] = i
    BY <1>2
  <1>4. ASSUME NEW i \in 1..n
        PROVE  V(i) \in AllWindows(today) /\ V(i).to = asked[i].to /\ V(i).from \in {asked[i].from, protect}
    <2>1. PICK w : w = asked[i] /\ w \in AllWindows(today)
      BY <1>2
    <2>2. PICK from, to \in Int : w = [from |-> from, to |-> to] /\ 1 <= from /\ to <= today
      BY <2>1 DEF AllWindows
    <2>3. CASE V(i) = w
      BY <2>1, <2>3
    <2>4. CASE V(i) # w
      <3>1. w.from < protect /\ V(i) = [w EXCEPT !.from = protect]
        BY <2>1, <2>4
      <3>2. V(i) = [from |-> protect, to |-> to] /\ 1 <= protect
        BY <2>2, <3>1
      <3>3. V(i) \in AllWindows(today)
        BY <2>2, <3>2 DEF AllWindows
      <3> QED BY <2>1, <2>2, <3>2, <3>3
    <2> QED BY <2>3, <2>4
  <1>5. ASSUME NEW i \in 1..n
        PROVE  Spent(i) \in SUBSET SpentDays
    <2>1. V(i).from \in Int /\ V(i).to \in Int /\ 1 <= V(i).from /\ V(i).to <= today
      BY <1>4 DEF AllWindows
    <2> HIDE DEF V
    <2>2. \A d \in V(i).from..V(i).to : d \in 1..today
      BY <2>1
    <2> QED BY <2>2 DEF SpentDays
  <1>6. base \in A
    BY DEF FetchResults
  <1>7. ASSUME NEW i \in 1..n, NEW acc \in A
        PROVE  Next(acc, i) \in A
    <2>1. V(i) \in AllWindows(today) /\ Spent(i) \in SUBSET SpentDays
      BY <1>4, <1>5
    <2> HIDE DEF V, Spent
    <2>2. acc.windows \in Seq(AllWindows(today)) /\ acc.days \in SUBSET SpentDays /\ acc.missing \in Nat
      BY DEF FetchResults
    <2>3. Append(acc.windows, V(i)) \in Seq(AllWindows(today)) /\ acc.days \cup Spent(i) \in SUBSET SpentDays
      BY <2>1, <2>2
    <2>4. PICK windows, days, missing, failed : acc = [windows |-> windows, days |-> days, missing |-> missing, failed |-> failed]
      BY DEF FetchResults
    <2>5. missing \in Nat /\ missing + 1 \in Nat /\ failed \in BOOLEAN /\ windows \in Seq(AllWindows(today)) /\ days \in SUBSET SpentDays
      BY <2>4 DEF FetchResults
    <2>6. [acc EXCEPT !.failed = TRUE] \in A
      BY <2>4, <2>5 DEF FetchResults
    <2>7. [acc EXCEPT !.missing = @ + 1] \in A
      BY <2>4, <2>5 DEF FetchResults
    <2>8. [acc EXCEPT !.windows = Append(@, V(i)), !.days = @ \cup Spent(i)] \in A
      BY <2>3, <2>4, <2>5 DEF FetchResults
    <2> HIDE DEF A
    <2> QED BY <2>6, <2>7, <2>8
  <1>8. step \in [1..n -> [A -> A]]
    BY <1>7
  <1>9. h = Step(h)
    <2>1. PICK g : Unfolds(g, n, A, base, step)
      <3> HIDE DEF A, step, n, base
      <3> QED BY <1>2, <1>6, <1>8, FoldFound
    <2>2. ASSUME NEW s \in SUBSET (1..n), s # {}
          PROVE  step[Max(s)][g[s \ {Max(s)}]] = Next(g[s \ {Max(s)}], index[Max(s)])
      <3> HIDE DEF A, Next, index, n, base
      <3> QED BY <1>3, <2>1, <2>2 DEF Unfolds
    <2>3. g = Step(g)
      <3> HIDE DEF A, Next, index, step, n, base
      <3> QED BY <1>3, <2>1, <2>2 DEF Unfolds
    <2> QED BY <2>3
  <1>10. Follows(h, n, A, base, step)
    <2> HIDE DEF h, A, Next, index, n, base
    <2>1. \A s \in SUBSET (1..n) : s # {} => Max(s) \in 1..n
      BY <1>2, SeqMax
    <2> QED BY <1>3, <1>9, <2>1 DEF Follows
  <1>11. PICK r : Trace(r, n, A, base, step) /\ h[1..n] = r[n]
    <2> HIDE DEF h, A, step, n, base
    <2>1. n \in Nat
      BY <1>2
    <2> QED BY <2>1, <1>6, <1>8, <1>10, FoldTrace
  <1> DEFINE acc == r[n - 1]
  <1>12. acc \in A /\ r[n] = Next(acc, n)
    <2> HIDE DEF A, Next, n, base
    <2>1. n - 1 \in 0..n
      BY <1>2
    <2> QED BY <1>2, <1>11, <2>1 DEF Trace
  <1>13. Fetch(asked, protect, outcome) = r[n]
    <2> HIDE DEF h, index
    <2> QED BY <1>1, <1>3, <1>11
  <1> HIDE DEF h, index, step, acc, base
  <1>14. r[n] \in A
    <2> HIDE DEF Next, A
    <2> QED BY <1>2, <1>7, <1>12
  <1>15. ASSUME ~r[n].failed, r[n].missing = 0
         PROVE  today < protect \/ OpenRead(r[n], protect)
    <2>1. acc.failed \in BOOLEAN /\ acc.missing \in Nat /\ acc.windows \in Seq(AllWindows(today))
          /\ acc.days \in SUBSET SpentDays /\ acc = [windows |-> acc.windows, days |-> acc.days, missing |-> acc.missing, failed |-> acc.failed]
      BY <1>12 DEF FetchResults
    <2>2. V(n) \in AllWindows(today) /\ V(n).to = today /\ V(n).from \in {FirstOf(MonthOf(today)), protect}
      BY <1>2, <1>4
    <2>3. asked[n].to = today
      BY <1>2
    <2>4. Spent(n) = {d \in V(n).from..V(n).to : usage[signed][d] > 0}
      OBVIOUS
    <2> HIDE DEF V, Spent, A, n
    <2>5. ~acc.failed
      BY <1>12, <1>15, <2>1
    <2>6. CASE outcome.billing /\ today < protect
      BY <2>6
    <2>7. CASE ~(outcome.billing /\ today < protect)
      <3>1. outcome.answers[n] # "fail"
        BY <1>12, <1>15, <2>1, <2>3, <2>5, <2>7
      <3>2. Confirms(outcome, n, Spent(n))
        BY <1>12, <1>15, <2>1, <2>3, <2>5, <2>7, <3>1
      <3>3. r[n] = [acc EXCEPT !.windows = Append(@, V(n)), !.days = @ \cup Spent(n)]
        BY <1>12, <2>3, <2>5, <2>7, <3>1, <3>2
      <3>4. r[n].windows = Append(acc.windows, V(n)) /\ r[n].days = acc.days \cup Spent(n)
        BY <2>1, <3>3
      <3>5. Len(r[n].windows) \in Nat \ {0} /\ r[n].windows[Len(r[n].windows)] = V(n)
        BY <2>1, <2>2, <3>4
      <3>6. \A d \in V(n).from..V(n).to : usage[signed][d] > 0 => d \in r[n].days
        BY <2>4, <3>4
      <3> QED BY <2>2, <3>5, <3>6 DEF OpenRead
    <2> QED BY <2>6, <2>7
  <1> HIDE DEF A
  <1> QED BY <1>13, <1>14, <1>15 DEF A

\* The rows show what the account used from the first day of the open month, or of what a
\* linked snapshot leaves of it.
OpenShown(got, protect) ==
    LET v == got.windows[Len(got.windows)]
    IN /\ Len(got.windows) \in Nat \ {0} /\ v \in AllWindows(today)
       /\ v.from \in {FirstOf(MonthOf(today)), protect} /\ v.to = today
       /\ \A d \in v.from..v.to :
             /\ usage[signed][d] > 0 => FreshRow(d, usage[signed][d]) \in got.rows
             /\ \A r \in got.rows : r.day = d => r.n = usage[signed][d]

Fine(error) == error = ""

LEMMA UsageReads ==
    ASSUME today \in Nat \ {0}, NEW asked, MonthsAsked(asked), NEW protect \in Int, NEW outcome,
           \A d \in 1..today : usage[signed][d] \in Nat
    PROVE  /\ AccountUsage(asked, protect, outcome).windows \in Seq(AllWindows(today))
           /\ \A r \in AccountUsage(asked, protect, outcome).rows :
                 /\ r.kind = "fresh" /\ r.day \in 1..today
                 /\ r.n > 0 => \/ r.day \in SpentDays
                               \/ AccountUsage(asked, protect, outcome).windows = <<>> /\ r.day = today
           /\ /\ Fine(AccountUsage(asked, protect, outcome).error)
              /\ AccountUsage(asked, protect, outcome).windows # <<>>
              => today < protect \/ OpenShown(AccountUsage(asked, protect, outcome), protect)
  <1> DEFINE got == Fetch(asked, protect, outcome)
             counted == {FreshRow(d, usage[signed][d]) : d \in got.days}
             sum == Sum2(usage[signed], UNION {w.from..w.to : w \in ToSet(asked)})
             allMissing == ~outcome.billing /\ ~got.failed /\ got.missing = Len(asked)
             res == AccountUsage(asked, protect, outcome)
             none == ~got.failed /\ got.days = {} /\ Len(got.windows) = Len(asked)
  <1>1. /\ got \in FetchResults
        /\ ~got.failed /\ got.missing = 0 => today < protect \/ OpenRead(got, protect)
    BY FetchReads
  <1>2. CASE allMissing
    <2>1. res.windows = <<>> /\ (res.rows = {FreshRow(today, sum)} \/ res.rows = {})
      BY <1>2, Zenon DEF AccountUsage
    <2> HIDE DEF res, sum, allMissing
    <2>2. \A r \in res.rows : r.kind = "fresh" /\ r.day = today
      BY <2>1 DEF FreshRow, DayRow
    <2>3. res.windows \in Seq(AllWindows(today)) /\ today \in 1..today
      BY <2>1
    <2> QED BY <2>1, <2>2, <2>3 DEF res
  <1>3. CASE ~allMissing
    <2>1. /\ res.rows = IF none THEN {FreshRow(today, 0)} ELSE counted
          /\ res.windows = IF got.failed /\ outcome.cleared THEN <<>> ELSE got.windows
      BY <1>3, Zenon DEF AccountUsage
    <2>2. Fine(res.error) => ~got.failed /\ ~(got.missing > 0)
      BY <1>3, Zenon DEF AccountUsage, Fine
    <2>3. got.windows \in Seq(AllWindows(today)) /\ got.days \in SUBSET SpentDays /\ got.missing \in Nat
      BY <1>1 DEF FetchResults
    <2> HIDE DEF got, res, none, allMissing, sum
    <2>4. res.windows \in Seq(AllWindows(today))
      BY <2>1, <2>3
    <2>5. \A r \in counted : r.kind = "fresh" /\ r.day \in SpentDays /\ r.day \in got.days /\ r.n = usage[signed][r.day]
      BY <2>3 DEF FreshRow, DayRow
    <2>6. \A r \in {FreshRow(today, 0)} : r.kind = "fresh" /\ r.day = today /\ r.n = 0
      BY DEF FreshRow, DayRow
    <2>7. \A d \in SpentDays : d \in 1..today
      BY DEF SpentDays
    <2>8. \A r \in res.rows : r.kind = "fresh" /\ r.day \in 1..today /\ (r.n > 0 => r.day \in SpentDays)
      <3> HIDE DEF counted
      <3> QED BY <2>1, <2>5, <2>6, <2>7
    <2>9. ASSUME Fine(res.error), ~(today < protect)
          PROVE  OpenShown(res, protect)
      <3> DEFINE v == got.windows[Len(got.windows)]
      <3>1. ~got.failed /\ got.missing = 0
        BY <2>2, <2>3, <2>9
      <3>2. OpenRead(got, protect) /\ res.windows = got.windows
        BY <1>1, <2>1, <2>9, <3>1
      <3>3. /\ Len(got.windows) \in Nat \ {0} /\ v \in AllWindows(today)
            /\ v.from \in {FirstOf(MonthOf(today)), protect} /\ v.to = today
            /\ \A d \in v.from..v.to : usage[signed][d] > 0 => d \in got.days
        BY <3>2 DEF OpenRead
      <3>4. v = res.windows[Len(res.windows)]
        BY <3>2
      <3> HIDE DEF v
      <3>5. \A d \in v.from..v.to : d \in 1..today
        BY <3>3 DEF AllWindows
      <3>6. \A d \in v.from..v.to : /\ usage[signed][d] > 0 => FreshRow(d, usage[signed][d]) \in res.rows
                                    /\ \A r \in res.rows : r.day = d => r.n = usage[signed][d]
        <4>1. CASE none
          <5>1. got.days = {} /\ res.rows = {FreshRow(today, 0)}
            BY <2>1, <4>1 DEF none
          <5>2. \A d \in v.from..v.to : usage[signed][d] = 0
            BY <3>3, <3>5, <5>1
          <5>3. \A r \in res.rows : r.n = 0
            BY <2>6, <5>1
          <5> QED BY <5>2, <5>3
        <4>2. CASE ~none
          <5>1. res.rows = counted
            BY <2>1, <4>2
          <5>2. \A d \in got.days : FreshRow(d, usage[signed][d]) \in counted
            OBVIOUS
          <5> HIDE DEF counted
          <5> QED BY <2>5, <3>3, <5>1, <5>2
        <4> QED BY <4>1, <4>2
      <3> QED BY <3>2, <3>3, <3>4, <3>6 DEF OpenShown
    <2> QED BY <2>4, <2>8, <2>9 DEF res
  <1> QED BY <1>2, <1>3

-----------------------------------------------------------------------------
(* The ledger keeps its observations in the order of their readings. *)

IsTable(table) == table \in Seq(ToSet(table))

LEMMA SeqIsTable ==
    ASSUME NEW T, NEW s \in Seq(T)
    PROVE  IsTable(s) /\ Len(s) \in Nat /\ DOMAIN s = 1..Len(s)
  <1>1. Len(s) \in Nat /\ s \in [1..Len(s) -> T] /\ DOMAIN s = 1..Len(s)
    BY LenProperties
  <1>2. s \in [1..Len(s) -> ToSet(s)]
    BY <1>1 DEF ToSet
  <1>3. s \in Seq(ToSet(s))
    BY <1>1, <1>2, SeqDef
  <1> QED BY <1>1, <1>3 DEF IsTable

LEMMA Inserted ==
    ASSUME NEW s, IsTable(s), NEW p \in 1..(Len(s) + 1), NEW o
    PROVE  /\ IsTable(InsertAt(s, p, o)) /\ Len(InsertAt(s, p, o)) = Len(s) + 1 /\ Len(s) \in Nat
           /\ DOMAIN s = 1..Len(s) /\ DOMAIN InsertAt(s, p, o) = 1..(Len(s) + 1)
           /\ InsertAt(s, p, o)[p] = o
           /\ \A j \in 1..(Len(s) + 1) : /\ j < p => j \in 1..Len(s) /\ InsertAt(s, p, o)[j] = s[j]
                                         /\ j > p => j - 1 \in 1..Len(s) /\ InsertAt(s, p, o)[j] = s[j - 1]
  <1> DEFINE T == ToSet(s) \cup {o}
             n == Len(s)
             left == SubSeq(s, 1, p - 1)
             right == SubSeq(s, p, n)
             new == InsertAt(s, p, o)
  <1>1. n \in Nat /\ DOMAIN s = 1..n /\ \A i \in 1..n : s[i] \in T
    <2>1. s \in Seq(ToSet(s))
      BY DEF IsTable
    <2>2. n \in Nat /\ DOMAIN s = 1..n
      BY <2>1, LenProperties
    <2> QED BY <2>2 DEF ToSet
  <1>2. new = left \o <<o>> \o right
    BY DEF InsertAt
  <1>3. o \in T
    OBVIOUS
  <1> HIDE DEF T, n
  <1>4. p \in Int /\ 1 <= p /\ p <= n + 1
    BY <1>1 DEF n
  <1>5. /\ left \in Seq(T) /\ Len(left) = p - 1
        /\ \A i \in 1..(p - 1) : left[i] = s[i]
    <2>1. \A i \in 1..(p - 1) : s[i] \in T
      BY <1>1, <1>4
    <2>2. p - 1 \in Int /\ (p - 1) - 1 + 1 = p - 1 /\ (1 <= p - 1 \/ p - 1 = 0)
      BY <1>4
    <2>3. /\ left \in Seq(T) /\ Len(left) = IF 1 <= p - 1 THEN (p - 1) - 1 + 1 ELSE 0
          /\ \A i \in 1..((p - 1) - 1 + 1) : left[i] = s[1 + i - 1]
      BY <2>1, <2>2, SubSeqProperties
    <2> HIDE DEF left
    <2> QED BY <1>4, <2>2, <2>3
  <1>6. /\ right \in Seq(T) /\ Len(right) = n - p + 1
        /\ \A i \in 1..(n - p + 1) : right[i] = s[p + i - 1]
    <2>1. \A i \in p..n : s[i] \in T
      BY <1>1, <1>4
    <2>2. /\ right \in Seq(T) /\ Len(right) = IF p <= n THEN n - p + 1 ELSE 0
          /\ \A i \in 1..(n - p + 1) : right[i] = s[p + i - 1]
      BY <1>1, <1>4, <2>1, SubSeqProperties
    <2> HIDE DEF right
    <2> QED BY <1>1, <1>4, <2>2
  <1> HIDE DEF left, right, new
  <1>7. <<o>> \in Seq(T) /\ Len(<<o>>) = 1 /\ <<o>>[1] = o
    BY <1>3
  <1>8. /\ left \o <<o>> \in Seq(T) /\ Len(left \o <<o>>) = p
        /\ \A i \in 1..p : (left \o <<o>>)[i] = IF i < p THEN s[i] ELSE o
    <2>1. /\ left \o <<o>> \in Seq(T) /\ Len(left \o <<o>>) = Len(left) + Len(<<o>>)
          /\ \A i \in 1..(Len(left) + Len(<<o>>)) : (left \o <<o>>)[i] =
                 IF i <= Len(left) THEN left[i] ELSE <<o>>[i - Len(left)]
      BY <1>5, <1>7, ConcatProperties
    <2>2. Len(left) + Len(<<o>>) = p
      BY <1>4, <1>5, <1>7
    <2>3. ASSUME NEW i \in 1..p
          PROVE  (left \o <<o>>)[i] = IF i < p THEN s[i] ELSE o
      <3>1. (left \o <<o>>)[i] = IF i <= Len(left) THEN left[i] ELSE <<o>>[i - Len(left)]
        BY <2>1, <2>2
      <3>2. CASE i < p
        <4>1. i <= Len(left) /\ i \in 1..(p - 1)
          BY <1>4, <1>5, <3>2
        <4> QED BY <1>5, <3>1, <3>2, <4>1
      <3>3. CASE ~(i < p)
        <4>1. i = p /\ ~(i <= Len(left)) /\ i - Len(left) = 1
          BY <1>4, <1>5, <3>3
        <4> QED BY <1>7, <3>1, <3>3, <4>1
      <3> QED BY <3>2, <3>3
    <2> QED BY <2>1, <2>2, <2>3
  <1> DEFINE front == left \o <<o>>
  <1>9. /\ new \in Seq(T) /\ Len(new) = n + 1
        /\ \A i \in 1..(n + 1) : new[i] = IF i <= p THEN front[i] ELSE right[i - p]
    <2>1. /\ front \o right \in Seq(T) /\ Len(front \o right) = Len(front) + Len(right)
          /\ \A i \in 1..(Len(front) + Len(right)) : (front \o right)[i] =
                 IF i <= Len(front) THEN front[i] ELSE right[i - Len(front)]
      BY <1>6, <1>8, ConcatProperties
    <2>2. new = front \o right /\ Len(front) = p
      BY <1>2, <1>8
    <2> HIDE DEF front
    <2>3. Len(front) + Len(right) = n + 1
      BY <1>1, <1>4, <1>6, <2>2
    <2> QED BY <2>1, <2>2, <2>3
  <1>10. IsTable(new) /\ DOMAIN new = 1..(n + 1)
    BY <1>9, SeqIsTable
  <1> HIDE DEF front
  <1>11. new[p] = o
    <2>1. p \in 1..(n + 1) /\ p \in 1..p
      BY <1>1, <1>4
    <2>2. new[p] = front[p] /\ front[p] = o
      BY <1>4, <1>8, <1>9, <2>1 DEF front
    <2> QED BY <2>2
  <1>12. ASSUME NEW j \in 1..(n + 1)
         PROVE  /\ j < p => j \in 1..n /\ new[j] = s[j]
                /\ j > p => j - 1 \in 1..n /\ new[j] = s[j - 1]
    <2>1. CASE j < p
      <3>1. j \in 1..p /\ j \in 1..n
        BY <1>1, <1>4, <2>1
      <3>2. new[j] = front[j] /\ front[j] = s[j]
        BY <1>4, <1>8, <1>9, <2>1, <3>1 DEF front
      <3> QED BY <1>4, <2>1, <3>1, <3>2
    <2>2. CASE j > p
      <3>1. j - p \in 1..(n - p + 1) /\ p + (j - p) - 1 = j - 1 /\ j - 1 \in 1..n
        BY <1>1, <1>4, <2>2
      <3>2. new[j] = right[j - p] /\ right[j - p] = s[p + (j - p) - 1]
        BY <1>4, <1>6, <1>9, <2>2, <3>1
      <3> QED BY <1>4, <2>2, <3>1, <3>2
    <2>3. CASE j = p
      BY <1>4, <2>3
    <2> QED BY <1>4, <2>1, <2>2, <2>3
  <1> QED BY <1>1, <1>9, <1>10, <1>11, <1>12 DEF n, new

\* What is inserted goes after what was read before it.
LEMMA InsertIs ==
    ASSUME NEW table, IsTable(table), NEW o
    PROVE  \/ Stored(table, o) /\ insertObservation(table, o) = table
           \/ \E p \in 1..(Len(table) + 1) :
                 /\ insertObservation(table, o) = InsertAt(table, p, o)
                 /\ (\A i \in DOMAIN table : table[i].at <= o.at) => p = Len(table) + 1
  <1> DEFINE older == {i \in DOMAIN table : table[i].at <= o.at}
             n == Len(table)
  <1>1. n \in Nat /\ DOMAIN table = 1..n
    BY LenProperties DEF IsTable
  <1>2. insertObservation(table, o) = IF Stored(table, o) THEN table ELSE InsertAt(table, Cardinality(older) + 1, o)
    BY DEF insertObservation
  <1>3. IsFiniteSet(1..n) /\ Cardinality(1..n) = n
    <2>1. IsFiniteSet(1..n) /\ Cardinality(1..n) = IF 1 > n THEN 0 ELSE n - 1 + 1
      BY <1>1, FS_Interval
    <2> QED BY <1>1, <2>1
  <1>4. Cardinality(older) \in Nat /\ Cardinality(older) <= n
    <2>1. older \in SUBSET (1..n)
      BY <1>1
    <2> HIDE DEF older, n
    <2> QED BY <1>3, <2>1, FS_Subset, FS_CardinalityType
  <1>5. (\A i \in DOMAIN table : table[i].at <= o.at) => Cardinality(older) = n
    <2>1. (\A i \in DOMAIN table : table[i].at <= o.at) => older = 1..n
      BY <1>1
    <2> QED BY <1>3, <2>1
  <1> HIDE DEF older
  <1>6. Cardinality(older) + 1 \in 1..(n + 1)
    BY <1>1, <1>4
  <1> HIDE DEF n
  <1> QED BY <1>2, <1>5, <1>6 DEF n

ChainWindow(o) == o.ns = Chain /\ o.kind = "window"

\* A day of an observation is one on which the account was used, or the day of a total
\* that no window which ended later came before.
Explained(table, spent, i, e) ==
    /\ e \in Days
    /\ e \notin spent => \A j \in DOMAIN table : ChainWindow(table[j]) /\ e < table[j].to => i < j

LedgerOK(table, spent, last, now) ==
    /\ IsTable(table)
    /\ \A i \in DOMAIN table :
          /\ table[i].at \in Nat /\ table[i].at <= last
          /\ ChainWindow(table[i]) => table[i].to \in Int /\ table[i].to <= now
          /\ InChain(table[i]) => \A e \in DOMAIN table[i].days : Explained(table, spent, i, e)

\* What may be noted of the chain.
NoteOK(o, spent, last, now) ==
    /\ o.at \in Nat /\ o.at <= last
    /\ ChainWindow(o) => o.at = last /\ o.to \in Int /\ o.to <= now
    /\ InChain(o) => \A e \in DOMAIN o.days : e \in Days /\ (e \in spent \/ e = now)

LEMMA LedgerGrows ==
    ASSUME today \in Int, NEW table, NEW spent, NEW last \in Nat, LedgerOK(table, spent, last, today),
           NEW o, NoteOK(o, spent, last, today)
    PROVE  /\ LedgerOK(insertObservation(table, o), spent, last, today)
           /\ ChainWindow(o) => \E j \in DOMAIN insertObservation(table, o) :
                 /\ ChainWindow(insertObservation(table, o)[j])
                 /\ insertObservation(table, o)[j].from = o.from /\ insertObservation(table, o)[j].to = o.to
  <1> DEFINE n == Len(table)
             new == insertObservation(table, o)
  <1>1. IsTable(table)
    BY DEF LedgerOK
  <1>2. CASE Stored(table, o) /\ new = table
    BY <1>2 DEF Stored, ChainWindow
  <1>3. ASSUME NEW p \in 1..(n + 1), new = InsertAt(table, p, o),
               (\A i \in DOMAIN table : table[i].at <= o.at) => p = n + 1
        PROVE  /\ LedgerOK(new, spent, last, today)
               /\ ChainWindow(o) => \E j \in DOMAIN new : /\ ChainWindow(new[j]) /\ new[j].from = o.from /\ new[j].to = o.to
    <2>1. /\ IsTable(new) /\ n \in Nat
          /\ DOMAIN table = 1..n /\ DOMAIN new = 1..(n + 1) /\ new[p] = o
          /\ \A j \in 1..(n + 1) : /\ j < p => j \in 1..n /\ new[j] = table[j]
                                   /\ j > p => j - 1 \in 1..n /\ new[j] = table[j - 1]
      BY <1>1, <1>3, Inserted
    <2> HIDE DEF new, n
    <2> DEFINE Old(j) == IF j < p THEN j ELSE j - 1
    <2>2. p \in Int /\ 1 <= p /\ p <= n + 1
      BY <2>1
    <2>3. \A j \in 1..(n + 1) : j # p => Old(j) \in 1..n /\ new[j] = table[Old(j)]
      BY <2>1, <2>2
    <2>4. \A i, j \in 1..(n + 1) : i # p /\ j # p /\ Old(i) < Old(j) => i < j
      BY <2>1, <2>2
    <2> HIDE DEF Old
    <2>5. ChainWindow(o) => p = n + 1
      BY <1>3 DEF LedgerOK, NoteOK
    <2>6. ASSUME NEW i \in 1..(n + 1)
          PROVE  /\ new[i].at \in Nat /\ new[i].at <= last
                 /\ ChainWindow(new[i]) => new[i].to \in Int /\ new[i].to <= today
      BY <2>1, <2>3 DEF LedgerOK, NoteOK
    <2>7. ASSUME NEW i \in 1..(n + 1), InChain(new[i]), NEW e \in DOMAIN new[i].days
          PROVE  Explained(new, spent, i, e)
      <3>1. CASE i = p
        <4>1. e \in Days /\ (e \in spent \/ e = today)
          BY <2>1, <2>7, <3>1 DEF NoteOK
        <4>2. \A j \in 1..(n + 1) : ChainWindow(new[j]) => ~(today < new[j].to)
          BY <2>6
        <4> QED BY <2>1, <4>1, <4>2 DEF Explained
      <3>2. CASE i # p
        <4>1. Old(i) \in DOMAIN table /\ InChain(table[Old(i)]) /\ e \in DOMAIN table[Old(i)].days
          BY <2>1, <2>3, <2>7, <3>2
        <4>2. Explained(table, spent, Old(i), e)
          BY <4>1 DEF LedgerOK
        <4>3. ASSUME NEW j \in 1..(n + 1), e \notin spent, ChainWindow(new[j]), e < new[j].to
              PROVE  i < j
          <5>1. CASE j = p
            BY <2>1, <2>2, <2>5, <3>2, <4>3, <5>1
          <5>2. CASE j # p
            <6>1. Old(j) \in DOMAIN table /\ new[j] = table[Old(j)]
              BY <2>1, <2>3, <5>2
            <6>2. Old(i) < Old(j)
              BY <4>2, <4>3, <6>1 DEF Explained
            <6> QED BY <2>4, <3>2, <5>2, <6>2
          <5> QED BY <5>1, <5>2
        <4> QED BY <2>1, <4>2, <4>3 DEF Explained
      <3> QED BY <3>1, <3>2
    <2>8. LedgerOK(new, spent, last, today)
      BY <2>1, <2>6, <2>7 DEF LedgerOK
    <2>9. p \in DOMAIN new
      BY <2>1
    <2> QED BY <2>1, <2>8, <2>9
  <1>4. \/ Stored(table, o) /\ new = table
        \/ \E p \in 1..(n + 1) : /\ new = InsertAt(table, p, o)
                                 /\ (\A i \in DOMAIN table : table[i].at <= o.at) => p = n + 1
    BY <1>1, InsertIs
  <1> HIDE DEF new, n
  <1>5. ASSUME ~(Stored(table, o) /\ new = table)
        PROVE  /\ LedgerOK(new, spent, last, today)
               /\ ChainWindow(o) => \E j \in DOMAIN new : /\ ChainWindow(new[j]) /\ new[j].from = o.from /\ new[j].to = o.to
    BY <1>3, <1>4, <1>5
  <1> QED BY <1>2, <1>5 DEF new

LEMMA InsertedIn ==
    ASSUME NEW T, NEW table \in Seq(T), NEW o \in T
    PROVE  insertObservation(table, o) \in Seq(T)
  <1>1. IsTable(table)
    BY SeqIsTable
  <1>2. ASSUME NEW p \in 1..(Len(table) + 1)
        PROVE  InsertAt(table, p, o) \in Seq(T)
    <2> DEFINE new == InsertAt(table, p, o)
               n == Len(table)
    <2>1. /\ IsTable(new) /\ DOMAIN new = 1..(n + 1) /\ new[p] = o /\ n \in Nat
          /\ \A j \in 1..(n + 1) : /\ j < p => j \in 1..n /\ new[j] = table[j]
                                   /\ j > p => j - 1 \in 1..n /\ new[j] = table[j - 1]
      BY <1>1, Inserted
    <2>2. \A j \in 1..n : table[j] \in T
      BY ElementOfSeq
    <2> HIDE DEF new, n
    <2>3. \A j \in 1..(n + 1) : new[j] \in T
      <3>1. p \in Int
        BY <2>1
      <3>2. \A j \in 1..(n + 1) : j < p \/ j = p \/ j > p
        BY <2>1, <3>1
      <3> QED BY <2>1, <2>2, <3>2
    <2>4. ToSet(new) \subseteq T
      BY <2>1, <2>3 DEF ToSet
    <2>5. new \in Seq(T)
      BY <2>1, <2>4, SeqMonotonic DEF IsTable
    <2> QED BY <2>5 DEF new
  <1> QED BY <1>1, <1>2, InsertIs

\* No observation is ever removed.
LEMMA InsertKeeps ==
    ASSUME NEW table, IsTable(table), NEW o, NEW i \in DOMAIN table
    PROVE  \E j \in DOMAIN insertObservation(table, o) : insertObservation(table, o)[j] = table[i]
  <1>1. ASSUME NEW p \in 1..(Len(table) + 1)
        PROVE  \E j \in DOMAIN InsertAt(table, p, o) : InsertAt(table, p, o)[j] = table[i]
    <2> DEFINE new == InsertAt(table, p, o)
               n == Len(table)
    <2>1. /\ DOMAIN table = 1..n /\ DOMAIN new = 1..(n + 1) /\ n \in Nat
          /\ \A j \in 1..(n + 1) : /\ j < p => j \in 1..n /\ new[j] = table[j]
                                   /\ j > p => j - 1 \in 1..n /\ new[j] = table[j - 1]
      BY Inserted
    <2> HIDE DEF new, n
    <2>2. p \in Int /\ i \in 1..n
      BY <2>1
    <2>3. CASE i < p
      BY <2>1, <2>2, <2>3 DEF new
    <2>4. CASE ~(i < p)
      <3>1. i + 1 \in 1..(n + 1) /\ i + 1 > p /\ (i + 1) - 1 = i
        BY <2>1, <2>2, <2>4
      <3> QED BY <2>1, <3>1 DEF new
    <2> QED BY <2>3, <2>4
  <1> QED BY <1>1, InsertIs

\* A history with observations stays one.
Known(table) == HasObservation => \E j \in DOMAIN table : InChain(table[j])

LEMMA StaysKnown ==
    ASSUME NEW table, IsTable(table), Known(table), NEW o
    PROVE  Known(insertObservation(table, o))
  BY InsertKeeps DEF Known

\* The ledger after the finished windows of a scan are noted.
Noted(ns, windows, counted) ==
    FoldLeft(LAMBDA table, w : NoteCoveredWindow(table, ns, w, counted), obs, windows)

LEMMA WindowsNoted ==
    ASSUME today \in Nat \ {0}, reads \in Nat, NEW spent, LedgerOK(obs, spent, reads, today),
           NEW ns, NEW list \in Seq(AllWindows(today)), list # <<>>, NEW counted,
           ns = Chain => \A r \in counted : r.n > 0 => r.day \in spent /\ r.day \in Days
    PROVE  /\ LedgerOK(Noted(ns, list, counted), spent, reads, today) /\ Known(Noted(ns, list, counted))
           /\ ns = Chain => \E j \in DOMAIN Noted(ns, list, counted) :
                 /\ ChainWindow(Noted(ns, list, counted)[j])
                 /\ Noted(ns, list, counted)[j].from = list[Len(list)].from
                 /\ Noted(ns, list, counted)[j].to = list[Len(list)].to
  <1> DEFINE n == Len(list)
             Row(w) == [ns |-> ns, kind |-> "window", from |-> w.from, to |-> w.to, at |-> reads,
                        days |-> DaysIn(counted, w.from, w.to), stamp |-> 0]
             T == ToSet(obs) \cup {Row(list[i]) : i \in 1..n}
             A == {table \in Seq(T) : LedgerOK(table, spent, reads, today) /\ Known(table)}
             Note(table, w) == NoteCoveredWindow(table, ns, w, counted)
             step == [i \in 1..n |-> [table \in A |-> Note(table, list[i])]]
             Step(g) == [s \in SUBSET DOMAIN list |->
                            IF s = {} THEN obs ELSE Note(g[s \ {Max(s)}], list[Max(s)])]
             h == CHOOSE g : g = Step(g)
  <1>1. Noted(ns, list, counted) = h[DOMAIN list]
    BY DEF Noted, FoldLeft, MapThenFoldSet
  <1>2. n \in Nat /\ n \in 1..n /\ DOMAIN list = 1..n /\ \A i \in 1..n : list[i] \in AllWindows(today)
    BY LenProperties, ElementOfSeq, EmptySeq
  <1>3. \A i \in 1..n : NoteOK(Row(list[i]), spent, reads, today)
    <2> SUFFICES ASSUME NEW i \in 1..n
                 PROVE  NoteOK(Row(list[i]), spent, reads, today)
      OBVIOUS
    <2> DEFINE w == list[i]
    <2>1. w.to \in Int /\ w.to <= today
      BY <1>2 DEF AllWindows
    <2>2. ns = Chain => \A e \in DOMAIN DaysIn(counted, w.from, w.to) : e \in Days /\ e \in spent
      BY DEF DaysIn, DaysOf
    <2> HIDE DEF w
    <2>3. NoteOK(Row(w), spent, reads, today)
      BY <2>1, <2>2 DEF NoteOK, ChainWindow, InChain
    <2> QED BY <2>3 DEF w
  <1>4. \A table, w : Note(table, w) = insertObservation(table, Row(w))
    BY DEF NoteCoveredWindow
  <1> HIDE DEF Row, Note
  <1>5. obs \in A
    <2>1. obs \in Seq(ToSet(obs))
      BY DEF LedgerOK, IsTable
    <2>2. obs \in Seq(T)
      BY <2>1, SeqMonotonic
    <2>3. Known(obs)
      BY DEF Known, HasObservation
    <2> QED BY <2>2, <2>3
  <1>6. ASSUME NEW i \in 1..n, NEW table \in A
        PROVE  Note(table, list[i]) \in A
    <2>1. Row(list[i]) \in T
      OBVIOUS
    <2> HIDE DEF T
    <2>2. insertObservation(table, Row(list[i])) \in Seq(T)
      BY <2>1, InsertedIn
    <2>3. LedgerOK(insertObservation(table, Row(list[i])), spent, reads, today)
      BY <1>3, LedgerGrows
    <2>4. Known(insertObservation(table, Row(list[i])))
      BY StaysKnown DEF LedgerOK
    <2> QED BY <1>4, <2>2, <2>3, <2>4
  <1>7. step \in [1..n -> [A -> A]]
    BY <1>6
  <1> HIDE DEF T
  <1>8. h = Step(h)
    <2>1. PICK g : Unfolds(g, n, A, obs, step)
      <3> HIDE DEF A, step, n
      <3> QED BY <1>2, <1>5, <1>7, FoldFound
    <2>2. ASSUME NEW s \in SUBSET (1..n), s # {}
          PROVE  step[Max(s)][g[s \ {Max(s)}]] = Note(g[s \ {Max(s)}], list[Max(s)])
      <3> HIDE DEF A, n
      <3> QED BY <2>1, <2>2 DEF Unfolds
    <2>3. g = Step(g)
      <3> HIDE DEF A, step, n
      <3> QED BY <1>2, <2>1, <2>2 DEF Unfolds
    <2> QED BY <2>3
  <1>9. Follows(h, n, A, obs, step)
    <2> HIDE DEF h, A, n
    <2>1. \A s \in SUBSET (1..n) : s # {} => Max(s) \in 1..n
      BY <1>2, SeqMax
    <2> QED BY <1>2, <1>8, <2>1 DEF Follows
  <1>10. PICK r : Trace(r, n, A, obs, step) /\ h[1..n] = r[n]
    <2> HIDE DEF h, A, step, n
    <2>1. n \in Nat
      BY <1>2
    <2> QED BY <1>5, <1>7, <1>9, <2>1, FoldTrace
  <1>11. r[n - 1] \in A /\ r[n] = insertObservation(r[n - 1], Row(list[n]))
    <2> HIDE DEF A, n
    <2>1. n - 1 \in 0..n
      BY <1>2
    <2> QED BY <1>2, <1>4, <1>10, <2>1 DEF Trace
  <1>12. Noted(ns, list, counted) = r[n]
    <2> HIDE DEF h
    <2> QED BY <1>1, <1>2, <1>10
  <1>13. LedgerOK(r[n - 1], spent, reads, today) /\ NoteOK(Row(list[n]), spent, reads, today)
    BY <1>2, <1>3, <1>11
  <1>14. /\ LedgerOK(r[n], spent, reads, today)
         /\ ChainWindow(Row(list[n])) => \E j \in DOMAIN r[n] :
               ChainWindow(r[n][j]) /\ r[n][j].from = Row(list[n]).from /\ r[n][j].to = Row(list[n]).to
    <2> HIDE DEF n
    <2> QED BY <1>11, <1>13, LedgerGrows
  <1>15. /\ Row(list[n]).from = list[n].from /\ Row(list[n]).to = list[n].to
         /\ ns = Chain => ChainWindow(Row(list[n]))
    BY DEF Row, ChainWindow
  <1>16. Known(r[n])
    <2> HIDE DEF A, n
    <2>1. n \in 0..n
      BY <1>2
    <2>2. r[n] \in A
      BY <1>10, <2>1 DEF Trace
    <2> QED BY <2>2 DEF A
  <1> QED BY <1>12, <1>14, <1>15, <1>16

\* A day of a source is a day of one of its observations, and no later one replaces it.
Stands(table, ns, k, e) ==
    \E i \in 1..k :
       /\ table[i].ns = ns /\ e \in DOMAIN table[i].days
       /\ \A j \in 1..k : i < j /\ table[j].ns = ns => ~(table[j].from <= e /\ e <= table[j].to)

LEMMA MapDays ==
    ASSUME NEW table, IsTable(table), NEW ns
    PROVE  \A e \in DOMAIN chainDayMap(table, ns) : Stands(table, ns, Len(table), e)
  <1> DEFINE n == Len(table)
             U == UNION {DOMAIN table[i].days : i \in 1..n}
             V == UNION {{table[i].days[d] : d \in DOMAIN table[i].days} : i \in 1..n}
             A == UNION {[D -> V] : D \in SUBSET U}
             none == {}
             Next(map, o) == IF o.ns # ns \/ o \in none THEN map ELSE Replaced(map, o)
             step == [i \in 1..n |-> [map \in A |-> Next(map, table[i])]]
             Step(g) == [s \in SUBSET DOMAIN table |->
                            IF s = {} THEN <<>> ELSE Next(g[s \ {Max(s)}], table[Max(s)])]
             h == CHOOSE g : g = Step(g)
  <1>1. chainDayMap(table, ns) = h[DOMAIN table]
    BY DEF chainDayMap, DayMapWithout, FoldLeft, MapThenFoldSet
  <1>2. n \in Nat /\ DOMAIN table = 1..n
    BY SeqIsTable DEF IsTable
  <1>3. <<>> \in A /\ DOMAIN <<>> = {}
    <2>1. <<>> = [x \in {} |-> 0]
      OBVIOUS
    <2>2. [x \in {} |-> 0] \in [{} -> V] /\ {} \in SUBSET U
      OBVIOUS
    <2> HIDE DEF U, V
    <2> QED BY <2>1, <2>2
  <1> HIDE DEF n
  <1>4. ASSUME NEW i \in 1..n, NEW map \in A
        PROVE  /\ Next(map, table[i]) \in A
               /\ \A e \in DOMAIN Next(map, table[i]) :
                     \/ table[i].ns = ns /\ e \in DOMAIN table[i].days
                     \/ e \in DOMAIN map /\ (table[i].ns = ns => ~(table[i].from <= e /\ e <= table[i].to))
    <2> DEFINE o == table[i]
               kept == {d \in DOMAIN map : ~(o.from <= d /\ d <= o.to)}
               new == [d \in kept \cup DOMAIN o.days |-> IF d \in DOMAIN o.days THEN o.days[d] ELSE map[d]]
    <2>1. CASE o.ns # ns
      <3>1. Next(map, o) = map
        BY <2>1
      <3> HIDE DEF Next
      <3> QED BY <2>1, <3>1
    <2>2. CASE o.ns = ns
      <3>1. Next(map, o) = new
        BY <2>2 DEF Replaced
      <3>2. PICK D \in SUBSET U : map \in [D -> V]
        OBVIOUS
      <3>3. DOMAIN o.days \subseteq U /\ \A d \in DOMAIN o.days : o.days[d] \in V
        OBVIOUS
      <3> HIDE DEF U, V, Next, A
      <3>4. DOMAIN map = D /\ \A d \in D : map[d] \in V
        BY <3>2
      <3>5. DOMAIN new = kept \cup DOMAIN o.days /\ DOMAIN new \in SUBSET U
        BY <3>2, <3>3, <3>4
      <3>6. \A d \in kept \cup DOMAIN o.days : (IF d \in DOMAIN o.days THEN o.days[d] ELSE map[d]) \in V
        BY <3>3, <3>4
      <3> HIDE DEF kept
      <3>7. new \in [DOMAIN new -> V]
        BY <3>5, <3>6
      <3>8. new \in A
        BY <3>5, <3>7 DEF A
      <3> HIDE DEF new
      <3> QED BY <2>2, <3>1, <3>5, <3>8 DEF kept
    <2> QED BY <2>1, <2>2
  <1> HIDE DEF A, Next, none
  <1>5. step \in [1..n -> [A -> A]]
    BY <1>4
  <1>6. h = Step(h)
    <2>1. PICK g : Unfolds(g, n, A, <<>>, step)
      <3> HIDE DEF step
      <3> QED BY <1>2, <1>3, <1>5, FoldFound
    <2>2. ASSUME NEW s \in SUBSET (1..n), s # {}
          PROVE  step[Max(s)][g[s \ {Max(s)}]] = Next(g[s \ {Max(s)}], table[Max(s)])
      BY <2>1, <2>2 DEF Unfolds
    <2>3. g = Step(g)
      <3> HIDE DEF step
      <3> QED BY <1>2, <2>1, <2>2 DEF Unfolds
    <2> QED BY <2>3
  <1>7. Follows(h, n, A, <<>>, step)
    <2> HIDE DEF h
    <2>1. \A s \in SUBSET (1..n) : s # {} => Max(s) \in 1..n
      BY <1>2, SeqMax
    <2> QED BY <1>2, <1>6, <2>1 DEF Follows
  <1>8. PICK r : Trace(r, n, A, <<>>, step) /\ h[1..n] = r[n]
    <2> HIDE DEF h, step
    <2>1. n \in Nat
      BY <1>2
    <2> QED BY <1>3, <1>5, <1>7, <2>1, FoldTrace
  <1>9. r[0] = <<>> /\ \A k \in 1..n : r[k - 1] \in A /\ r[k] = Next(r[k - 1], table[k])
    <2>1. \A k \in 1..n : k - 1 \in 0..n
      BY <1>2
    <2> QED BY <1>8, <2>1 DEF Trace
  <1> DEFINE K == {k \in 0..n : \A e \in DOMAIN r[k] : Stands(table, ns, k, e)}
  <1>10. 0 \in K
    BY <1>2, <1>3, <1>9
  <1>11. ASSUME NEW k \in 1..n, k - 1 \in K
         PROVE  k \in K
    <2> SUFFICES ASSUME NEW e \in DOMAIN r[k]
                 PROVE  Stands(table, ns, k, e)
      BY <1>2
    <2>1. \/ table[k].ns = ns /\ e \in DOMAIN table[k].days
          \/ e \in DOMAIN r[k - 1] /\ (table[k].ns = ns => ~(table[k].from <= e /\ e <= table[k].to))
      BY <1>4, <1>9
    <2>2. CASE table[k].ns = ns /\ e \in DOMAIN table[k].days
      BY <1>2, <2>2 DEF Stands
    <2>3. CASE e \in DOMAIN r[k - 1] /\ (table[k].ns = ns => ~(table[k].from <= e /\ e <= table[k].to))
      <3>1. Stands(table, ns, k - 1, e)
        BY <1>11, <2>3
      <3>2. PICK i \in 1..(k - 1) :
               /\ table[i].ns = ns /\ e \in DOMAIN table[i].days
               /\ \A j \in 1..(k - 1) : i < j /\ table[j].ns = ns => ~(table[j].from <= e /\ e <= table[j].to)
        BY <3>1 DEF Stands
      <3>3. i \in 1..k /\ \A j \in 1..k : j = k \/ j \in 1..(k - 1)
        BY <1>2
      <3> QED BY <2>3, <3>2, <3>3 DEF Stands
    <2> QED BY <2>1, <2>2, <2>3
  <1> HIDE DEF K
  <1>12. n \in K
    <2>1. \A k \in 0..n : k \in K
      <3>1. \A k \in 1..n : k - 1 \in K => k \in K
        BY <1>11
      <3> QED BY <1>2, <1>10, <3>1, CountUp
    <2> QED BY <1>2, <2>1
  <1>13. chainDayMap(table, ns) = r[n]
    <2> HIDE DEF h
    <2> QED BY <1>1, <1>2, <1>8
  <1> QED BY <1>12, <1>13 DEF K, n

-----------------------------------------------------------------------------
(* What the ledger holds of the account. *)

DaysUsed(s) == {d \in Days : usage[s][d] > 0}

\* The days that the chain may hold beside totals: those of its account; of a history
\* without one, the days from before, until it was declined.
Owned(subject) ==
    IF subject # Nobody THEN DaysUsed(subject) ELSE IF meta.decision = "declined" THEN Days ELSE OldDays

HistoryInv ==
    /\ today \in Days /\ usage \in [Subjects -> [Days -> Nat]]
    /\ \A s \in Subjects, d \in OldDays : usage[s][d] > 0
    /\ signed \in Subjects /\ reads \in Nat
    /\ meta.subject \in Subjects \cup {Nobody}
    /\ meta.decision = "declined" => HasObservation
    /\ LedgerOK(obs, Owned(meta.subject), reads, today)

LEMMA OldAreDays == OldDays \subseteq Days
  <1>1. MaxDay \in Nat /\ FirstDay \in 1..MaxDay /\ OldDays \in SUBSET (1..FirstDay)
    BY HistoryAssumption
  <1>2. \A d \in 1..FirstDay : d \in 1..MaxDay
    BY <1>1
  <1> QED BY <1>1, <1>2 DEF Days

LEMMA LedgerMore ==
    ASSUME today \in Int, NEW table, NEW less, NEW more, NEW last \in Nat, NEW later \in Nat, last <= later,
           NEW now \in Int, today <= now, LedgerOK(table, less, last, today), less \subseteq more
    PROVE  LedgerOK(table, more, later, now)
  <1>1. \A i \in DOMAIN table : /\ table[i].at \in Nat /\ table[i].at <= last
                                /\ ChainWindow(table[i]) => table[i].to \in Int /\ table[i].to <= today
    BY DEF LedgerOK
  <1>2. \A i \in DOMAIN table : /\ table[i].at <= later
                                /\ ChainWindow(table[i]) => table[i].to <= now
    BY <1>1
  <1>3. \A i, e : Explained(table, less, i, e) => Explained(table, more, i, e)
    BY DEF Explained
  <1> QED BY <1>1, <1>2, <1>3 DEF LedgerOK

\* A history without observations is explained by no days.
LEMMA NoLedger ==
    ASSUME NEW spent, NEW other, NEW last, LedgerOK(obs, spent, last, today), ~HasObservation
    PROVE  LedgerOK(obs, other, last, today)
  BY DEF LedgerOK, HasObservation

LEMMA OwnedGrows ==
    ASSUME NEW subject \in Subjects, \A s \in Subjects, d \in OldDays : usage[s][d] > 0,
           meta.decision # "declined"
    PROVE  Owned(Nobody) \subseteq Owned(subject)
  BY OldAreDays, HistoryAssumption DEF Owned, DaysUsed

LEMMA AnswerParts ==
    ASSUME NEW error, NEW ns, NEW subject, NEW r, r = [error |-> error, ns |-> ns, subject |-> subject]
    PROVE  r.error = error /\ r.ns = ns /\ r.subject = subject
  OBVIOUS

LEMMA AcceptedParts ==
    ASSUME NEW ns, NEW subject
    PROVE  Accepted(ns, subject).ns = ns /\ Accepted(ns, subject).subject = subject
  BY AnswerParts, Zenon DEF Accepted

LEMMA RefusedParts ==
    ASSUME NEW error
    PROVE  Refused(error).error = error /\ Refused(error).subject = meta.subject
  BY AnswerParts, Zenon DEF Refused

\* The account's own days, under any account a reading may leave.
LEMMA AcceptedOwn ==
    ASSUME HistoryInv, Nameless = {}
    PROVE  LET who == AcceptSubject(Sub(signed))
           IN /\ who.subject \in Subjects \cup {Nobody}
              /\ LedgerOK(obs, Owned(who.subject), reads, today)
              /\ Fine(who.error) => \/ who.ns = Chain /\ who.subject = signed
                                    \/ who.ns = signed /\ who.subject = Nobody /\ meta.decision = "declined"
              /\ who.subject # meta.subject => ~HasObservation /\ who.subject = signed
  <1> DEFINE who == AcceptSubject(Sub(signed))
  <1>1. Sub(signed) = signed /\ signed \in Subjects /\ signed # Nobody
    BY HistoryAssumption DEF HistoryInv, Sub
  <1>2. ~Fine("mismatch") /\ ~Fine("unbound")
    BY Zenon DEF Fine
  <1>3. CASE meta.subject # Nobody
    <2>1. (who = Accepted(Chain, meta.subject) /\ signed = meta.subject) \/ who = Refused("mismatch")
      BY <1>1, <1>3 DEF AcceptSubject
    <2>2. who.subject = meta.subject
      BY <2>1, AcceptedParts, RefusedParts
    <2>3. Fine(who.error) => who.ns = Chain /\ signed = meta.subject
      BY <1>2, <2>1, AcceptedParts, RefusedParts
    <2> HIDE DEF who
    <2>4. who.subject \in Subjects \cup {Nobody} /\ LedgerOK(obs, Owned(who.subject), reads, today)
      BY <2>2 DEF HistoryInv
    <2> QED BY <2>2, <2>3, <2>4 DEF who
  <1>4. CASE meta.subject = Nobody /\ ~HasObservation
    <2>1. who = Accepted(Chain, signed)
      BY <1>1, <1>4 DEF AcceptSubject
    <2>2. who.subject = signed /\ who.ns = Chain
      BY <2>1, AcceptedParts
    <2> HIDE DEF who
    <2>3. LedgerOK(obs, Owned(who.subject), reads, today)
      BY <1>4, NoLedger DEF HistoryInv
    <2> QED BY <1>1, <1>4, <2>2, <2>3 DEF who
  <1>5. CASE meta.subject = Nobody /\ HasObservation
    <2>1. \/ who = Accepted(signed, Nobody) /\ meta.decision = "declined"
          \/ who = Refused("unbound")
      BY <1>1, <1>5 DEF AcceptSubject
    <2>2. who.subject = Nobody
      BY <1>5, <2>1, AcceptedParts, RefusedParts
    <2>3. Fine(who.error) => who.ns = signed /\ meta.decision = "declined"
      BY <1>2, <2>1, AcceptedParts, RefusedParts
    <2> HIDE DEF who
    <2>4. LedgerOK(obs, Owned(who.subject), reads, today)
      BY <1>5, <2>2 DEF HistoryInv
    <2> QED BY <1>5, <2>2, <2>3, <2>4 DEF who
  <1> QED BY <1>3, <1>4, <1>5

-----------------------------------------------------------------------------
(* What a scan makes of it. *)

Who == AcceptSubject(Sub(signed))

GotBy(outcome) ==
    IF outcome.net /\ Who.error = "" THEN AccountUsage(WindowsToAsk, Protect, outcome)
    ELSE [rows |-> {}, windows |-> <<>>, error |-> IF outcome.net THEN Who.error ELSE ""]

NoteOf(got) ==
    [ns |-> Chain, kind |-> "complete", from |-> Min(DaysOf(got.rows)), to |-> Max(DaysOf(got.rows)),
     at |-> reads, days |-> DaysIn(got.rows, 1, MaxDay), stamp |-> IF got.error = "" THEN reads ELSE 0]

Lookedback == [from |-> Max({1, today - Lookback}), to |-> today]

LEMMA ScanParts ==
    ASSUME NEW outcome
    PROVE  /\ ScanOf(outcome).table = IF GotBy(outcome).windows # <<>>
                                      THEN Noted(Who.ns, GotBy(outcome).windows, GotBy(outcome).rows)
                                      ELSE IF GotBy(outcome).rows # {} THEN insertObservation(obs, NoteOf(GotBy(outcome)))
                                      ELSE obs
           /\ ScanOf(outcome).subject = IF outcome.net THEN Who.subject ELSE meta.subject
           /\ ScanOf(outcome).rows =
                IF GotBy(outcome).windows = <<>> THEN GotBy(outcome).rows
                ELSE GotBy(outcome).rows \cup
                     AccountSupplement(Noted(Who.ns, GotBy(outcome).windows, GotBy(outcome).rows), Who.ns,
                                       Lookedback, ToSet(GotBy(outcome).windows), GotBy(outcome).rows)
           /\ ScanOf(outcome).error = GotBy(outcome).error
           /\ ScanOf(outcome).note = IF GotBy(outcome).windows = <<>> /\ GotBy(outcome).rows # {}
                                     THEN {NoteOf(GotBy(outcome))} ELSE {}
           /\ ScanOf(outcome).asked = IF outcome.net /\ Who.error = "" THEN ToSet(GotBy(outcome).windows) ELSE {}
           /\ ScanOf(outcome).protect = Protect /\ ScanOf(outcome).net = outcome.net
  BY Zenon DEF ScanOf, GotBy, NoteOf, Who, Noted, Lookedback

\* What nobody was asked for is nothing.
LEMMA GotNothing ==
    ASSUME NEW outcome, ~(outcome.net /\ Fine(Who.error))
    PROVE  GotBy(outcome).windows = <<>> /\ GotBy(outcome).rows = {}
  BY Zenon DEF GotBy, Fine

LEMMA ProtectIsDay ==
    ASSUME HistoryInv
    PROVE  Protect \in Int
  <1> DEFINE kept == UNION {DOMAIN o.days : o \in {p \in ToSet(obs) : InChain(p) /\ p.kind = "snapshot"}}
  <1>1. kept \subseteq 0..MaxDay /\ MaxDay \in Nat
    <2>1. MaxDay \in Nat
      BY HistoryAssumption
    <2>2. \A i \in DOMAIN obs : InChain(obs[i]) => \A e \in DOMAIN obs[i].days : e \in 1..MaxDay
      BY DEF HistoryInv, LedgerOK, Explained, Days
    <2>3. \A o \in ToSet(obs) : InChain(o) => \A e \in DOMAIN o.days : e \in 1..MaxDay
      BY <2>2 DEF ToSet
    <2>4. \A e \in 1..MaxDay : e \in 0..MaxDay
      BY <2>1
    <2> QED BY <2>1, <2>3, <2>4
  <1>2. ProtectedThrough = IF meta.subject = Nobody THEN NoDay ELSE Max({NoDay} \cup kept)
    BY DEF ProtectedThrough
  <1> HIDE DEF kept
  <1>3. Max({NoDay} \cup kept) \in {NoDay} \cup kept
    <2>1. {NoDay} \cup kept \in SUBSET (0..MaxDay) /\ {NoDay} \cup kept # {}
      BY <1>1 DEF NoDay
    <2> QED BY <1>1, <2>1, SetMax
  <1>4. ProtectedThrough \in Int
    BY <1>1, <1>2, <1>3 DEF NoDay
  <1> QED BY <1>4 DEF Protect, NoDay

LEMMA GotReads ==
    ASSUME HistoryInv, NEW outcome
    PROVE  /\ today \in Nat \ {0} /\ Protect \in Int
           /\ GotBy(outcome).windows \in Seq(AllWindows(today))
           /\ \A r \in GotBy(outcome).rows :
                 /\ r.kind = "fresh" /\ r.day \in 1..today
                 /\ r.n > 0 => \/ r.day \in SpentDays
                               \/ GotBy(outcome).windows = <<>> /\ r.day = today
           /\ Fine(GotBy(outcome).error) /\ GotBy(outcome).windows # <<>>
              => today < Protect \/ OpenShown(GotBy(outcome), Protect)
  <1>1. /\ today \in Nat \ {0} /\ \A d \in 1..today : usage[signed][d] \in Nat
    <2>1. MaxDay \in Nat /\ today \in 1..MaxDay
      BY HistoryAssumption DEF HistoryInv, Days
    <2>2. \A d \in 1..today : d \in Days
      BY <2>1 DEF Days
    <2>3. usage[signed] \in [Days -> Nat]
      BY DEF HistoryInv
    <2> QED BY <2>1, <2>2, <2>3
  <1>2. Protect \in Int
    BY ProtectIsDay
  <1>3. CASE outcome.net /\ Fine(Who.error)
    <2>1. GotBy(outcome) = AccountUsage(WindowsToAsk, Protect, outcome)
      BY <1>3, Zenon DEF GotBy, Fine
    <2>2. MonthsAsked(WindowsToAsk)
      BY <1>1, AskedEndsOpen DEF MonthsAsked, WindowsToAsk
    <2> QED BY <1>1, <1>2, <2>1, <2>2, UsageReads
  <1>4. CASE ~(outcome.net /\ Fine(Who.error))
    <2>1. GotBy(outcome).windows = <<>> /\ GotBy(outcome).rows = {}
      BY <1>4, GotNothing
    <2>2. GotBy(outcome).windows \in Seq(AllWindows(today))
      BY <2>1
    <2> QED BY <1>1, <1>2, <2>1, <2>2
  <1> QED BY <1>3, <1>4

LEMMA ScanLedger ==
    ASSUME HistoryInv, Nameless = {}, NEW outcome
    PROVE  /\ ScanOf(outcome).subject \in Subjects \cup {Nobody}
           /\ ScanOf(outcome).subject # meta.subject => ~HasObservation
           /\ LedgerOK(ScanOf(outcome).table, Owned(ScanOf(outcome).subject), reads, today)
           /\ Known(ScanOf(outcome).table)
  <1> DEFINE got == GotBy(outcome)
             table == ScanOf(outcome).table
             subject == ScanOf(outcome).subject
  <1>1. /\ Who.subject \in Subjects \cup {Nobody}
        /\ LedgerOK(obs, Owned(Who.subject), reads, today)
        /\ Fine(Who.error) => \/ Who.ns = Chain /\ Who.subject = signed
                              \/ Who.ns = signed /\ Who.subject = Nobody /\ meta.decision = "declined"
        /\ Who.subject # meta.subject => ~HasObservation
    BY AcceptedOwn DEF Who
  <1>2. subject = IF outcome.net THEN Who.subject ELSE meta.subject
    BY ScanParts
  <1>3. table = IF got.windows # <<>> THEN Noted(Who.ns, got.windows, got.rows)
                ELSE IF got.rows # {} THEN insertObservation(obs, NoteOf(got)) ELSE obs
    BY ScanParts
  <1>4. Known(obs) /\ LedgerOK(obs, Owned(subject), reads, today)
    <2>1. CASE subject = Who.subject
      BY <1>1, <2>1 DEF Known, HasObservation
    <2>2. CASE subject = meta.subject
      <3>1. Owned(subject) = Owned(meta.subject)
        BY <2>2 DEF Owned
      <3> QED BY <3>1 DEF Known, HasObservation, HistoryInv
    <2> QED BY <1>2, <2>1, <2>2
  <1>5. subject \in Subjects \cup {Nobody} /\ (subject # meta.subject => ~HasObservation)
    BY <1>1, <1>2 DEF HistoryInv
  <1>6. CASE ~(outcome.net /\ Fine(Who.error))
    <2>1. table = obs
      BY <1>3, <1>6, GotNothing
    <2> HIDE DEF table, subject
    <2> QED BY <1>4, <1>5, <2>1 DEF table, subject
  <1>7. CASE outcome.net /\ Fine(Who.error)
    <2>1. SpentDays \subseteq Days /\ SpentDays \subseteq Owned(subject)
      <3>1. \A d \in 1..today : d \in Days
        BY HistoryAssumption DEF HistoryInv, Days
      <3>2. SpentDays \subseteq DaysUsed(signed) /\ SpentDays \subseteq Days
        BY <3>1 DEF SpentDays, DaysUsed
      <3>3. subject = Who.subject /\ signed # Nobody
        BY <1>2, <1>7, HistoryAssumption DEF HistoryInv
      <3>4. Owned(subject) = DaysUsed(signed) \/ Owned(subject) = Days
        <4> HIDE DEF subject
        <4> QED BY <1>1, <1>7, <3>3 DEF Owned
      <3> QED BY <3>2, <3>4
    <2>2. /\ today \in Nat \ {0} /\ today \in Days /\ reads \in Nat
          /\ got.windows \in Seq(AllWindows(today))
          /\ \A r \in got.rows : r.n > 0 => \/ r.day \in SpentDays
                                            \/ got.windows = <<>> /\ r.day = today
      BY GotReads DEF HistoryInv
    <2> DEFINE spent == Owned(subject)
    <2> HIDE DEF got, subject, table, spent
    <2>3. CASE got.windows # <<>>
      <3>1. \A r \in got.rows : r.n > 0 => r.day \in spent /\ r.day \in Days
        BY <2>1, <2>2, <2>3 DEF spent
      <3>2. LedgerOK(obs, spent, reads, today)
        BY <1>4 DEF spent
      <3>3. LedgerOK(Noted(Who.ns, got.windows, got.rows), spent, reads, today) /\ Known(Noted(Who.ns, got.windows, got.rows))
        BY <2>2, <2>3, <3>1, <3>2, WindowsNoted
      <3> QED BY <1>3, <1>5, <2>3, <3>3 DEF subject, table, spent
    <2>4. CASE got.windows = <<>>
      <3> DEFINE note == NoteOf(got)
      <3>1. NoteOK(note, spent, reads, today)
        <4>1. note.at = reads /\ note.days = DaysIn(got.rows, 1, MaxDay)
          BY Zenon DEF NoteOf
        <4>2. ~ChainWindow(note)
          BY Zenon DEF NoteOf, ChainWindow
        <4>3. \A e \in DOMAIN note.days : e \in Days /\ (e \in spent \/ e = today)
          <5>1. \A e \in DOMAIN DaysIn(got.rows, 1, MaxDay) : \E r \in got.rows : r.n > 0 /\ r.day = e
            BY DEF DaysIn, DaysOf
          <5>2. \A e \in DOMAIN note.days : \E r \in got.rows : r.n > 0 /\ r.day = e
            BY <4>1, <5>1
          <5> HIDE DEF note
          <5> QED BY <2>1, <2>2, <5>2 DEF spent
        <4> HIDE DEF note
        <4> QED BY <2>2, <4>1, <4>2, <4>3 DEF NoteOK
      <3> HIDE DEF note
      <3>2. LedgerOK(obs, spent, reads, today) /\ IsTable(obs)
        BY <1>4 DEF spent, LedgerOK
      <3>3. LedgerOK(insertObservation(obs, note), spent, reads, today) /\ Known(insertObservation(obs, note))
        <4>1. today \in Int /\ reads \in Nat
          BY <2>2
        <4> QED BY <1>4, <3>1, <3>2, <4>1, LedgerGrows, StaysKnown
      <3> QED BY <1>3, <1>4, <1>5, <2>4, <3>2, <3>3 DEF subject, table, spent, note
    <2> QED BY <2>3, <2>4
  <1> QED BY <1>6, <1>7

-----------------------------------------------------------------------------
(* The invariant. *)

\* The days of a snapshot are days from before, which every account has used.
LEMMA SeedNoted ==
    ASSUME HistoryInv, NEW subject \in Subjects \cup {Nobody}
    PROVE  NoteOK(Seed, Owned(subject), reads, today) /\ OldDays \subseteq Owned(subject)
  <1>1. OldDays \subseteq Days
    BY OldAreDays
  <1>2. OldDays \subseteq Owned(subject)
    <2>1. CASE subject # Nobody
      BY <1>1, <2>1 DEF Owned, DaysUsed, HistoryInv
    <2>2. CASE subject = Nobody
      BY <1>1, <2>2 DEF Owned
    <2> QED BY <2>1, <2>2
  <1>3. Seed.at = 0 /\ Seed.kind = "snapshot" /\ DOMAIN Seed.days = OldDays
    BY DEF Seed
  <1>4. 0 <= reads
    BY DEF HistoryInv
  <1> QED BY <1>1, <1>2, <1>3, <1>4 DEF NoteOK, ChainWindow

LEMMA ScanTable ==
    ASSUME NEW outcome, NEW table
    PROVE  [ScanOf(outcome) EXCEPT !.table = table].table = table
  BY DEF ScanOf

LEMMA MetaParts ==
    ASSUME NEW subject, NEW decision, NEW who, meta = [subject |-> subject, decision |-> decision, who |-> who]
    PROVE  /\ meta.subject = subject /\ meta.decision = decision /\ meta.who = who
           /\ \A other : [meta EXCEPT !.subject = other].subject = other
                         /\ [meta EXCEPT !.subject = other].decision = decision
                         /\ [meta EXCEPT !.decision = "declined", !.who = other].subject = subject
                         /\ [meta EXCEPT !.decision = "declined", !.who = other].decision = "declined"
  OBVIOUS

\* The world moves on: usage and days only grow, and nothing is observed.
LEMMA UnreadStep ==
    ASSUME HistoryInv, obs' = obs, reads' = reads, signed' \in Subjects,
           today' \in Days, today <= today',
           usage' \in [Subjects -> [Days -> Nat]], \A s \in Subjects, d \in Days : usage[s][d] <= usage'[s][d],
           meta'.subject \in Subjects \cup {Nobody}, meta'.decision = "declined" => HasObservation,
           Owned(meta.subject) \subseteq Owned(meta.subject)'
    PROVE  HistoryInv'
  <1>1. \A s \in Subjects, d \in OldDays : usage'[s][d] > 0
    <2>1. \A s \in Subjects, d \in OldDays : /\ d \in Days /\ usage[s][d] > 0 /\ usage[s][d] <= usage'[s][d]
                                             /\ usage[s][d] \in Nat /\ usage'[s][d] \in Nat
      BY OldAreDays DEF HistoryInv
    <2> QED BY <2>1
  <1>2. today \in Int /\ today' \in Int /\ reads \in Nat
    BY HistoryAssumption DEF HistoryInv, Days
  <1>3. LedgerOK(obs, Owned(meta.subject), reads, today)
    BY DEF HistoryInv
  <1>4. LedgerOK(obs', Owned(meta.subject)', reads', today')
    BY <1>2, <1>3, LedgerMore
  <1>5. HasObservation' <=> HasObservation
    BY DEF HasObservation
  <1> QED BY <1>1, <1>2, <1>4, <1>5 DEF HistoryInv

LEMMA ScanStep ==
    ASSUME Nameless = {}, Answer, HistoryInv, Scan
    PROVE  HistoryInv'
  <1>1. PICK outcome : Report(ScanOf(outcome)) \/ Refresh(ScanOf(outcome))
    BY DEF Scan
  <1> DEFINE scan == ScanOf(outcome)
             subject == scan.subject
             seeded == insertObservation(scan.table, Seed)
             spent == Owned(scan.subject)
  <1>2. /\ scan.subject \in Subjects \cup {Nobody} /\ (scan.subject # meta.subject => ~HasObservation)
        /\ LedgerOK(scan.table, spent, reads, today) /\ Known(scan.table)
    BY ScanLedger
  <1>3. LedgerOK(seeded, spent, reads, today) /\ Known(seeded)
    <2> HIDE DEF scan
    <2>1. NoteOK(Seed, spent, reads, today)
      BY <1>2, SeedNoted
    <2>2. today \in Int /\ reads \in Nat
      BY HistoryAssumption DEF HistoryInv, Days
    <2> HIDE DEF spent
    <2>3. LedgerOK(seeded, spent, reads, today)
      BY <1>2, <2>1, <2>2, LedgerGrows
    <2>4. IsTable(scan.table)
      BY <1>2 DEF LedgerOK
    <2> QED BY <1>2, <2>3, <2>4, StaysKnown
  <1>4. /\ obs' = scan.table \/ obs' = seeded
        /\ meta' = [meta EXCEPT !.subject = scan.subject]
        /\ reads' = reads + 1 /\ today' = today /\ usage' = usage /\ signed' = signed
    <2>1. [scan EXCEPT !.table = seeded].table = seeded /\ [scan EXCEPT !.table = seeded].subject = scan.subject
      BY ScanTable, ScanIsRecord
    <2> HIDE DEF scan, seeded
    <2>2. CASE Report(scan)
      BY <2>2 DEF Report, ReadRows
    <2>3. CASE Refresh(scan)
      BY <2>1, <2>3 DEF Refresh, ReadRows, seeded
    <2> QED BY <1>1, <2>2, <2>3 DEF scan
  <1> HIDE DEF scan, seeded, spent
  <1>5. LedgerOK(obs', spent, reads, today) /\ Known(obs')
    BY <1>2, <1>3, <1>4
  <1>6. meta'.subject = scan.subject /\ meta'.decision = meta.decision
    <2>1. PICK old, decision, who : meta = [subject |-> old, decision |-> decision, who |-> who]
      BY DEF Answer
    <2> QED BY <1>4, <2>1, MetaParts
  <1>7. Owned(meta.subject)' = spent
    BY <1>4, <1>6 DEF Owned, DaysUsed, spent
  <1>8. LedgerOK(obs', Owned(meta.subject)', reads', today')
    <2>1. today \in Int /\ reads \in Nat /\ reads + 1 \in Nat /\ reads <= reads + 1
      BY HistoryAssumption DEF HistoryInv, Days
    <2>2. LedgerOK(obs', spent, reads + 1, today)
      BY <1>5, <2>1, LedgerMore
    <2> QED BY <1>4, <1>7, <2>2
  <1>9. meta'.decision = "declined" => HasObservation'
    BY <1>5, <1>6 DEF HistoryInv, Known, HasObservation
  <1>10. reads' \in Nat
    BY <1>4 DEF HistoryInv
  <1> QED BY <1>2, <1>4, <1>6, <1>8, <1>9, <1>10 DEF HistoryInv

LEMMA ConnectStep ==
    ASSUME Nameless = {}, Answer, HistoryInv, NEW decision \in {"confirmed", "declined"}, Connect(decision)
    PROVE  HistoryInv'
  <1>1. /\ Sub(signed) = signed /\ signed \in Subjects /\ signed # Nobody
        /\ HasObservation /\ meta.subject = Nobody /\ ~(meta.decision = "declined" /\ meta.who = signed)
        /\ meta' = Link(signed, decision)
        /\ today' = today /\ usage' = usage /\ signed' = signed /\ obs' = obs /\ reads' = reads
    BY HistoryAssumption DEF Connect, HistoryInv, Sub
  <1>2. PICK old, given, who : meta = [subject |-> old, decision |-> given, who |-> who]
    BY DEF Answer
  <1>3. \/ meta' = meta
        \/ meta.decision # "declined" /\ meta' = [subject |-> signed, decision |-> "confirmed", who |-> signed]
        \/ meta' = [meta EXCEPT !.decision = "declined", !.who = signed]
    BY <1>1 DEF Link, Answer
  <1>4. /\ meta'.subject \in Subjects \cup {Nobody}
        /\ Owned(meta.subject) \subseteq Owned(meta.subject)'
    <2>1. CASE meta' = meta
      BY <1>1, <2>1 DEF HistoryInv, Owned, DaysUsed
    <2>2. CASE meta.decision # "declined" /\ meta' = [subject |-> signed, decision |-> "confirmed", who |-> signed]
      <3>1. meta'.subject = signed
        BY <2>2
      <3>2. Owned(meta.subject) \subseteq Owned(signed)
        BY <1>1, <2>2, OwnedGrows DEF HistoryInv
      <3>3. Owned(meta.subject)' = Owned(signed)
        BY <1>1, <3>1 DEF Owned, DaysUsed
      <3> QED BY <1>1, <3>1, <3>2, <3>3
    <2>3. CASE meta' = [meta EXCEPT !.decision = "declined", !.who = signed]
      <3>1. meta'.subject = Nobody /\ meta'.decision = "declined"
        BY <1>1, <1>2, <2>3, MetaParts
      <3>2. Owned(meta.subject)' = Days
        BY <3>1 DEF Owned
      <3>3. Owned(meta.subject) \subseteq Days
        BY <1>1, OldAreDays DEF Owned
      <3> QED BY <3>1, <3>2, <3>3
    <2> QED BY <1>3, <2>1, <2>2, <2>3
  <1>5. /\ today' \in Days /\ today <= today' /\ signed' \in Subjects
        /\ usage' \in [Subjects -> [Days -> Nat]] /\ \A s \in Subjects, d \in Days : usage[s][d] <= usage'[s][d]
    <2>1. /\ today \in Int /\ today \in Days /\ usage \in [Subjects -> [Days -> Nat]]
          /\ \A s \in Subjects, d \in Days : usage[s][d] \in Nat
      BY HistoryAssumption DEF HistoryInv, Days
    <2>2. \A n \in Nat : n <= n
      OBVIOUS
    <2>3. \A s \in Subjects, d \in Days : usage[s][d] <= usage'[s][d]
      BY <1>1, <2>1, <2>2
    <2> QED BY <1>1, <2>1, <2>3
  <1> QED BY <1>1, <1>4, <1>5, UnreadStep

LEMMA SpendStep ==
    ASSUME HistoryInv, Spend
    PROVE  HistoryInv'
  <1>1. /\ usage \in [Subjects -> [Days -> Nat]] /\ signed \in Subjects /\ today \in Days
        /\ usage' = [usage EXCEPT ![signed] = [usage[signed] EXCEPT ![today] = usage[signed][today] + 1]]
        /\ today' = today /\ signed' = signed /\ obs' = obs /\ meta' = meta /\ reads' = reads
    BY DEF Spend, HistoryInv
  <1>2. usage[signed] \in [Days -> Nat] /\ usage[signed][today] \in Nat
    BY <1>1
  <1> DEFINE more == [usage[signed] EXCEPT ![today] = usage[signed][today] + 1]
  <1>3. more \in [Days -> Nat] /\ \A d \in Days : usage[signed][d] <= more[d]
    <2>1. usage[signed][today] + 1 \in Nat /\ usage[signed][today] <= usage[signed][today] + 1
      BY <1>2
    <2>2. more \in [Days -> Nat]
      BY <1>2, <2>1
    <2>3. \A d \in Days : usage[signed][d] \in Nat /\ more[d] = IF d = today THEN usage[signed][today] + 1 ELSE usage[signed][d]
      BY <1>2
    <2> HIDE DEF more
    <2>4. \A n \in Nat : n <= n
      OBVIOUS
    <2> QED BY <2>1, <2>2, <2>3, <2>4
  <1> HIDE DEF more
  <1>4. /\ usage' \in [Subjects -> [Days -> Nat]]
        /\ \A s \in Subjects : usage'[s] = IF s = signed THEN more ELSE usage[s]
    BY <1>1, <1>3 DEF more
  <1>5. \A s \in Subjects, d \in Days : usage[s][d] \in Nat /\ usage'[s][d] \in Nat /\ usage[s][d] <= usage'[s][d]
    BY <1>1, <1>3, <1>4
  <1>6. \A s \in Subjects : DaysUsed(s) \subseteq DaysUsed(s)'
    <2>1. \A a, b \in Nat : a > 0 /\ a <= b => b > 0
      OBVIOUS
    <2> QED BY <1>5, <2>1 DEF DaysUsed
  <1>7. Owned(meta.subject) \subseteq Owned(meta.subject)'
    BY <1>1, <1>6 DEF Owned, HistoryInv
  <1>8. today \in Int
    BY HistoryAssumption DEF HistoryInv, Days
  <1> QED BY <1>1, <1>4, <1>5, <1>7, <1>8, UnreadStep DEF HistoryInv

LEMMA HistoryStep ==
    ASSUME Nameless = {}, Answer, HistoryInv, [HistoryNext]_historyVars
    PROVE  HistoryInv'
  <1>1. today \in Int /\ MaxDay \in Nat /\ \A s \in Subjects, d \in Days : usage[s][d] \in Nat
    BY HistoryAssumption DEF HistoryInv, Days
  <1>2. CASE NextDay
    <2>1. /\ today < MaxDay /\ today' = today + 1
          /\ usage' = usage /\ signed' = signed /\ obs' = obs /\ meta' = meta /\ reads' = reads
      BY <1>2 DEF NextDay
    <2>2. today' \in Days /\ today <= today'
      BY <1>1, <2>1 DEF HistoryInv, Days
    <2>3. Owned(meta.subject)' = Owned(meta.subject)
      BY <2>1 DEF Owned, DaysUsed
    <2> QED BY <1>1, <2>1, <2>2, <2>3, UnreadStep DEF HistoryInv
  <1>3. ASSUME NEW s \in Subjects, SignIn(s)
        PROVE  HistoryInv'
    <2>1. /\ today' = today /\ usage' = usage /\ signed' = s /\ obs' = obs /\ meta' = meta /\ reads' = reads
      BY <1>3 DEF SignIn
    <2>2. Owned(meta.subject)' = Owned(meta.subject)
      BY <2>1 DEF Owned, DaysUsed
    <2> QED BY <1>1, <2>1, <2>2, UnreadStep DEF HistoryInv
  <1>4. CASE UNCHANGED historyVars
    <2>1. /\ today' = today /\ usage' = usage /\ signed' = signed /\ obs' = obs /\ meta' = meta /\ reads' = reads
      BY <1>4 DEF historyVars
    <2>2. Owned(meta.subject)' = Owned(meta.subject)
      BY <2>1 DEF Owned, DaysUsed
    <2> QED BY <1>1, <2>1, <2>2, UnreadStep DEF HistoryInv
  <1> QED BY <1>2, <1>3, <1>4, SpendStep, ScanStep, ConnectStep DEF HistoryNext

LEMMA HistoryStarts ==
    ASSUME HistoryInit
    PROVE  HistoryInv /\ Answer
  <1>1. /\ today = FirstDay /\ signed \in Subjects /\ reads = 1
        /\ usage = [s \in Subjects |-> [d \in Days |-> IF d \in OldDays THEN 1 ELSE 0]]
    BY DEF HistoryInit
  <1>2. /\ Answer /\ meta.subject = Nobody /\ meta.decision # "declined"
    <2>1. PICK given : given = "" /\ meta = [subject |-> Nobody, decision |-> given, who |-> Nobody]
      BY Zenon DEF HistoryInit
    <2>2. given # "declined" /\ given \in {"", "declined", "confirmed"}
      BY <2>1, Zenon
    <2>3. meta.subject = Nobody /\ meta.decision = given
      BY <2>1, MetaParts, Zenon
    <2>4. Answer
      BY <2>1, <2>2, <2>3, Zenon DEF Answer
    <2> QED BY <2>2, <2>3, <2>4, Zenon
  <1>3. today \in Days /\ usage \in [Subjects -> [Days -> Nat]]
        /\ \A s \in Subjects, d \in OldDays : usage[s][d] > 0
    <2>1. today \in Days
      BY <1>1, HistoryAssumption DEF Days
    <2>2. OldDays \subseteq Days
      BY OldAreDays
    <2> QED BY <1>1, <2>1, <2>2
  <1>4. LedgerOK(obs, OldDays, 1, today)
    <2>1. CASE obs = <<>>
      <3>1. obs \in Seq(ToSet(obs)) /\ DOMAIN obs = {}
        BY <2>1
      <3> QED BY <3>1 DEF LedgerOK, IsTable
    <2>2. ASSUME NEW kind, kind \in {"snapshot", "complete"}, obs = <<[Seed EXCEPT !.kind = kind]>>
          PROVE  LedgerOK(obs, OldDays, 1, today)
      <3> DEFINE o == [Seed EXCEPT !.kind = kind]
      <3>1. o.at = 0 /\ o.kind = kind /\ DOMAIN o.days = OldDays
        BY DEF Seed
      <3>2. ~ChainWindow(o)
        BY <2>2, <3>1 DEF ChainWindow
      <3> HIDE DEF o
      <3>3. obs \in Seq({o}) /\ DOMAIN obs = {1} /\ obs[1] = o
        BY <2>2 DEF o
      <3>4. IsTable(obs)
        BY <3>3, SeqIsTable
      <3>5. \A e \in OldDays : Explained(obs, OldDays, 1, e)
        BY OldAreDays DEF Explained
      <3>6. 0 \in Nat /\ 0 <= 1
        OBVIOUS
      <3> QED BY <3>1, <3>2, <3>3, <3>4, <3>5, <3>6 DEF LedgerOK
    <2>3. obs = <<>> \/ \E kind \in {"snapshot", "complete"} : obs = <<[Seed EXCEPT !.kind = kind]>>
      BY Zenon DEF HistoryInit
    <2> QED BY <2>1, <2>2, <2>3
  <1>5. Owned(meta.subject) = OldDays
    BY <1>2 DEF Owned
  <1>6. 1 \in Nat
    OBVIOUS
  <1> QED BY <1>1, <1>2, <1>3, <1>4, <1>5, <1>6 DEF HistoryInv

-----------------------------------------------------------------------------
(* The days shown. *)

\* A set of rows shows a day of the account that is signed in as it is.
Exact(counted, d) ==
    /\ usage[signed][d] > 0 => FreshRow(d, usage[signed][d]) \in counted
    /\ \A r \in counted : r.day = d => r.n = usage[signed][d] /\ r.kind = "fresh"

LEMMA SetMin ==
    ASSUME NEW T \in SUBSET Nat, T # {}
    PROVE  Min(T) \in T
  <1>1. \E x \in T : \A y \in T : x <= y
    BY LeastNatural
  <1> QED BY <1>1 DEF Min

LEMMA SumOfOne ==
    ASSUME NEW f
    PROVE  /\ Sum2(f, {}) = 0
           /\ \A x : f[x] \in Int => Sum2(f, {x}) = f[x]
  <1> DEFINE Step(g, S) == [s \in SUBSET S |-> IF s = {} THEN 0
                                               ELSE f[CHOOSE y \in s : TRUE] + g[s \ {CHOOSE y \in s : TRUE}]]
             H(S) == CHOOSE g : g = Step(g, S)
  <1>1. \A S : Sum2(f, S) = H(S)[S]
    BY DEF Sum2, FoldFunctionOnSet, MapThenFoldSet
  <1>2. H({})[{}] = 0
    <2> DEFINE g == [s \in SUBSET {} |-> 0]
    <2>1. g = Step(g, {})
      OBVIOUS
    <2>2. H({}) = Step(H({}), {})
      <3> HIDE DEF Step, g
      <3> QED BY <2>1
    <2> QED BY <2>2
  <1>3. ASSUME NEW x, f[x] \in Int
        PROVE  H({x})[{x}] = f[x]
    <2> DEFINE g == [s \in SUBSET {x} |-> IF s = {} THEN 0 ELSE f[x]]
    <2>1. \A s \in SUBSET {x} : s # {} => (CHOOSE y \in s : TRUE) = x /\ s \ {x} = {} /\ s = {x}
      OBVIOUS
    <2>2. f[x] + 0 = f[x]
      BY <1>3
    <2>3. g[{}] = 0
      OBVIOUS
    <2>4. \A s \in SUBSET {x} : g[s] = IF s = {} THEN 0
                                       ELSE f[CHOOSE y \in s : TRUE] + g[s \ {CHOOSE y \in s : TRUE}]
      <3> SUFFICES ASSUME NEW s \in SUBSET {x}
                   PROVE  g[s] = IF s = {} THEN 0
                                 ELSE f[CHOOSE y \in s : TRUE] + g[s \ {CHOOSE y \in s : TRUE}]
        OBVIOUS
      <3>1. CASE s = {}
        BY <3>1
      <3>2. CASE s # {}
        <4>1. g[s] = f[x]
          BY <3>2
        <4>2. g[s \ {CHOOSE y \in s : TRUE}] = 0 /\ (CHOOSE y \in s : TRUE) = x
          <5> HIDE DEF g
          <5> QED BY <2>1, <2>3, <3>2
        <4> HIDE DEF g
        <4> QED BY <2>2, <3>2, <4>1, <4>2
      <3> QED BY <3>1, <3>2
    <2>5. g = Step(g, {x})
      BY <2>4
    <2>6. H({x}) = Step(H({x}), {x})
      <3> HIDE DEF Step, g
      <3> QED BY <2>5
    <2> HIDE DEF H, g
    <2>7. H({x})[{}] = 0
      BY <2>6
    <2>8. H({x})[{x}] = f[CHOOSE y \in {x} : TRUE] + H({x})[{x} \ {CHOOSE y \in {x} : TRUE}]
      BY <2>6
    <2>9. (CHOOSE y \in {x} : TRUE) = x /\ {x} \ {x} = {}
      OBVIOUS
    <2> QED BY <2>2, <2>7, <2>8, <2>9
  <1> HIDE DEF H
  <1> QED BY <1>1, <1>2, <1>3

LEMMA ExactShown ==
    ASSUME NEW counted, NEW d, usage[signed][d] \in Nat, Exact(counted, d)
    PROVE  Sum2([r \in CanonicalRows(counted) |-> r.n], {r \in CanonicalRows(counted) : r.day = d}) = usage[signed][d]
  <1> DEFINE n == usage[signed][d]
             merged == CanonicalRows(counted)
             f == [r \in merged |-> r.n]
             x == [day |-> d, n |-> n, kind |-> "fresh"]
             Larger(r) == Max({q.n : q \in {p \in counted : p.day = r.day /\ p.kind = r.kind}})
  <1>1. \A r \in counted : r.day = d => r.kind = "fresh" /\ Larger(r) = n
    <2> SUFFICES ASSUME NEW r \in counted, r.day = d
                 PROVE  r.kind = "fresh" /\ Larger(r) = n
      OBVIOUS
    <2>1. r.kind = "fresh" /\ r.n = n
      BY DEF Exact
    <2>2. {q.n : q \in {p \in counted : p.day = r.day /\ p.kind = r.kind}} = {n}
      BY <2>1 DEF Exact
    <2>3. \A m \in Nat : Max({m}) = m
      <3> SUFFICES ASSUME NEW m \in Nat
                   PROVE  Max({m}) = m
        OBVIOUS
      <3>1. \E a \in {m} : \A b \in {m} : a >= b
        OBVIOUS
      <3>2. Max({m}) \in {m}
        BY <3>1 DEF Max
      <3> QED BY <3>2
    <2> HIDE DEF n
    <2>4. n \in Nat
      BY DEF n
    <2> QED BY <2>1, <2>2, <2>3, <2>4
  <1>2. merged = {[day |-> r.day, n |-> Larger(r), kind |-> r.kind] : r \in counted}
    BY DEF CanonicalRows, DayRow
  <1> HIDE DEF Larger, merged
  <1>3. \A q \in merged : q.day = d => q = x
    <2> SUFFICES ASSUME NEW q \in merged, q.day = d
                 PROVE  q = x
      OBVIOUS
    <2>1. PICK r \in counted : q = [day |-> r.day, n |-> Larger(r), kind |-> r.kind]
      BY <1>2
    <2>2. r.day = d
      BY <2>1
    <2> QED BY <1>1, <2>1, <2>2
  <1>4. n > 0 => x \in merged
    <2> SUFFICES ASSUME n > 0
                 PROVE  x \in merged
      OBVIOUS
    <2>1. PICK r \in counted : r.day = d
      BY DEF Exact, FreshRow, DayRow
    <2>2. [day |-> r.day, n |-> Larger(r), kind |-> r.kind] = x
      BY <1>1, <2>1
    <2> QED BY <1>2, <2>1, <2>2
  <1>5. x.day = d /\ x.n = n
    OBVIOUS
  <1>6. n \in Nat
    OBVIOUS
  <1> HIDE DEF x, n
  <1>7. CASE x \in merged
    <2>1. {r \in merged : r.day = d} = {x}
      BY <1>3, <1>5, <1>7
    <2>2. f[x] = n
      BY <1>5, <1>7
    <2> HIDE DEF f
    <2>3. Sum2(f, {x}) = n
      BY <1>6, <2>2, SumOfOne
    <2> QED BY <2>1, <2>3 DEF f, merged, n
  <1>8. CASE x \notin merged
    <2>1. {r \in merged : r.day = d} = {} /\ n = 0
      BY <1>3, <1>4, <1>6, <1>8
    <2> HIDE DEF f
    <2>2. Sum2(f, {}) = 0
      BY SumOfOne
    <2> QED BY <2>1, <2>2 DEF f, merged, n
  <1> QED BY <1>7, <1>8

\* What the ledger adds to a fetch are days outside of it, cached ones no later than today.
LEMMA SupplementDays ==
    ASSUME NEW table, NEW ns, NEW fetched, NEW counted,
           NEW r \in AccountSupplement(table, ns, Lookedback, fetched, counted)
    PROVE  /\ ~Inside(r.day, fetched) /\ r.day \in DOMAIN chainDayMap(table, ns)
           /\ r.kind = "cached" => r.day <= today
  <1> DEFINE map == chainDayMap(table, ns)
             Finished(d) == Lookedback.from <= d /\ d <= Lookedback.to /\ Inside(d, Windows(table, ns))
             others == {e \in DOMAIN map : e \notin DaysOf(counted) /\ ~Inside(e, fetched)}
  <1>1. AccountSupplement(table, ns, Lookedback, fetched, counted)
          = {DayRow(d, map[d], IF Finished(d) THEN "cached" ELSE "retained") : d \in others}
    BY DEF AccountSupplement
  <1>2. Lookedback.to = today
    BY DEF Lookedback
  <1>3. \A d : Finished(d) => d <= today
    BY <1>2
  <1> HIDE DEF map, Finished
  <1>4. PICK d \in others : r = DayRow(d, map[d], IF Finished(d) THEN "cached" ELSE "retained")
    BY <1>1
  <1>5. r.day = d /\ (r.kind = "cached" => Finished(d))
    BY <1>4 DEF DayRow
  <1> QED BY <1>3, <1>5 DEF map

\* What a refresh adds are days before the account's own.
LEMMA NarrowDays ==
    ASSUME NEW table, NEW counted, NEW r \in SupplementNarrowWindow(table, counted, {}), r \notin counted
    PROVE  /\ AccountRows(counted) # {} /\ r.day \in DOMAIN chainDayMap(table, Chain)
           /\ r.day < Min(DaysOf(AccountRows(counted))) /\ r.day \notin DaysOf(counted)
  <1> DEFINE map == DayMapWithout(table, Chain, {})
             first == Min(DaysOf(AccountRows(counted)))
             more == {DayRow(d, map[d], "retained") : d \in {e \in DOMAIN map : e < first /\ e \notin DaysOf(counted)}}
  <1>1. SupplementNarrowWindow(table, counted, {}) = IF AccountRows(counted) = {} THEN counted ELSE counted \cup more
    BY Zenon DEF SupplementNarrowWindow
  <1>2. map = chainDayMap(table, Chain)
    BY DEF chainDayMap
  <1> HIDE DEF map, first
  <1>3. AccountRows(counted) # {} /\ r \in more
    BY <1>1
  <1>4. PICK d \in {e \in DOMAIN map : e < first /\ e \notin DaysOf(counted)} : r = DayRow(d, map[d], "retained")
    BY <1>3
  <1>5. r.day = d
    BY <1>4 DEF DayRow
  <1> QED BY <1>2, <1>3, <1>4, <1>5 DEF first

\* A day of the open month without use is none that the chain still holds.
LEMMA OpenReplaced ==
    ASSUME NEW table, NEW spent, LedgerOK(table, spent, reads, today),
           NEW j \in DOMAIN table, ChainWindow(table[j]), table[j].to = today,
           NEW d, table[j].from <= d, d < today, d <= today, d \notin spent
    PROVE  d \notin DOMAIN chainDayMap(table, Chain)
  <1> SUFFICES ASSUME d \in DOMAIN chainDayMap(table, Chain)
               PROVE  FALSE
    OBVIOUS
  <1>1. IsTable(table) /\ DOMAIN table = 1..Len(table)
    BY SeqIsTable DEF LedgerOK, IsTable
  <1>2. Stands(table, Chain, Len(table), d)
    BY <1>1, MapDays
  <1>3. PICK i \in DOMAIN table :
           /\ table[i].ns = Chain /\ d \in DOMAIN table[i].days
           /\ \A k \in DOMAIN table : i < k /\ table[k].ns = Chain => ~(table[k].from <= d /\ d <= table[k].to)
    BY <1>1, <1>2 DEF Stands
  <1>4. Explained(table, spent, i, d)
    BY <1>3 DEF LedgerOK, InChain
  <1>5. i < j
    BY <1>4 DEF Explained
  <1> QED BY <1>3, <1>5 DEF ChainWindow

\* A scan that read the open month of the account shows its days as they are, alone and
\* beside what a refresh adds from the chain.
LEMMA MonthRows ==
    ASSUME HistoryInv, Nameless = {}, NEW outcome, outcome.net, Fine(Who.error), Who.ns = Chain,
           Who.subject = signed, GotBy(outcome).windows # <<>>, Fine(GotBy(outcome).error),
           NEW d \in FirstOf(MonthOf(today))..today, d >= Protect
    PROVE  /\ Exact(ScanOf(outcome).rows, d)
           /\ Exact(SupplementNarrowWindow(ScanOf(outcome).table, ScanOf(outcome).rows, {}), d)
  <1> DEFINE got == GotBy(outcome)
             counted == ScanOf(outcome).rows
             table == ScanOf(outcome).table
             windows == got.windows
             v == windows[Len(windows)]
             more == AccountSupplement(table, Chain, Lookedback, ToSet(windows), got.rows)
             spent == Owned(signed)
  <1>1. /\ today \in Nat \ {0} /\ Protect \in Int /\ windows \in Seq(AllWindows(today)) /\ windows # <<>>
        /\ \A r \in got.rows :
              /\ r.kind = "fresh" /\ r.day \in 1..today
              /\ r.n > 0 => \/ r.day \in SpentDays
                            \/ windows = <<>> /\ r.day = today
        /\ today < Protect \/ OpenShown(got, Protect)
    BY GotReads
  <1>2. d \in Int /\ FirstOf(MonthOf(today)) <= d /\ d <= today /\ ~(today < Protect)
    BY <1>1, InMonth
  <1>3. /\ Len(windows) \in Nat \ {0} /\ v \in AllWindows(today)
        /\ v.from \in {FirstOf(MonthOf(today)), Protect} /\ v.to = today
        /\ \A e \in v.from..v.to :
              /\ usage[signed][e] > 0 => FreshRow(e, usage[signed][e]) \in got.rows
              /\ \A r \in got.rows : r.day = e => r.n = usage[signed][e]
    BY <1>1, <1>2 DEF OpenShown
  <1>4. table = Noted(Chain, windows, got.rows) /\ counted = got.rows \cup more
    BY ScanParts
  <1>5. signed \in Subjects /\ signed # Nobody /\ reads \in Nat /\ today \in Days
        /\ \A e \in 1..today : e \in Days /\ usage[signed][e] \in Nat
    <2>1. MaxDay \in Nat /\ today \in 1..MaxDay
      BY HistoryAssumption DEF HistoryInv, Days
    <2>2. \A e \in 1..today : e \in Days
      BY <2>1 DEF Days
    <2> QED BY <2>2, HistoryAssumption DEF HistoryInv
  <1>6. LedgerOK(table, spent, reads, today)
    <2>1. ScanOf(outcome).subject = signed
      BY ScanParts
    <2> QED BY <2>1, ScanLedger
  <1>7. spent = DaysUsed(signed)
    BY <1>5 DEF Owned
  <1>8. PICK j \in DOMAIN table : ChainWindow(table[j]) /\ table[j].from = v.from /\ table[j].to = today
    <2>1. LedgerOK(obs, spent, reads, today)
      BY AcceptedOwn DEF Who
    <2>2. \A r \in got.rows : r.n > 0 => r.day \in spent /\ r.day \in Days
      <3>1. \A e \in SpentDays : e \in DaysUsed(signed) /\ e \in Days
        BY <1>5 DEF SpentDays, DaysUsed
      <3> HIDE DEF spent, got
      <3> QED BY <1>1, <1>7, <3>1
    <2> HIDE DEF spent, got
    <2> HIDE DEF windows
    <2>3. Chain = Chain => \E k \in DOMAIN Noted(Chain, windows, got.rows) :
                 /\ ChainWindow(Noted(Chain, windows, got.rows)[k])
                 /\ Noted(Chain, windows, got.rows)[k].from = windows[Len(windows)].from
                 /\ Noted(Chain, windows, got.rows)[k].to = windows[Len(windows)].to
      <3>1. PICK own : own = got.rows
        OBVIOUS
      <3>2. Chain = Chain => \A r \in own : r.n > 0 => r.day \in spent /\ r.day \in Days
        BY <2>2, <3>1
      <3> HIDE DEF v
      <3>3. Chain = Chain => \E k \in DOMAIN Noted(Chain, windows, own) :
                 /\ ChainWindow(Noted(Chain, windows, own)[k])
                 /\ Noted(Chain, windows, own)[k].from = windows[Len(windows)].from
                 /\ Noted(Chain, windows, own)[k].to = windows[Len(windows)].to
        BY <1>1, <1>5, <2>1, <3>2, WindowsNoted
      <3> QED BY <3>1, <3>3
    <2> QED BY <1>3, <1>4, <2>3
  <1>9. v.from \in Int /\ v.from <= d /\ d \in v.from..v.to /\ v \in ToSet(windows)
    <2>1. v.from \in Int
      BY <1>3 DEF AllWindows
    <2>2. v.from <= d
      BY <1>2, <1>3
    <2>3. v \in ToSet(windows)
      <3> HIDE DEF windows
      <3>1. DOMAIN windows = 1..Len(windows) /\ Len(windows) \in 1..Len(windows)
        BY <1>1, <1>3, SeqIsTable
      <3> QED BY <3>1 DEF ToSet
    <2> HIDE DEF v
    <2> QED BY <1>2, <1>3, <2>1, <2>2, <2>3
  <1>10. \A r \in more : r.day # d
    <2>1. Inside(d, ToSet(windows))
      <3> HIDE DEF v, windows
      <3> QED BY <1>2, <1>3, <1>9 DEF Inside
    <2> HIDE DEF windows
    <2> QED BY <2>1, SupplementDays
  <1> HIDE DEF windows, v, more
  <1>11. Exact(counted, d)
    <2> HIDE DEF counted, got
    <2> QED BY <1>1, <1>3, <1>4, <1>9, <1>10 DEF Exact
  <1>12. ASSUME NEW r \in SupplementNarrowWindow(table, counted, {}), r \notin counted, r.day = d
         PROVE  FALSE
    <2> DEFINE own == DaysOf(AccountRows(counted))
    <2>1. /\ AccountRows(counted) # {} /\ d \in DOMAIN chainDayMap(table, Chain)
          /\ d < Min(own) /\ d \notin DaysOf(counted)
      <3> HIDE DEF counted, table
      <3> QED BY <1>12, NarrowDays
    <2>2. \A e \in DOMAIN chainDayMap(table, Chain) : e \in Days
      <3> HIDE DEF table
      <3>1. IsTable(table) /\ DOMAIN table = 1..Len(table)
        BY <1>6, SeqIsTable DEF LedgerOK, IsTable
      <3>2. \A e \in DOMAIN chainDayMap(table, Chain) : \E i \in DOMAIN table : table[i].ns = Chain /\ e \in DOMAIN table[i].days
        BY <3>1, MapDays DEF Stands
      <3> QED BY <1>6, <3>2 DEF LedgerOK, InChain, Explained
    <2>3. \A q \in AccountRows(counted) : q.day \in Nat /\ q.day <= today
      <3>1. \A q \in got.rows : q.day \in Nat /\ q.day <= today
        <4>1. \A e \in 1..today : e \in Nat /\ e <= today
          BY <1>1
        <4> HIDE DEF got
        <4> QED BY <1>1, <4>1
      <3>2. \A q \in more : q.day \in Days /\ (q.kind = "cached" => q.day <= today)
        <4> HIDE DEF table, got
        <4> QED BY <2>2, SupplementDays DEF more
      <3>3. \A q \in more : q.kind # "fresh"
        <4> HIDE DEF table, got
        <4> QED BY DEF more, AccountSupplement, DayRow
      <3>4. Days \subseteq Nat
        BY HistoryAssumption DEF Days
      <3> HIDE DEF counted, got
      <3> QED BY <1>4, <3>1, <3>2, <3>3, <3>4 DEF AccountRows
    <2>4. Min(own) \in own
      <3>1. own \in SUBSET Nat /\ own # {}
        <4> HIDE DEF counted
        <4> QED BY <2>1, <2>3 DEF DaysOf
      <3> HIDE DEF own
      <3> QED BY <3>1, SetMin
    <2>5. Min(own) <= today /\ Min(own) \in Nat
      <3> HIDE DEF counted
      <3> QED BY <2>3, <2>4 DEF DaysOf
    <2> HIDE DEF own
    <2>6. d < today
      BY <1>1, <1>2, <2>1, <2>5
    <2>7. ~(usage[signed][d] > 0)
      <3> HIDE DEF counted
      <3> QED BY <1>11, <2>1 DEF Exact, DaysOf, FreshRow, DayRow
    <2>8. d \notin spent
      BY <1>7, <2>7 DEF DaysUsed
    <2>9. d \notin DOMAIN chainDayMap(table, Chain)
      <3> HIDE DEF table, spent
      <3> QED BY <1>2, <1>6, <1>8, <1>9, <2>6, <2>8, OpenReplaced
    <2> QED BY <2>1, <2>9
  <1>13. \A r \in counted : r \in SupplementNarrowWindow(table, counted, {})
    BY DEF SupplementNarrowWindow
  <1>14. Exact(SupplementNarrowWindow(table, counted, {}), d)
    <2> HIDE DEF counted, table
    <2> QED BY <1>11, <1>12, <1>13 DEF Exact
  <1> QED BY <1>11, <1>14

LEMMA FirstIsDay ==
    ASSUME NEW now \in Days
    PROVE  FirstOf(MonthOf(now)) >= 1
  <1>1. now \in Nat \ {0}
    BY HistoryAssumption DEF Days
  <1> DEFINE all == allUsageWindows(now)
             n == Len(all)
  <1>2. all \in Seq(AllWindows(now)) /\ n \in Nat \ {0} /\ all[n].from = FirstOf(MonthOf(now))
    BY <1>1, OpenWindow
  <1> HIDE DEF all
  <1>3. all[n] \in AllWindows(now)
    BY <1>2
  <1> QED BY <1>2, <1>3 DEF AllWindows

LEMMA WholeReads ==
    /\ Whole => Fine(read.error) /\ read.asked # {}
    /\ Whole' => Fine(read'.error) /\ read'.asked # {}
    /\ read' = NoRead => ~Whole'
    /\ read = NoRead => ~Whole
  <1>1. Whole => Fine(read.error) /\ read.asked # {}
    BY Zenon DEF Whole, Fine
  <1>2. Whole' => Fine(read'.error) /\ read'.asked # {}
    BY Zenon DEF Whole, Fine
  <1>3. NoRead.asked = {}
    BY Zenon DEF NoRead
  <1> QED BY <1>1, <1>2, <1>3, Zenon

\* Without an error a report shows the scan, a refresh the days before it as well.
LEMMA RowsOfWhole ==
    ASSUME NEW scan, Fine(scan.error), scan.net, scan.note = {}
    PROVE  /\ ReportRows(scan) = scan.rows
           /\ RefreshRows(scan) = SupplementNarrowWindow(scan.table, scan.rows, {})
  <1>1. ReportRows(scan) = scan.rows
    BY Zenon DEF ReportRows, Fine
  <1>2. RefreshRows(scan) = SupplementNarrowWindow(scan.table, scan.rows, scan.note)
    BY Zenon DEF RefreshRows, Fine
  <1> QED BY <1>1, <1>2

LEMMA ReadParts ==
    ASSUME NEW kind, NEW counted, NEW scan, ReadRows(kind, counted, scan)
    PROVE  /\ read'.rows = CanonicalRows(counted) /\ read'.error = scan.error
           /\ read'.asked = scan.asked /\ read'.protect = scan.protect
           /\ meta' = [meta EXCEPT !.subject = scan.subject]
           /\ today' = today /\ usage' = usage /\ signed' = signed
  BY DEF ReadRows

LEMMA ReadingIsExact ==
    ASSUME Nameless = {}, Answer, HistoryInv, Scan
    PROVE  OpenMonthIsExact'
  <1>1. PICK outcome : Report(ScanOf(outcome)) \/ Refresh(ScanOf(outcome))
    BY DEF Scan
  <1> DEFINE scan == ScanOf(outcome)
             wide == SupplementNarrowWindow(scan.table, scan.rows, {})
  <1> SUFFICES ASSUME Whole', meta'.subject # Nobody,
                      NEW d \in FirstOf(MonthOf(today'))..today', d >= read'.protect
               PROVE  Shown(d)' = usage'[signed'][d]
    BY DEF OpenMonthIsExact
  <1>2. Fine(read'.error) /\ read'.asked # {}
    BY WholeReads
  <1>3. PICK kind, counted :
           /\ ReadRows(kind, counted, scan)
           /\ counted = ReportRows(scan) \/ counted = RefreshRows(scan)
    <2>1. CASE Report(scan)
      BY <2>1 DEF Report
    <2>2. CASE Refresh(scan)
      <3> DEFINE seeded == insertObservation(scan.table, Seed)
                 other == [scan EXCEPT !.table = seeded]
                 all == RefreshRows(scan) \cup ChainedRetained(seeded, Chain)
      <3>1. \/ ReadRows("refresh", RefreshRows(scan), scan)
            \/ ~Fine(scan.error) /\ ReadRows("refresh", all, other)
        BY <2>2, Zenon DEF Refresh, Fine
      <3>2. other.error = scan.error
        BY DEF ScanOf
      <3> HIDE DEF other, all, scan
      <3>3. ~(~Fine(scan.error) /\ ReadRows("refresh", all, other))
        BY <1>2, <3>2, ReadParts
      <3> QED BY <3>1, <3>3
    <2> HIDE DEF scan
    <2> QED BY <1>1, <2>1, <2>2 DEF scan
  <1>4. /\ read'.rows = CanonicalRows(counted) /\ read'.error = scan.error
        /\ read'.asked = scan.asked /\ read'.protect = scan.protect
        /\ meta' = [meta EXCEPT !.subject = scan.subject]
        /\ today' = today /\ usage' = usage /\ signed' = signed
    <2> HIDE DEF scan
    <2> QED BY <1>3, ReadParts
  <1>5. scan.subject # Nobody
    <2>1. PICK old, decision, who : meta = [subject |-> old, decision |-> decision, who |-> who]
      BY DEF Answer
    <2>2. meta'.subject = scan.subject
      <3> HIDE DEF scan
      <3> QED BY <1>4, <2>1, MetaParts
    <2> QED BY <2>2
  <1>6. /\ outcome.net /\ Fine(Who.error) /\ GotBy(outcome).windows # <<>> /\ Fine(GotBy(outcome).error)
        /\ scan.net /\ scan.note = {} /\ scan.protect = Protect /\ Fine(scan.error)
    <2>1. /\ scan.error = GotBy(outcome).error /\ scan.protect = Protect /\ scan.net = outcome.net
          /\ scan.note = IF GotBy(outcome).windows = <<>> /\ GotBy(outcome).rows # {} THEN {NoteOf(GotBy(outcome))} ELSE {}
          /\ outcome.net /\ Fine(Who.error) => scan.asked = ToSet(GotBy(outcome).windows)
          /\ ~(outcome.net /\ Fine(Who.error)) => scan.asked = {}
      BY ScanParts, Zenon DEF Fine
    <2>2. ToSet(<<>>) = {}
      BY DEF ToSet
    <2> HIDE DEF scan
    <2> QED BY <1>2, <1>4, <2>1, <2>2
  <1>7. Who.ns = Chain /\ Who.subject = signed
    <2>1. scan.subject = Who.subject
      BY <1>6, ScanParts
    <2>2. \/ Who.ns = Chain /\ Who.subject = signed
          \/ Who.subject = Nobody
      BY <1>6, AcceptedOwn DEF Who
    <2> QED BY <1>5, <2>1, <2>2
  <1>8. Exact(scan.rows, d) /\ Exact(wide, d)
    <2>1. d \in FirstOf(MonthOf(today))..today /\ d >= Protect
      BY <1>4, <1>6 DEF FirstOf, MonthOf
    <2> QED BY <1>6, <1>7, <2>1, MonthRows
  <1>9. Exact(counted, d)
    <2>1. ReportRows(scan) = scan.rows /\ RefreshRows(scan) = wide
      <3> HIDE DEF scan
      <3> QED BY <1>6, RowsOfWhole
    <2> QED BY <1>3, <1>8, <2>1
  <1>10. usage[signed][d] \in Nat
    <2>1. today \in Int /\ today \in Days /\ usage[signed] \in [Days -> Nat]
      BY HistoryAssumption DEF HistoryInv, Days
    <2>2. MonthOf(today) \in Int /\ FirstOf(MonthOf(today)) \in Int
      BY <2>1, InMonth
    <2>3. CASE d \in Days
      BY <2>1, <2>3
    <2>4. CASE d \notin Days
      <3>1. FirstOf(MonthOf(today)) >= 1
        BY <2>1, FirstIsDay
      <3> QED BY <1>4, <2>1, <2>2, <2>4, <3>1, HistoryAssumption DEF Days
    <2> QED BY <2>3, <2>4
  <1>11. Shown(d)' = Sum2([r \in CanonicalRows(counted) |-> r.n], {r \in CanonicalRows(counted) : r.day = d})
    BY <1>4 DEF Shown
  <1> QED BY <1>4, <1>9, <1>10, <1>11, ExactShown

\* A scan without an error shows the open month of a history whose account is known as it
\* is, however old the remembered reading of it: whatever months it asked for, whichever
\* were answered, whatever earlier scans of this account or of none have left in the ledger,
\* in whatever order, and whether a report or a refresh shows it.
THEOREM MonthIsExact ==
    ASSUME Nameless = {}
    PROVE  HistorySpec => []OpenMonthIsExact
  <1> DEFINE Inv == HistoryInv /\ Answer
  <1>1. HistoryInit => Inv /\ OpenMonthIsExact
    <2> SUFFICES ASSUME HistoryInit
                 PROVE  Inv /\ OpenMonthIsExact
      OBVIOUS
    <2>1. read = NoRead
      BY DEF HistoryInit
    <2> QED BY <2>1, HistoryStarts, WholeReads DEF OpenMonthIsExact
  <1>2. Inv /\ [HistoryNext]_historyVars => Inv'
    BY HistoryStep, StepKeeps
  <1>3. Inv /\ OpenMonthIsExact /\ [HistoryNext]_historyVars => OpenMonthIsExact'
    <2> SUFFICES ASSUME Inv, OpenMonthIsExact, [HistoryNext]_historyVars
                 PROVE  OpenMonthIsExact'
      OBVIOUS
    <2>1. CASE Scan
      BY <2>1, ReadingIsExact
    <2>2. CASE read' = NoRead
      <3>1. ~Whole'
        BY <2>2, WholeReads
      <3> QED BY <3>1 DEF OpenMonthIsExact
    <2>3. CASE UNCHANGED historyVars
      BY <2>3 DEF historyVars, OpenMonthIsExact, Whole, Shown
    <2> QED BY <2>1, <2>2, <2>3 DEF HistoryNext, Spend, NextDay, SignIn, Connect
  <1> HIDE DEF Inv
  <1>4. HistorySpec => []OpenMonthIsExact
    BY <1>1, <1>2, <1>3, PTL DEF HistorySpec
  <1> QED BY <1>4

-----------------------------------------------------------------------------
(* Sums over finite sets. *)

\* h sums f over the subsets of S, one chosen element after the other.
Sums(h, f, S) ==
    \A s \in SUBSET S : h[s] = IF s = {} THEN 0
                               ELSE f[CHOOSE x \in s : TRUE] + h[s \ {CHOOSE x \in s : TRUE}]

LEMMA SumsExist ==
    ASSUME NEW S, IsFiniteSet(S), NEW f, \A x \in S : f[x] \in Nat
    PROVE  \E h : /\ SumOf(f, S) = h[S]
                  /\ h \in [SUBSET S -> Nat]
                  /\ Sums(h, f, S)
  <1> DEFINE Step(g) == [s \in SUBSET S |->
                            IF s = {} THEN 0
                            ELSE f[CHOOSE x \in s : TRUE] + g[s \ {CHOOSE x \in s : TRUE}]]
             h == CHOOSE g : g = Step(g)
             pick == [s \in SUBSET S |-> CHOOSE x \in s : TRUE]
             step == [c \in S |-> [x \in Nat |-> f[c] + x]]
  <1>1. SumOf(f, S) = h[S]
    BY DEF SumOf, FoldFunctionOnSet, MapThenFoldSet
  <1>2. Picks(pick, S)
    BY DEF Picks
  <1>3. step \in [S -> [Nat -> Nat]]
    OBVIOUS
  <1>4. h = Step(h)
    <2>1. PICK g : TheFold(g, S, Nat, 0, step, pick)
      <3> HIDE DEF pick, step
      <3> QED BY <1>2, <1>3, 0 \in Nat, FoldExists
    <2>2. ASSUME NEW s \in SUBSET S, s # {}
          PROVE  step[pick[s]][g[s \ {pick[s]}]] = f[pick[s]] + g[s \ {pick[s]}]
      <3>1. pick[s] \in S /\ g[s \ {pick[s]}] \in Nat
        BY <1>2, <2>1, <2>2 DEF Picks, TheFold
      <3> HIDE DEF pick
      <3> QED BY <3>1
    <2>3. g = [s \in SUBSET S |-> IF s = {} THEN 0 ELSE f[pick[s]] + g[s \ {pick[s]}]]
      <3> HIDE DEF pick, step
      <3> QED BY <2>1, <2>2, Zenon DEF TheFold
    <2>4. g = Step(g)
      BY <2>3
    <2> QED BY <2>4
  <1>5. Folds(h, S, Nat, 0, step, pick)
    <2> HIDE DEF h
    <2> QED BY <1>2, <1>4 DEF Folds, Picks
  <1>6. \A s \in SUBSET S : h[s] \in Nat
    <2> HIDE DEF pick, step, h
    <2> QED BY <1>2, <1>3, <1>5, 0 \in Nat, FoldTyped
  <1> HIDE DEF h
  <1>7. h \in [SUBSET S -> Nat]
    BY <1>4, <1>6
  <1>8. Sums(h, f, S)
    BY <1>4, Zenon DEF Sums
  <1> QED BY <1>1, <1>7, <1>8

\* Two sums of one table agree where both are.
LEMMA SumsAgree ==
    ASSUME NEW S, IsFiniteSet(S), NEW f, NEW g, NEW h, Sums(g, f, S), Sums(h, f, S)
    PROVE  \A s \in SUBSET S : g[s] = h[s]
  <1> DEFINE G == {s \in SUBSET S : g[s] = h[s]}
  <1>1. ASSUME NEW s \in SUBSET S, \A x \in s : s \ {x} \in G
        PROVE  s \in G
    <2>1. CASE s = {}
      BY <2>1 DEF Sums
    <2>2. CASE s # {}
      <3>1. PICK x \in s : x = CHOOSE y \in s : TRUE
        BY <2>2
      <3>2. g[s \ {x}] = h[s \ {x}]
        BY <1>1, <3>1
      <3>3. g[s] = f[x] + g[s \ {x}] /\ h[s] = f[x] + h[s \ {x}]
        BY <2>2, <3>1, Zenon DEF Sums
      <3> QED BY <3>2, <3>3
    <2> QED BY <2>1, <2>2
  <1>2. \A s \in SUBSET S : s \in G
    <2> HIDE DEF G
    <2>1. \A s \in SUBSET S : (\A x \in s : s \ {x} \in G) => s \in G
      BY <1>1
    <2> QED BY <2>1, SubsetsUp, Zenon
  <1> QED BY <1>2

\* A sum is that of any element and of the others.
LEMMA SumStep ==
    ASSUME NEW S, IsFiniteSet(S), NEW f, \A x \in S : f[x] \in Nat
    PROVE  /\ SumOf(f, {}) = 0
           /\ \A s \in SUBSET S : /\ SumOf(f, s) \in Nat
                                  /\ \A x \in s : SumOf(f, s) = f[x] + SumOf(f, s \ {x})
  <1>1. PICK h : h \in [SUBSET S -> Nat] /\ Sums(h, f, S)
    BY SumsExist
  <1>2. ASSUME NEW s \in SUBSET S
        PROVE  SumOf(f, s) = h[s]
    <2>1. IsFiniteSet(s)
      BY FS_Subset
    <2>2. PICK g : SumOf(f, s) = g[s] /\ Sums(g, f, s)
      BY <2>1, SumsExist
    <2>3. Sums(h, f, s)
      BY <1>1 DEF Sums
    <2> QED BY <2>1, <2>2, <2>3, SumsAgree
  <1> DEFINE G == {s \in SUBSET S : \A x \in s : h[s] = f[x] + h[s \ {x}]}
  <1>3. ASSUME NEW s \in SUBSET S, \A x \in s : s \ {x} \in G
        PROVE  s \in G
    <2> SUFFICES ASSUME NEW x \in s
                 PROVE  h[s] = f[x] + h[s \ {x}]
      OBVIOUS
    <2>1. PICK c \in s : c = CHOOSE y \in s : TRUE
      OBVIOUS
    <2>2. h[s] = f[c] + h[s \ {c}]
      BY <1>1, <2>1, Zenon DEF Sums
    <2>3. CASE x = c
      BY <2>2, <2>3
    <2>4. CASE x # c
      <3>1. x \in s \ {c} /\ c \in s \ {x} /\ (s \ {c}) \ {x} = (s \ {x}) \ {c}
        BY <2>4
      <3>2. h[s \ {c}] = f[x] + h[(s \ {c}) \ {x}] /\ h[s \ {x}] = f[c] + h[(s \ {x}) \ {c}]
        BY <1>3, <3>1
      <3>3. h[(s \ {c}) \ {x}] \in Nat /\ f[x] \in Nat /\ f[c] \in Nat
        BY <1>1
      <3>4. PICK u \in Nat : h[s \ {c}] = f[x] + u /\ h[s \ {x}] = f[c] + u
        BY <3>1, <3>2, <3>3
      <3>5. f[c] + (f[x] + u) = f[x] + (f[c] + u)
        BY <3>3, <3>4
      <3> QED BY <2>2, <3>4, <3>5
    <2> QED BY <2>3, <2>4
  <1>4. \A s \in SUBSET S : s \in G
    <2> HIDE DEF G
    <2>1. \A s \in SUBSET S : (\A x \in s : s \ {x} \in G) => s \in G
      BY <1>3
    <2> QED BY <2>1, SubsetsUp, Zenon
  <1>5. {} \in SUBSET S /\ h[{}] = 0
    BY <1>1, Zenon DEF Sums
  <1>6. ASSUME NEW s \in SUBSET S, NEW x \in s
        PROVE  SumOf(f, s) = f[x] + SumOf(f, s \ {x})
    <2>1. h[s] = f[x] + h[s \ {x}] /\ s \ {x} \in SUBSET S
      BY <1>4
    <2> QED BY <1>2, <2>1
  <1> QED BY <1>1, <1>2, <1>5, <1>6

\* A part sums to no more than the whole.
LEMMA SumOfPart ==
    ASSUME NEW S, IsFiniteSet(S), NEW f, \A x \in S : f[x] \in Nat
    PROVE  \A s \in SUBSET S : \A t \in SUBSET s : SumOf(f, t) <= SumOf(f, s)
  <1> DEFINE G == {s \in SUBSET S : \A t \in SUBSET s : SumOf(f, t) <= SumOf(f, s)}
  <1>1. ASSUME NEW s \in SUBSET S, \A x \in s : s \ {x} \in G
        PROVE  s \in G
    <2> SUFFICES ASSUME NEW t \in SUBSET s
                 PROVE  SumOf(f, t) <= SumOf(f, s)
      OBVIOUS
    <2>1. SumOf(f, s) \in Nat /\ SumOf(f, t) \in Nat
      BY SumStep
    <2>2. CASE t = s
      BY <2>1, <2>2
    <2>3. CASE t # s
      <3>1. PICK x \in s : x \notin t
        BY <2>3
      <3>2. SumOf(f, t) <= SumOf(f, s \ {x})
        BY <1>1, <3>1
      <3>3. SumOf(f, s) = f[x] + SumOf(f, s \ {x}) /\ SumOf(f, s \ {x}) \in Nat /\ f[x] \in Nat
        BY SumStep
      <3> QED BY <2>1, <3>2, <3>3
    <2> QED BY <2>2, <2>3
  <1>2. \A s \in SUBSET S : s \in G
    <2> HIDE DEF G
    <2>1. \A s \in SUBSET S : (\A x \in s : s \ {x} \in G) => s \in G
      BY <1>1
    <2> QED BY <2>1, SubsetsUp, Zenon
  <1> QED BY <1>2

\* Sums are compared, and added, element by element.
LEMMA SumTogether ==
    ASSUME NEW S, IsFiniteSet(S), NEW f, NEW g, NEW e,
           \A x \in S : f[x] \in Nat /\ g[x] \in Nat /\ e[x] \in Nat /\ e[x] = f[x] + g[x]
    PROVE  SumOf(e, S) = SumOf(f, S) + SumOf(g, S)
  <1> DEFINE G == {s \in SUBSET S : SumOf(e, s) = SumOf(f, s) + SumOf(g, s)}
  <1>1. ASSUME NEW s \in SUBSET S, \A x \in s : s \ {x} \in G
        PROVE  s \in G
    <2>1. CASE s = {}
      <3>1. SumOf(e, {}) = 0 /\ SumOf(f, {}) = 0 /\ SumOf(g, {}) = 0
        BY SumStep
      <3> QED BY <2>1, <3>1
    <2>2. CASE s # {}
      <3>1. PICK x : x \in s
        BY <2>2
      <3>2. SumOf(e, s \ {x}) = SumOf(f, s \ {x}) + SumOf(g, s \ {x})
        BY <1>1, <3>1
      <3>3. /\ SumOf(e, s) = e[x] + SumOf(e, s \ {x}) /\ SumOf(e, s \ {x}) \in Nat
            /\ SumOf(f, s) = f[x] + SumOf(f, s \ {x}) /\ SumOf(f, s \ {x}) \in Nat
            /\ SumOf(g, s) = g[x] + SumOf(g, s \ {x}) /\ SumOf(g, s \ {x}) \in Nat
        BY <3>1, SumStep
      <3>4. e[x] = f[x] + g[x] /\ f[x] \in Nat /\ g[x] \in Nat
        BY <3>1
      <3>5. SumOf(e, s) = SumOf(f, s) + SumOf(g, s)
        BY <3>2, <3>3, <3>4
      <3> QED BY <3>5
    <2> QED BY <2>1, <2>2
  <1>2. \A s \in SUBSET S : s \in G
    <2> HIDE DEF G
    <2>1. \A s \in SUBSET S : (\A x \in s : s \ {x} \in G) => s \in G
      BY <1>1
    <2> QED BY <2>1, SubsetsUp, Zenon
  <1> QED BY <1>2

\* The components of the days, or the days of the components: one sum.
LEMMA SumsExchange ==
    ASSUME NEW C, IsFiniteSet(C), NEW D, IsFiniteSet(D), NEW t, \A d \in D, c \in C : t[d][c] \in Nat
    PROVE  SumOf([c \in C |-> SumOf([d \in D |-> t[d][c]], D)], C) = SumOf([d \in D |-> SumOf(t[d], C)], D)
  <1> DEFINE col(c) == [d \in D |-> t[d][c]]
             days == [d \in D |-> SumOf(t[d], C)]
             over(s) == [c \in C |-> SumOf(col(c), s)]
             G == {s \in SUBSET D : SumOf(over(s), C) = SumOf(days, s)}
  <1>1. \A d \in D : days[d] \in Nat
    BY SumStep
  <1>2. \A s \in SUBSET D : \A c \in C : SumOf(col(c), s) \in Nat
    <2> SUFFICES ASSUME NEW c \in C
                 PROVE  \A s \in SUBSET D : SumOf(col(c), s) \in Nat
      OBVIOUS
    <2>1. \A d \in D : col(c)[d] \in Nat
      OBVIOUS
    <2> HIDE DEF col
    <2> QED BY <2>1, SumStep
  <1>3. ASSUME NEW s \in SUBSET D, \A x \in s : s \ {x} \in G
        PROVE  s \in G
    <2>1. CASE s = {}
      <3>1. \A c \in C : over(s)[c] = 0
        <4> SUFFICES ASSUME NEW c \in C
                     PROVE  SumOf(col(c), {}) = 0
          BY <2>1
        <4>1. \A d \in D : col(c)[d] \in Nat
          OBVIOUS
        <4> HIDE DEF col
        <4> QED BY <4>1, SumStep
      <3>2. SumOf(over(s), C) = SumOf(over(s), C) + SumOf(over(s), C) /\ SumOf(over(s), C) \in Nat
        <4> HIDE DEF over
        <4>1. \A c \in C : over(s)[c] \in Nat /\ over(s)[c] = over(s)[c] + over(s)[c]
          BY <3>1
        <4> QED BY <4>1, SumTogether, SumStep
      <3>3. SumOf(days, s) = 0
        <4> HIDE DEF days
        <4> QED BY <1>1, <2>1, SumStep
      <3>4. \A n \in Nat : n = n + n => n = 0
        OBVIOUS
      <3>5. SumOf(over(s), C) = 0
        BY <3>2, <3>4, Zenon
      <3> HIDE DEF over, days
      <3>6. SumOf(over(s), C) = SumOf(days, s)
        BY <3>3, <3>5
      <3> QED BY <3>6
    <2>2. CASE s # {}
      <3>1. PICK x : x \in s
        BY <2>2
      <3>2. SumOf(over(s \ {x}), C) = SumOf(days, s \ {x})
        BY <1>3, <3>1
      <3>3. \A c \in C : /\ over(s)[c] \in Nat /\ over(s \ {x})[c] \in Nat /\ t[x][c] \in Nat
                         /\ over(s)[c] = over(s \ {x})[c] + t[x][c]
        <4> SUFFICES ASSUME NEW c \in C
                     PROVE  SumOf(col(c), s) = SumOf(col(c), s \ {x}) + t[x][c]
          BY <1>2, <3>1
        <4>1. \A d \in D : col(c)[d] \in Nat
          OBVIOUS
        <4>2. col(c)[x] = t[x][c] /\ t[x][c] \in Nat
          BY <3>1
        <4> HIDE DEF col
        <4>3. SumOf(col(c), s) = col(c)[x] + SumOf(col(c), s \ {x}) /\ SumOf(col(c), s \ {x}) \in Nat
          BY <3>1, <4>1, SumStep
        <4> QED BY <4>2, <4>3
      <3>4. SumOf(over(s), C) = SumOf(over(s \ {x}), C) + SumOf(t[x], C)
        <4> HIDE DEF over
        <4> QED BY <3>3, SumTogether
      <3>5. SumOf(days, s) = SumOf(t[x], C) + SumOf(days, s \ {x}) /\ SumOf(days, s \ {x}) \in Nat
        <4>1. days[x] = SumOf(t[x], C)
          BY <3>1
        <4> HIDE DEF days
        <4>2. /\ \A x_1 \in s : SumOf(days, s) = days[x_1] + SumOf(days, s \ {x_1})
              /\ s \ {x} \in SUBSET D
              /\ \A u \in SUBSET D : SumOf(days, u) \in Nat
          BY <1>1, SumStep
        <4> QED BY <3>1, <4>1, <4>2
      <3>6. SumOf(t[x], C) \in Nat
        BY <3>1, SumStep
      <3> HIDE DEF over, days
      <3>7. SumOf(over(s), C) = SumOf(days, s)
        BY <3>2, <3>4, <3>5, <3>6
      <3> QED BY <3>7
    <2> QED BY <2>1, <2>2
  <1>4. \A s \in SUBSET D : s \in G
    <2> HIDE DEF G
    <2>1. \A s \in SUBSET D : (\A x \in s : s \ {x} \in G) => s \in G
      BY <1>3
    <2> QED BY <2>1, SubsetsUp, Zenon
  <1> QED BY <1>4

-----------------------------------------------------------------------------
(* What a selection keeps. *)

\* One step of a selection: the elements at the chosen places are kept.
KeepStep(g, n, list, chosen) ==
    [s \in SUBSET (1..n) |-> IF s = {} THEN <<>>
                             ELSE IF Max(s) \in chosen THEN Append(g[s \ {Max(s)}], list[Max(s)])
                             ELSE g[s \ {Max(s)}]]

\* out are the elements of list at the chosen places, each once.
Selected(out, n, list, chosen) ==
    \E place \in [1..Len(out) -> 1..n] :
      /\ \A i \in 1..Len(out) : place[i] \in chosen /\ out[i] = list[place[i]]
      /\ \A i, j \in 1..Len(out) : place[i] = place[j] => i = j
      /\ \A m \in chosen : \E i \in 1..Len(out) : place[i] = m

LEMMA KeptOne ==
    ASSUME NEW k \in Nat \ {0}, NEW S, NEW list, list[k] \in S, NEW chosen, NEW out \in Seq(S),
           Selected(out, k - 1, list, chosen \cap (1..(k - 1)))
    PROVE  IF k \in chosen THEN Selected(Append(out, list[k]), k, list, chosen \cap (1..k))
           ELSE Selected(out, k, list, chosen \cap (1..k))
  <1>1. PICK place \in [1..Len(out) -> 1..(k - 1)] :
          /\ \A i \in 1..Len(out) : place[i] \in chosen \cap (1..(k - 1)) /\ out[i] = list[place[i]]
          /\ \A i, j \in 1..Len(out) : place[i] = place[j] => i = j
          /\ \A m \in chosen \cap (1..(k - 1)) : \E i \in 1..Len(out) : place[i] = m
    BY DEF Selected
  <1>2. /\ \A m \in 1..(k - 1) : m \in 1..k /\ m # k
        /\ \A m \in 1..k : m # k => m \in 1..(k - 1)
        /\ k \in 1..k /\ Len(out) \in Nat
    OBVIOUS
  <1>3. CASE k \notin chosen
    <2>1. place \in [1..Len(out) -> 1..k] /\ chosen \cap (1..k) = chosen \cap (1..(k - 1))
      BY <1>2, <1>3
    <2>2. Selected(out, k, list, chosen \cap (1..k))
      BY <1>1, <2>1 DEF Selected
    <2> QED BY <1>3, <2>2
  <1>4. CASE k \in chosen
    <2> DEFINE more == Append(out, list[k])
               next == [i \in 1..(Len(out) + 1) |-> IF i = Len(out) + 1 THEN k ELSE place[i]]
    <2>1. /\ Len(more) = Len(out) + 1 /\ more[Len(out) + 1] = list[k]
          /\ \A i \in 1..Len(out) : more[i] = out[i] /\ i # Len(out) + 1 /\ i \in 1..(Len(out) + 1)
          /\ \A i \in 1..(Len(out) + 1) : i # Len(out) + 1 => i \in 1..Len(out)
          /\ Len(out) + 1 \in 1..(Len(out) + 1)
      BY <1>2
    <2>2. /\ \A i \in 1..(Len(out) + 1) : i # Len(out) + 1 => /\ next[i] = place[i] /\ i \in 1..Len(out)
                                                             /\ place[i] \in 1..(k - 1)
          /\ next[Len(out) + 1] = k
      BY <1>1, <2>1
    <2> HIDE DEF more
    <2>3. next \in [1..Len(more) -> 1..k]
      BY <1>2, <2>1, <2>2
    <2>4. ASSUME NEW i \in 1..Len(more)
          PROVE  next[i] \in chosen \cap (1..k) /\ more[i] = list[next[i]]
      BY <1>1, <1>2, <1>4, <2>1, <2>2
    <2>5. ASSUME NEW i \in 1..Len(more), NEW j \in 1..Len(more), next[i] = next[j]
          PROVE  i = j
      BY <1>1, <1>2, <2>1, <2>2, <2>5
    <2>6. ASSUME NEW m \in chosen \cap (1..k)
          PROVE  \E i \in 1..Len(more) : next[i] = m
      <3>1. CASE m = k
        BY <2>1, <2>2, <3>1
      <3>2. CASE m # k
        <4>1. PICK i \in 1..Len(out) : place[i] = m
          BY <1>1, <1>2, <3>2
        <4> QED BY <2>1, <2>2, <4>1
      <3> QED BY <3>1, <3>2
    <2> HIDE DEF next
    <2>7. Selected(more, k, list, chosen \cap (1..k))
      BY <2>3, <2>4, <2>5, <2>6 DEF Selected
    <2> QED BY <1>4, <2>7 DEF more
  <1> QED BY <1>3, <1>4

\* A selection exists, and is what its name says.
LEMMA KeptAll ==
    ASSUME NEW n \in Nat, NEW S, NEW list \in [1..n -> S], NEW chosen \in SUBSET (1..n)
    PROVE  /\ \E g : g = KeepStep(g, n, list, chosen)
           /\ \A h : h = KeepStep(h, n, list, chosen) =>
                 h[1..n] \in Seq(S) /\ Selected(h[1..n], n, list, chosen)
  <1> DEFINE A == Seq(S)
             Add(out, i) == IF i \in chosen THEN Append(out, list[i]) ELSE out
             step == [i \in 1..n |-> [out \in A |-> Add(out, i)]]
  <1>1. <<>> \in A /\ step \in [1..n -> [A -> A]]
    OBVIOUS
  <1>2. \E g : g = KeepStep(g, n, list, chosen)
    <2>1. PICK g : Unfolds(g, n, A, <<>>, step)
      <3> HIDE DEF A, step
      <3> QED BY <1>1, FoldFound
    <2>2. ASSUME NEW s \in SUBSET (1..n), s # {}
          PROVE  step[Max(s)][g[s \ {Max(s)}]] = Add(g[s \ {Max(s)}], Max(s))
      <3> HIDE DEF A, Add
      <3> QED BY <2>1, <2>2 DEF Unfolds
    <2>3. g = [s \in SUBSET (1..n) |-> IF s = {} THEN <<>> ELSE Add(g[s \ {Max(s)}], Max(s))]
      <3> HIDE DEF A, Add, step
      <3> QED BY <2>1, <2>2 DEF Unfolds
    <2>4. g = KeepStep(g, n, list, chosen)
      BY <2>3 DEF KeepStep
    <2> QED BY <2>4
  <1>3. ASSUME NEW h, h = KeepStep(h, n, list, chosen)
        PROVE  h[1..n] \in Seq(S) /\ Selected(h[1..n], n, list, chosen)
    <2>1. h = [s \in SUBSET (1..n) |-> IF s = {} THEN <<>> ELSE Add(h[s \ {Max(s)}], Max(s))]
      BY <1>3 DEF KeepStep
    <2>2. Follows(h, n, A, <<>>, step)
      <3> HIDE DEF A, Add
      <3> QED BY <2>1, SeqMax DEF Follows
    <2>3. PICK r : Trace(r, n, A, <<>>, step) /\ h[1..n] = r[n]
      <3> HIDE DEF A, step
      <3> QED BY <1>1, <2>2, FoldTrace
    <2> DEFINE Good == {k \in 0..n : Selected(r[k], k, list, chosen \cap (1..k))}
    <2>4. 0 \in Good
      <3>1. r[0] = <<>> /\ 0 \in 0..n
        BY <2>3 DEF Trace
      <3>2. /\ Len(<<>>) = 0 /\ 1..0 = {} /\ chosen \cap (1..0) = {}
            /\ [i \in 1..0 |-> 0] \in [1..0 -> 1..0] /\ \A i \in 1..0 : FALSE
        OBVIOUS
      <3>3. Selected(<<>>, 0, list, chosen \cap (1..0))
        BY <3>2 DEF Selected
      <3> QED BY <3>1, <3>3
    <2>5. \A k \in 1..n : k - 1 \in Good => k \in Good
      <3> SUFFICES ASSUME NEW k \in 1..n, k - 1 \in Good
                   PROVE  k \in Good
        OBVIOUS
      <3>1. k \in Nat \ {0} /\ k \in 0..n /\ k - 1 \in 0..n /\ list[k] \in S
        OBVIOUS
      <3>2. r[k - 1] \in A /\ r[k] = Add(r[k - 1], k)
        BY <2>3, <3>1 DEF Trace
      <3>3. Selected(r[k - 1], k - 1, list, chosen \cap (1..(k - 1)))
        OBVIOUS
      <3> HIDE DEF Good
      <3>4. Selected(r[k], k, list, chosen \cap (1..k))
        <4>1. IF k \in chosen THEN Selected(Append(r[k - 1], list[k]), k, list, chosen \cap (1..k))
              ELSE Selected(r[k - 1], k, list, chosen \cap (1..k))
          BY <3>1, <3>2, <3>3, KeptOne
        <4> QED BY <3>2, <4>1
      <3> QED BY <3>1, <3>4 DEF Good
    <2>6. n \in Good
      <3> HIDE DEF Good
      <3> n \in 0..n
        OBVIOUS
      <3> QED BY <2>4, <2>5, CountUp
    <2>7. chosen \cap (1..n) = chosen /\ r[n] \in A
      <3> n \in 0..n
        OBVIOUS
      <3> HIDE DEF A, step
      <3> QED BY <2>3 DEF Trace
    <2> QED BY <2>3, <2>6, <2>7
  <1> QED BY <1>2, <1>3

LEMMA OfSourceKeeps ==
    ASSUME NEW S, NEW list \in Seq(S), NEW src
    PROVE  /\ OfSource(list, src) \in Seq(S)
           /\ Selected(OfSource(list, src), Len(list), list, {i \in 1..Len(list) : list[i].src = src})
  <1> DEFINE n == Len(list)
             chosen == {i \in 1..n : list[i].src = src}
             Step(g) == [s \in SUBSET (1..n) |->
                            IF s = {} THEN <<>>
                            ELSE IF list[Max(s)].src = src THEN Append(g[s \ {Max(s)}], list[Max(s)])
                            ELSE g[s \ {Max(s)}]]
             h == CHOOSE g : g = Step(g)
  <1>1. OfSource(list, src) = h[1..n]
    <2>1. DOMAIN list = 1..n
      OBVIOUS
    <2> QED BY <2>1 DEF OfSource, Keeping, FoldLeft, MapThenFoldSet
  <1>2. n \in Nat /\ list \in [1..n -> S] /\ chosen \in SUBSET (1..n)
    OBVIOUS
  <1>3. ASSUME NEW g
        PROVE  Step(g) = KeepStep(g, n, list, chosen)
    <2>1. \A s \in SUBSET (1..n) : s # {} => (Max(s) \in chosen <=> list[Max(s)].src = src)
      BY <1>2, SeqMax
    <2> HIDE DEF chosen, n
    <2> QED BY <2>1 DEF KeepStep
  <1>4. h = Step(h)
    <2>1. PICK g : g = KeepStep(g, n, list, chosen)
      <3> HIDE DEF chosen, n
      <3> QED BY <1>2, KeptAll
    <2>2. g = Step(g)
      <3> HIDE DEF Step
      <3> QED BY <1>3, <2>1
    <2> QED BY <2>2
  <1>5. h = KeepStep(h, n, list, chosen)
    <2> HIDE DEF Step, h, chosen, n
    <2> QED BY <1>3, <1>4
  <1> HIDE DEF h, chosen
  <1>6. h[1..n] \in Seq(S) /\ Selected(h[1..n], n, list, chosen)
    <2> HIDE DEF n
    <2> QED BY <1>2, <1>5, KeptAll
  <1> QED BY <1>1, <1>6 DEF chosen

LEMMA AllTimeKeeps ==
    ASSUME NEW S, NEW list \in Seq(S)
    PROVE  /\ filterWindow(list, AllTime) \in Seq(S)
           /\ Selected(filterWindow(list, AllTime), Len(list), list, 1..Len(list))
  <1> DEFINE n == Len(list)
             Step(g) == [s \in SUBSET (1..n) |->
                            IF s = {} THEN <<>>
                            ELSE IF Within(AllTime, list[Max(s)].at) THEN Append(g[s \ {Max(s)}], list[Max(s)])
                            ELSE g[s \ {Max(s)}]]
             h == CHOOSE g : g = Step(g)
  <1>1. filterWindow(list, AllTime) = h[1..n]
    <2>1. DOMAIN list = 1..n
      OBVIOUS
    <2> QED BY <2>1 DEF filterWindow, Keeping, FoldLeft, MapThenFoldSet
  <1>2. n \in Nat /\ list \in [1..n -> S] /\ 1..n \in SUBSET (1..n)
    OBVIOUS
  <1>3. ASSUME NEW g
        PROVE  Step(g) = KeepStep(g, n, list, 1..n)
    <2>1. \A s \in SUBSET (1..n) : s # {} => Max(s) \in 1..n
      BY <1>2, SeqMax
    <2>2. \A at : Within(AllTime, at)
      BY DEF Within
    <2> HIDE DEF n
    <2> QED BY <2>1, <2>2 DEF KeepStep
  <1>4. h = Step(h)
    <2>1. PICK g : g = KeepStep(g, n, list, 1..n)
      <3> HIDE DEF n
      <3> QED BY <1>2, KeptAll
    <2>2. g = Step(g)
      <3> HIDE DEF Step
      <3> QED BY <1>3, <2>1
    <2> QED BY <2>2
  <1>5. h = KeepStep(h, n, list, 1..n)
    <2> HIDE DEF Step, h, n
    <2> QED BY <1>3, <1>4
  <1> HIDE DEF h
  <1>6. h[1..n] \in Seq(S) /\ Selected(h[1..n], n, list, 1..n)
    <2> HIDE DEF n
    <2> QED BY <1>2, <1>5, KeptAll
  <1> QED BY <1>1, <1>6

-----------------------------------------------------------------------------
(* The rows of a refresh: log lines, account days, and what is stripped.     *)

AccountIds == {"account", "retained"} \X Nat
Ids == OwnIds \cup AccountIds

RowSet ==
    [src : Agents \cup {Narrated}, req : Ids, session : {NoId}, at : Nat, tok : [Components -> Nat],
     quality : {"authoritative", "degraded", NoDeriv}, deriv : {NoDeriv, "provider_api", "retained_api"},
     skip : BOOLEAN]

\* Every row of the narrated agent has the tokens of its request.
Tells(list, tokens) ==
    \A i \in DOMAIN list : list[i].src = Narrated => list[i].tok = tokens[list[i].req]

\* No two of them have one request.
Once(list) ==
    \A i, j \in DOMAIN list :
      list[i].src = Narrated /\ list[j].src = Narrated /\ list[i].req = list[j].req => i = j

Told(tokens) == {list \in Seq(RowSet) : Tells(list, tokens) /\ Once(list)}

\* Some row is of this agent and this request.
Names(list, src, req) == \E i \in DOMAIN list : list[i].src = src /\ list[i].req = req

LEMMA LargerRow ==
    ASSUME NEW a \in RowSet, NEW b \in RowSet
    PROVE  /\ maxEvent(a, b) \in RowSet
           /\ maxEvent(a, b).src = a.src /\ maxEvent(a, b).req = a.req
           /\ a.tok = b.tok => maxEvent(a, b).tok = a.tok
  <1> DEFINE tok == [c \in Components |-> IF b.tok[c] > a.tok[c] THEN b.tok[c] ELSE a.tok[c]]
             quality == WorseQuality(a.quality, b.quality)
             at == IF b.at > a.at THEN b.at ELSE a.at
  <1>1. tok \in [Components -> Nat] /\ at \in Nat
    BY DEF RowSet
  <1>2. quality \in {"authoritative", "degraded", NoDeriv}
    BY DEF RowSet, WorseQuality
  <1>3. maxEvent(a, b) = [a EXCEPT !.tok = tok, !.quality = quality, !.at = at]
    BY DEF maxEvent
  <1>4. a.tok = b.tok => tok = a.tok
    <2> SUFFICES ASSUME a.tok = b.tok
                 PROVE  tok = a.tok
      OBVIOUS
    <2>1. a.tok \in [Components -> Nat]
      BY DEF RowSet
    <2>2. \A c \in Components : tok[c] = a.tok[c]
      OBVIOUS
    <2> QED BY <1>1, <2>1, <2>2
  <1> HIDE DEF tok, quality, at
  <1> QED BY <1>1, <1>2, <1>3, <1>4 DEF RowSet

LEMMA IdsAreNamed == NoId \notin Ids
  BY DEF NoId, Ids, OwnIds, AccountIds

LEMMA MergedTold ==
    ASSUME NEW tokens, NEW out \in Told(tokens), NEW row \in RowSet,
           row.src = Narrated => row.tok = tokens[row.req]
    PROVE  /\ MergeRow(out, row) \in Told(tokens)
           /\ \A i \in DOMAIN out : /\ i \in DOMAIN MergeRow(out, row)
                                    /\ MergeRow(out, row)[i].src = out[i].src
                                    /\ MergeRow(out, row)[i].req = out[i].req
           /\ Names(MergeRow(out, row), row.src, row.req)
  <1> DEFINE same == SameRequest(out, row)
             more == Append(out, row)
             list == [i \in DOMAIN out |-> IF i \in same THEN maxEvent(out[i], row) ELSE out[i]]
  <1>1. usableTokens(row)
    BY DEF usableTokens, RowSet
  <1>2. MergeRow(out, row) = IF same = {} THEN more ELSE list
    BY <1>1 DEF MergeRow
  <1>3. /\ out \in Seq(RowSet) /\ DOMAIN out = 1..Len(out) /\ Len(out) \in Nat
        /\ Tells(out, tokens) /\ Once(out)
    BY DEF Told
  <1>4. row.req \in Ids /\ row.req # NoId
    BY IdsAreNamed DEF RowSet
  <1>5. same = {i \in DOMAIN out : out[i].src = row.src /\ out[i].req = row.req}
    BY <1>4 DEF SameRequest
  <1>6. CASE same = {}
    <2>1. /\ more \in Seq(RowSet) /\ DOMAIN more = 1..(Len(out) + 1)
          /\ \A i \in DOMAIN out : i \in DOMAIN more /\ more[i] = out[i]
          /\ more[Len(out) + 1] = row /\ Len(out) + 1 \in DOMAIN more
          /\ \A i \in DOMAIN more : i \in DOMAIN out \/ i = Len(out) + 1
      BY <1>3
    <2>2. \A i \in DOMAIN out : ~(out[i].src = row.src /\ out[i].req = row.req)
      BY <1>5, <1>6
    <2>3. MergeRow(out, row) = more
      BY <1>2, <1>6
    <2> HIDE DEF more, list, same
    <2>4. Tells(more, tokens)
      BY <1>3, <2>1 DEF Tells
    <2>5. Once(more)
      <3>1. ASSUME NEW i \in DOMAIN more, NEW j \in DOMAIN more,
                   more[i].src = Narrated /\ more[j].src = Narrated /\ more[i].req = more[j].req
            PROVE  i = j
        <4>1. i \in DOMAIN out \/ i = Len(out) + 1
          BY <2>1
        <4>2. j \in DOMAIN out \/ j = Len(out) + 1
          BY <2>1
        <4>3. CASE i \in DOMAIN out /\ j \in DOMAIN out
          BY <1>3, <2>1, <3>1, <4>3 DEF Once
        <4>4. CASE i \in DOMAIN out /\ j = Len(out) + 1
          BY <2>1, <2>2, <3>1, <4>4
        <4>5. CASE j \in DOMAIN out /\ i = Len(out) + 1
          BY <2>1, <2>2, <3>1, <4>5
        <4> QED BY <4>1, <4>2, <4>3, <4>4, <4>5
      <3> QED BY <3>1, Zenon DEF Once
    <2>6. Names(more, row.src, row.req)
      BY <2>1 DEF Names
    <2>7. more \in Told(tokens)
      BY <2>1, <2>4, <2>5 DEF Told
    <2> QED BY <2>1, <2>3, <2>6, <2>7
  <1>7. CASE same # {}
    <2>1. MergeRow(out, row) = list
      BY <1>2, <1>7
    <2>2. \A i \in DOMAIN out : out[i] \in RowSet
      BY <1>3
    <2>3. ASSUME NEW i \in DOMAIN out
          PROVE  /\ list[i] \in RowSet /\ list[i].src = out[i].src /\ list[i].req = out[i].req
                 /\ out[i].src = Narrated => list[i].tok = out[i].tok
      <3>1. CASE i \notin same
        <4>1. list[i] = out[i]
          BY <3>1
        <4> HIDE DEF list
        <4> QED BY <2>2, <4>1
      <3>2. CASE i \in same
        <4>1. list[i] = maxEvent(out[i], row) /\ out[i].src = row.src /\ out[i].req = row.req
          BY <1>5, <3>2
        <4> HIDE DEF list
        <4>2. out[i].src = Narrated => out[i].tok = row.tok
          BY <1>3, <4>1 DEF Tells
        <4> QED BY <2>2, <4>1, <4>2, LargerRow
      <3> QED BY <3>1, <3>2
    <2>4. DOMAIN list = DOMAIN out
      OBVIOUS
    <2>5. list \in Seq(RowSet)
      <3>1. list \in [1..Len(out) -> RowSet]
        <4>1. list = [i \in DOMAIN out |-> list[i]]
          OBVIOUS
        <4> HIDE DEF list
        <4> QED BY <1>3, <2>3, <4>1
      <3> HIDE DEF list
      <3> QED BY <1>3, <3>1, IsASeq
    <2>6. PICK i \in DOMAIN out : i \in same
      BY <1>5, <1>7
    <2>7. out[i].src = row.src /\ out[i].req = row.req
      BY <1>5, <2>6
    <2> HIDE DEF list, same
    <2>8. Tells(list, tokens)
      BY <1>3, <2>3, <2>4 DEF Tells
    <2>9. Once(list)
      BY <1>3, <2>3, <2>4 DEF Once
    <2>10. Names(list, row.src, row.req)
      BY <2>3, <2>4, <2>7 DEF Names
    <2>11. list \in Told(tokens)
      BY <2>5, <2>8, <2>9 DEF Told
    <2> QED BY <2>1, <2>3, <2>4, <2>10, <2>11
  <1> QED BY <1>6, <1>7

\* Rows that tell their tokens are merged to rows that do, each request once,
\* and no request is lost.
LEMMA MergedList ==
    ASSUME NEW tokens, NEW list \in Seq(RowSet), Tells(list, tokens)
    PROVE  /\ mergeByRequest(list) \in Told(tokens)
           /\ \A m \in DOMAIN list : Names(mergeByRequest(list), list[m].src, list[m].req)
  <1> DEFINE n == Len(list)
             A == Told(tokens)
             Step(g) == [s \in SUBSET (1..n) |->
                            IF s = {} THEN <<>> ELSE MergeRow(g[s \ {Max(s)}], list[Max(s)])]
             h == CHOOSE g : g = Step(g)
             step == [i \in 1..n |-> [out \in A |-> MergeRow(out, list[i])]]
  <1>1. mergeByRequest(list) = h[1..n]
    <2>1. DOMAIN list = 1..n
      OBVIOUS
    <2> QED BY <2>1 DEF mergeByRequest, FoldLeft, MapThenFoldSet
  <1>2. /\ n \in Nat /\ DOMAIN list = 1..n
        /\ \A i \in 1..n : list[i] \in RowSet /\ (list[i].src = Narrated => list[i].tok = tokens[list[i].req])
    BY DEF Tells
  <1>3. <<>> \in A
    BY DEF Told, Tells, Once
  <1>4. step \in [1..n -> [A -> A]]
    <2>1. \A i \in 1..n : \A out \in A : MergeRow(out, list[i]) \in A
      BY <1>2, MergedTold
    <2> HIDE DEF A, n
    <2> QED BY <2>1
  <1>5. h = Step(h)
    <2>1. PICK g : Unfolds(g, n, A, <<>>, step)
      <3> HIDE DEF A, step, n
      <3> QED BY <1>2, <1>3, <1>4, FoldFound
    <2>2. ASSUME NEW s \in SUBSET (1..n), s # {}
          PROVE  step[Max(s)][g[s \ {Max(s)}]] = MergeRow(g[s \ {Max(s)}], list[Max(s)])
      <3> HIDE DEF A, n
      <3> QED BY <2>1, <2>2 DEF Unfolds
    <2>3. g = Step(g)
      <3> HIDE DEF A, step, n
      <3> QED BY <2>1, <2>2 DEF Unfolds
    <2> QED BY <2>3
  <1>6. Follows(h, n, A, <<>>, step)
    <2> HIDE DEF h, A, n
    <2> QED BY <1>2, <1>5, SeqMax DEF Follows
  <1>7. PICK r : Trace(r, n, A, <<>>, step) /\ h[1..n] = r[n]
    <2> HIDE DEF h, A, step, n
    <2> QED BY <1>2, <1>3, <1>4, <1>6, FoldTrace
  <1> DEFINE Good == {k \in 0..n : \A m \in 1..k : Names(r[k], list[m].src, list[m].req)}
  <1>8. 0 \in Good
    BY <1>2
  <1>9. ASSUME NEW k \in 1..n, k - 1 \in Good
        PROVE  k \in Good
    <2>1. k - 1 \in 0..n /\ k \in 0..n /\ \A m \in 1..k : m = k \/ m \in 1..(k - 1)
      BY <1>2
    <2>2. r[k - 1] \in A /\ r[k] = MergeRow(r[k - 1], list[k])
      BY <1>7, <2>1 DEF Trace
    <2>3. /\ \A i \in DOMAIN r[k - 1] : i \in DOMAIN r[k] /\ r[k][i].src = r[k - 1][i].src
                                        /\ r[k][i].req = r[k - 1][i].req
          /\ Names(r[k], list[k].src, list[k].req)
      BY <1>2, <2>2, MergedTold
    <2>4. \A m \in 1..(k - 1) : Names(r[k - 1], list[m].src, list[m].req)
      BY <1>9
    <2>5. \A m \in 1..(k - 1) : Names(r[k], list[m].src, list[m].req)
      BY <2>3, <2>4 DEF Names
    <2> QED BY <2>1, <2>3, <2>5
  <1>10. n \in Good
    <2> HIDE DEF Good
    <2>1. n \in 0..n
      BY <1>2
    <2> QED BY <1>2, <1>8, <1>9, <2>1, CountUp
  <1>11. r[n] \in A
    <2> HIDE DEF A, step, n
    <2>1. n \in 0..n
      BY <1>2
    <2> QED BY <1>7, <2>1 DEF Trace
  <1> HIDE DEF h
  <1> QED BY <1>1, <1>2, <1>7, <1>10, <1>11

LEMMA SatSum ==
    /\ \A x, y \in Nat : satAdd(x, y) \in Nat
    /\ \A x, y \in Nat : x + y <= MaxInt64 => satAdd(x, y) = x + y
  <1>1. MaxInt64 \in Nat
    BY MetricsAssumption DEF MetricsAssumption
  <1> QED BY <1>1 DEF satAdd

\* A tally that does not saturate is a sum.
LEMMA TallyIsSum ==
    ASSUME NEW tok \in [Components -> Nat], SumOf(tok, Components) <= MaxInt64
    PROVE  Tally(tok) = SumOf(tok, Components)
  <1>1. tok \in [Components -> Int] /\ \A c \in Components : tok[c] \in Nat
    OBVIOUS
  <1>2. PICK h : Tally(tok) = h[Components] /\ TallySteps(h, tok)
    BY <1>1, TallyFold
  <1>3. IsFiniteSet(Components)
    BY MetricsAssumption DEF MetricsAssumption
  <1> DEFINE G == {s \in SUBSET Components : h[s] = SumOf(tok, s)}
  <1>4. ASSUME NEW s \in SUBSET Components, \A x \in s : s \ {x} \in G
        PROVE  s \in G
    <2>1. CASE s = {}
      <3>1. SumOf(tok, {}) = 0
        BY <1>1, <1>3, SumStep
      <3>2. h[{}] = 0
        BY <1>2, Zenon DEF TallySteps
      <3> QED BY <2>1, <3>1, <3>2
    <2>2. CASE s # {}
      <3>1. PICK x \in s : x = CHOOSE y \in s : TRUE
        BY <2>2
      <3>2. h[s] = satAdd(tok[x], h[s \ {x}])
        BY <1>2, <2>2, <3>1, Zenon DEF TallySteps
      <3>3. h[s \ {x}] = SumOf(tok, s \ {x})
        BY <1>4, <3>1
      <3>4. /\ SumOf(tok, s) = tok[x] + SumOf(tok, s \ {x}) /\ SumOf(tok, s \ {x}) \in Nat
            /\ SumOf(tok, s) \in Nat /\ SumOf(tok, Components) \in Nat
        <4>1. /\ \A y \in s : SumOf(tok, s) = tok[y] + SumOf(tok, s \ {y})
              /\ \A t \in SUBSET Components : SumOf(tok, t) \in Nat
          BY <1>1, <1>3, SumStep
        <4>2. s \ {x} \in SUBSET Components /\ Components \in SUBSET Components
          OBVIOUS
        <4> QED BY <4>1, <4>2
      <3>5. SumOf(tok, s) <= SumOf(tok, Components)
        BY <1>1, <1>3, SumOfPart
      <3>6. SumOf(tok, s) <= MaxInt64
        <4>1. MaxInt64 \in Nat
          BY MetricsAssumption DEF MetricsAssumption
        <4> QED BY <3>4, <3>5, <4>1
      <3>7. satAdd(tok[x], SumOf(tok, s \ {x})) = tok[x] + SumOf(tok, s \ {x})
        BY <1>1, <3>1, <3>4, <3>6, SatSum
      <3> QED BY <3>2, <3>3, <3>4, <3>7
    <2> QED BY <2>1, <2>2
  <1>5. \A s \in SUBSET Components : s \in G
    <2> HIDE DEF G
    <2>1. \A s \in SUBSET Components : (\A x \in s : s \ {x} \in G) => s \in G
      BY <1>4
    <2> QED BY <1>3, <2>1, SubsetsUp, Zenon
  <1> QED BY <1>2, <1>5

SliceSet ==
    [tok : [Components -> Nat], requests : Nat, turns : Nat, records : Nat,
     quality : {"authoritative", "degraded", NoDeriv}]

LEMMA AddedSlice ==
    ASSUME NEW slice \in SliceSet, NEW row \in RowSet
    PROVE  /\ addSlice(slice, row) \in SliceSet
           /\ addSlice(slice, row).tok = [c \in Components |-> satAdd(slice.tok[c], row.tok[c])]
  <1> DEFINE tok == [c \in Components |-> satAdd(slice.tok[c], row.tok[c])]
             requests == IF row.skip THEN slice.requests ELSE slice.requests + 1
             quality == WorseQuality(slice.quality, row.quality)
  <1>1. tok \in [Components -> Nat]
    BY SatSum DEF SliceSet, RowSet
  <1>2. quality \in {"authoritative", "degraded", NoDeriv}
    BY DEF SliceSet, RowSet, WorseQuality
  <1>3. requests \in Nat /\ slice.records + 1 \in Nat
    BY DEF SliceSet
  <1>4. addSlice(slice, row) = [slice EXCEPT !.tok = tok, !.requests = requests, !.records = slice.records + 1,
                                             !.quality = quality]
    BY DEF addSlice, AddTokens
  <1> HIDE DEF tok, requests, quality
  <1>5. addSlice(slice, row) \in SliceSet /\ addSlice(slice, row).tok = tok
    BY <1>1, <1>2, <1>3, <1>4 DEF SliceSet
  <1> QED BY <1>5 DEF tok

\* The tokens of a slice after each of its rows.
LEMMA SliceTokens ==
    ASSUME NEW list \in Seq(RowSet), NEW turns
    PROVE  \E u : /\ u \in [0..Len(list) -> [Components -> Nat]]
                  /\ u[0] = NoTokens
                  /\ \A k \in 1..Len(list) : \A c \in Components : u[k][c] = satAdd(u[k - 1][c], list[k].tok[c])
                  /\ SliceOf(list, turns).tok = u[Len(list)]
  <1> DEFINE n == Len(list)
             A == SliceSet
             Step(g) == [s \in SUBSET (1..n) |->
                            IF s = {} THEN NoSlice ELSE addSlice(g[s \ {Max(s)}], list[Max(s)])]
             h == CHOOSE g : g = Step(g)
             step == [i \in 1..n |-> [slice \in A |-> addSlice(slice, list[i])]]
  <1>1. FoldLeft(addSlice, NoSlice, list) = h[1..n]
    <2>1. DOMAIN list = 1..n
      OBVIOUS
    <2> QED BY <2>1 DEF FoldLeft, MapThenFoldSet
  <1>2. n \in Nat /\ \A i \in 1..n : list[i] \in RowSet
    OBVIOUS
  <1>3. NoSlice \in A /\ NoSlice.tok = NoTokens
    <2>1. NoSlice = [tok |-> NoTokens, requests |-> 0, turns |-> 0, records |-> 0, quality |-> NoDeriv]
      BY Zenon DEF NoSlice, NoDeriv
    <2>2. NoTokens \in [Components -> Nat]
      BY DEF NoTokens
    <2> QED BY <2>1, <2>2 DEF SliceSet
  <1>4. step \in [1..n -> [A -> A]]
    <2>1. \A i \in 1..n : \A slice \in A : addSlice(slice, list[i]) \in A
      BY <1>2, AddedSlice
    <2> HIDE DEF A, n
    <2> QED BY <2>1
  <1>5. h = Step(h)
    <2>1. PICK g : Unfolds(g, n, A, NoSlice, step)
      <3> HIDE DEF A, step, n
      <3> QED BY <1>2, <1>3, <1>4, FoldFound
    <2>2. ASSUME NEW s \in SUBSET (1..n), s # {}
          PROVE  step[Max(s)][g[s \ {Max(s)}]] = addSlice(g[s \ {Max(s)}], list[Max(s)])
      <3> HIDE DEF A, n
      <3> QED BY <2>1, <2>2 DEF Unfolds
    <2>3. g = Step(g)
      <3> HIDE DEF A, step, n
      <3> QED BY <2>1, <2>2 DEF Unfolds
    <2> QED BY <2>3
  <1>6. Follows(h, n, A, NoSlice, step)
    <2> HIDE DEF h, A, n
    <2> QED BY <1>2, <1>5, SeqMax DEF Follows
  <1>7. PICK r : Trace(r, n, A, NoSlice, step) /\ h[1..n] = r[n]
    <2> HIDE DEF h, A, step, n
    <2> QED BY <1>2, <1>3, <1>4, <1>6, FoldTrace
  <1> DEFINE u == [k \in 0..n |-> r[k].tok]
  <1>8. \A k \in 0..n : r[k] \in SliceSet
    <2> HIDE DEF step, n
    <2> QED BY <1>7 DEF Trace
  <1>9. u \in [0..n -> [Components -> Nat]]
    BY <1>8 DEF SliceSet
  <1>10. u[0] = NoTokens /\ SliceOf(list, turns).tok = u[n]
    <2>1. 0 \in 0..n /\ n \in 0..n /\ r[0] = NoSlice
      BY <1>2, <1>7 DEF Trace
    <2>2. SliceOf(list, turns).tok = r[n].tok
      <3>1. SliceOf(list, turns) = [r[n] EXCEPT !.turns = Len(turns)]
        BY <1>1, <1>7, Zenon DEF SliceOf
      <3> HIDE DEF n
      <3> QED BY <1>8, <2>1, <3>1 DEF SliceSet
    <2> QED BY <1>3, <2>1, <2>2
  <1>11. ASSUME NEW k \in 1..n, NEW c \in Components
         PROVE  u[k][c] = satAdd(u[k - 1][c], list[k].tok[c])
    <2>1. k \in 0..n /\ k - 1 \in 0..n
      BY <1>2
    <2>2. r[k] = addSlice(r[k - 1], list[k]) /\ r[k - 1] \in SliceSet
      BY <1>7, <2>1 DEF Trace
    <2>3. r[k].tok = [d \in Components |-> satAdd(r[k - 1].tok[d], list[k].tok[d])]
      BY <1>2, <2>2, AddedSlice
    <2> QED BY <2>1, <2>3
  <1> HIDE DEF u
  <1> QED BY <1>9, <1>10, <1>11

\* An account: its days, the request that stands for each, its tokens, and the
\* tokens of every request: those of the day it stands for, or none.
AccountOf(days, key, known, tokens) ==
    /\ IsFiniteSet(days) /\ days # {}
    /\ key \in [days -> Ids] /\ (\A d, e \in days : key[d] = key[e] => d = e)
    /\ known \in [days -> [Components -> Nat]]
    /\ SumOf([d \in days |-> SumOf(known[d], Components)], days) <= MaxInt64
    /\ \A q \in Ids : /\ \A d \in days : key[d] = q => tokens[q] = known[d]
                      /\ (\A d \in days : key[d] # q) => tokens[q] = NoTokens

LEMMA ColumnSums ==
    ASSUME NEW days, IsFiniteSet(days), NEW f, \A d \in days : f[d] \in Nat
    PROVE  /\ SumOf(f, {}) = 0
           /\ \A s \in SUBSET days : /\ SumOf(f, s) \in Nat
                                     /\ SumOf(f, s) <= SumOf(f, days)
                                     /\ \A d \in s : SumOf(f, s) = f[d] + SumOf(f, s \ {d})
           /\ \A d \in days : f[d] <= SumOf(f, days)
  <1>1. /\ SumOf(f, {}) = 0
        /\ \A s \in SUBSET days : /\ SumOf(f, s) \in Nat
                                  /\ \A d \in s : SumOf(f, s) = f[d] + SumOf(f, s \ {d})
    BY SumStep
  <1>2. \A s \in SUBSET days : SumOf(f, s) <= SumOf(f, days)
    BY SumOfPart
  <1>3. ASSUME NEW d \in days
        PROVE  f[d] <= SumOf(f, days)
    <2>1. SumOf(f, days) = f[d] + SumOf(f, days \ {d}) /\ SumOf(f, days \ {d}) \in Nat /\ f[d] \in Nat
      BY <1>1
    <2> QED BY <2>1
  <1> QED BY <1>1, <1>2, <1>3

LEMMA DayColumn ==
    ASSUME NEW days, IsFiniteSet(days), NEW known \in [days -> [Components -> Nat]], NEW c \in Components,
           NEW col, col = [d \in days |-> known[d][c]]
    PROVE  /\ SumOf(col, {}) = 0
           /\ \A s \in SUBSET days : /\ SumOf(col, s) \in Nat
                                     /\ SumOf(col, s) <= SumOf(col, days)
                                     /\ \A d \in s : SumOf(col, s) = known[d][c] + SumOf(col, s \ {d})
  <1>1. \A d \in days : col[d] = known[d][c] /\ col[d] \in Nat
    OBVIOUS
  <1>2. /\ SumOf(col, {}) = 0
        /\ \A s \in SUBSET days : /\ SumOf(col, s) \in Nat
                                  /\ SumOf(col, s) <= SumOf(col, days)
                                  /\ \A d \in s : SumOf(col, s) = col[d] + SumOf(col, s \ {d})
    BY <1>1, ColumnSums
  <1> QED BY <1>1, <1>2

\* Rows that tell the tokens of their days, each once, sum to the days.
LEMMA RowsAreDays ==
    ASSUME NEW days, NEW key, NEW known, NEW tokens, AccountOf(days, key, known, tokens),
           NEW list \in Told(tokens), \A i \in DOMAIN list : list[i].src = Narrated,
           \A d \in days : Names(list, Narrated, key[d]), NEW turns
    PROVE  Total(SliceOf(list, turns)) = SumOf([d \in days |-> Tally(known[d])], days)
  <1> DEFINE n == Len(list)
             W(k) == {d \in days : \E i \in 1..k : list[i].req = key[d]}
             col(c) == [d \in days |-> known[d][c]]
             over == [c \in Components |-> SumOf(col(c), days)]
             all == SumOf([d \in days |-> SumOf(known[d], Components)], days)
  <1>0. /\ IsFiniteSet(days)
        /\ key \in [days -> Ids] /\ (\A d, e \in days : key[d] = key[e] => d = e)
        /\ known \in [days -> [Components -> Nat]]
        /\ SumOf([d \in days |-> SumOf(known[d], Components)], days) <= MaxInt64
    BY DEF AccountOf
  <1> USE <1>0
  <1>1. /\ list \in Seq(RowSet) /\ Tells(list, tokens) /\ Once(list)
        /\ n \in Nat /\ DOMAIN list = 1..n
    BY DEF Told
  <1>2. IsFiniteSet(Components) /\ MaxInt64 \in Nat
    BY MetricsAssumption DEF MetricsAssumption
  <1>3. PICK u : /\ u \in [0..n -> [Components -> Nat]]
                 /\ u[0] = NoTokens
                 /\ \A k \in 1..n : \A c \in Components : u[k][c] = satAdd(u[k - 1][c], list[k].tok[c])
                 /\ SliceOf(list, turns).tok = u[n]
    BY <1>1, SliceTokens
  <1>4. \A c \in Components : \A d \in days : col(c)[d] = known[d][c] /\ known[d][c] \in Nat
    OBVIOUS
  <1>5. ASSUME NEW c \in Components
        PROVE  /\ SumOf(col(c), {}) = 0
               /\ \A s \in SUBSET days : /\ SumOf(col(c), s) \in Nat
                                         /\ SumOf(col(c), s) <= SumOf(col(c), days)
                                         /\ \A d \in s : SumOf(col(c), s) = known[d][c] + SumOf(col(c), s \ {d})
    BY DayColumn
  <1>6. SumOf(over, Components) = all
    <2>1. \A d \in days, c \in Components : known[d][c] \in Nat
      BY <1>4
    <2> QED BY <1>2, <2>1, SumsExchange
  <1>7. over \in [Components -> Nat]
    <2> HIDE DEF col
    <2> QED BY <1>5
  <1>8. \A c \in Components : SumOf(col(c), days) <= MaxInt64
    <2> SUFFICES ASSUME NEW c \in Components
                 PROVE  over[c] <= MaxInt64
      OBVIOUS
    <2> HIDE DEF over, all
    <2>1. /\ \A x \in Components : SumOf(over, Components) = over[x] + SumOf(over, Components \ {x})
          /\ \A s \in SUBSET Components : SumOf(over, s) \in Nat
      BY <1>2, <1>7, SumStep
    <2>2. over[c] + SumOf(over, Components \ {c}) <= MaxInt64
      BY <1>6, <2>1 DEF all
    <2>3. over[c] \in Nat /\ SumOf(over, Components \ {c}) \in Nat
      BY <1>7, <2>1
    <2> QED BY <1>2, <2>2, <2>3
  <1> HIDE DEF col, over, all
  <1> DEFINE Good == {k \in 0..n : \A c \in Components : u[k][c] = SumOf(col(c), W(k))}
  <1>9. 0 \in Good
    <2>1. W(0) = {} /\ 0 \in 0..n
      BY <1>1
    <2>2. \A c \in Components : u[0][c] = 0
      BY <1>3 DEF NoTokens
    <2> HIDE DEF W
    <2> QED BY <1>5, <2>1, <2>2
  <1>10. ASSUME NEW k \in 1..n, k - 1 \in Good
         PROVE  k \in Good
    <2> DEFINE q == list[k].req
    <2>1. /\ k - 1 \in 0..n /\ k \in 0..n /\ k \in 1..k
          /\ \A i \in 1..k : i = k \/ i \in 1..(k - 1)
          /\ \A i \in 1..(k - 1) : i \in 1..k /\ i # k /\ i \in 1..n
      BY <1>1
    <2>2. q \in Ids /\ list[k].tok = tokens[q] /\ \A i \in 1..(k - 1) : list[i].req # q
      <3>1. list[k] \in RowSet /\ list[k].src = Narrated
        BY <1>1
      <3>2. \A i \in 1..(k - 1) : list[i].src = Narrated
        BY <1>1, <2>1
      <3> QED BY <1>1, <2>1, <3>1, <3>2 DEF RowSet, Tells, Once
    <2>3. \A c \in Components : u[k - 1][c] = SumOf(col(c), W(k - 1)) /\ u[k][c] = satAdd(u[k - 1][c], tokens[q][c])
      <3> HIDE DEF W
      <3> QED BY <1>3, <1>10, <2>2
    <2>4. W(k - 1) \in SUBSET days /\ W(k) \in SUBSET days
      OBVIOUS
    <2>5. CASE \E d \in days : key[d] = q
      <3>1. PICK d \in days : key[d] = q
        BY <2>5
      <3>2. tokens[q] = known[d]
        BY <2>2, <3>1 DEF AccountOf
      <3>3. d \in W(k) /\ W(k) \ {d} = W(k - 1)
        <4>1. d \in W(k) /\ d \notin W(k - 1)
          BY <2>1, <2>2, <3>1
        <4>2. \A e \in W(k) : e = d \/ e \in W(k - 1)
          BY <2>1, <3>1
        <4>3. \A e \in W(k - 1) : e \in W(k)
          BY <2>1
        <4> HIDE DEF W
        <4> QED BY <4>1, <4>2, <4>3
      <3> HIDE DEF W
      <3>4. ASSUME NEW c \in Components
            PROVE  u[k][c] = SumOf(col(c), W(k))
        <4>1. /\ SumOf(col(c), W(k)) = known[d][c] + SumOf(col(c), W(k - 1))
              /\ SumOf(col(c), W(k)) \in Nat /\ SumOf(col(c), W(k - 1)) \in Nat
              /\ SumOf(col(c), W(k)) <= SumOf(col(c), days) /\ SumOf(col(c), days) \in Nat
          BY <1>5, <2>4, <3>3
        <4>2. SumOf(col(c), W(k)) <= MaxInt64
          BY <1>2, <1>8, <4>1
        <4>3. known[d][c] \in Nat
          BY <1>4
        <4>4. PICK m \in Nat, t \in Nat : /\ m = SumOf(col(c), W(k - 1)) /\ t = known[d][c]
                                         /\ SumOf(col(c), W(k)) = t + m
          BY <4>1, <4>3
        <4>5. satAdd(m, t) = t + m
          BY <4>2, <4>4, SatSum
        <4>6. u[k][c] = satAdd(m, t)
          BY <2>3, <3>2, <4>4
        <4> QED BY <4>4, <4>5, <4>6
      <3> QED BY <2>1, <3>4
    <2>6. CASE ~ \E d \in days : key[d] = q
      <3>1. tokens[q] = NoTokens
        BY <2>2, <2>6 DEF AccountOf
      <3>2. W(k) = W(k - 1)
        <4>1. \A e \in W(k) : e \in W(k - 1)
          BY <2>1, <2>6
        <4>2. \A e \in W(k - 1) : e \in W(k)
          BY <2>1
        <4> HIDE DEF W
        <4> QED BY <4>1, <4>2
      <3> HIDE DEF W
      <3>3. ASSUME NEW c \in Components
            PROVE  u[k][c] = SumOf(col(c), W(k))
        <4>1. /\ SumOf(col(c), W(k - 1)) \in Nat /\ SumOf(col(c), W(k - 1)) <= SumOf(col(c), days)
              /\ SumOf(col(c), days) \in Nat
          BY <1>5, <2>4
        <4>2. SumOf(col(c), W(k - 1)) + 0 <= MaxInt64
          BY <1>2, <1>8, <4>1
        <4>3. tokens[q][c] = 0
          BY <3>1 DEF NoTokens
        <4>4. satAdd(SumOf(col(c), W(k - 1)), 0) = SumOf(col(c), W(k - 1)) + 0
          BY <4>1, <4>2, SatSum
        <4> QED BY <2>3, <3>2, <4>1, <4>3, <4>4
      <3> QED BY <2>1, <3>3
    <2> QED BY <2>5, <2>6
  <1>11. n \in Good
    <2> HIDE DEF Good
    <2>1. n \in 0..n
      BY <1>1
    <2> QED BY <1>1, <1>9, <1>10, <2>1, CountUp
  <1>12. W(n) = days
    BY <1>1 DEF Names
  <1>13. u[n] = over
    <2>1. u[n] \in [Components -> Nat]
      BY <1>1, <1>3
    <2>2. \A c \in Components : u[n][c] = over[c]
      BY <1>11, <1>12 DEF over
    <2> QED BY <1>7, <2>1, <2>2
  <1>14. Total(SliceOf(list, turns)) = all
    <2>1. SumOf(over, Components) <= MaxInt64
      BY <1>6 DEF all
    <2> QED BY <1>3, <1>6, <1>7, <1>13, <2>1, TallyIsSum DEF Total
  <1>15. ASSUME NEW d \in days
         PROVE  Tally(known[d]) = SumOf(known[d], Components)
    <2> DEFINE f == [e \in days |-> SumOf(known[e], Components)]
    <2>1. \A e \in days : SumOf(known[e], Components) \in Nat
      BY <1>2, SumStep
    <2>2. \A e \in days : f[e] \in Nat
      BY <2>1
    <2>3. f[d] = SumOf(known[d], Components) /\ all = SumOf(f, days)
      BY DEF all
    <2> HIDE DEF f
    <2>4. f[d] <= SumOf(f, days)
      BY <2>2, ColumnSums
    <2>6. all <= MaxInt64
      BY DEF all
    <2>7. SumOf(known[d], Components) <= MaxInt64
      BY <1>2, <2>1, <2>2, <2>3, <2>4, <2>6, SumStep
    <2> QED BY <2>7, TallyIsSum
  <1>16. [d \in days |-> Tally(known[d])] = [d \in days |-> SumOf(known[d], Components)]
    BY <1>15
  <1> QED BY <1>14, <1>16 DEF all

\* What is selected tells what the list told, and each request once.
LEMMA SelectedTold ==
    ASSUME NEW tokens, NEW list \in Seq(RowSet), Tells(list, tokens), NEW out \in Seq(RowSet),
           NEW chosen \in SUBSET (1..Len(list)), Selected(out, Len(list), list, chosen)
    PROVE  /\ Tells(out, tokens)
           /\ Once(list) => Once(out)
           /\ \A i \in DOMAIN out : \E m \in chosen : out[i] = list[m]
           /\ \A m \in chosen : Names(out, list[m].src, list[m].req)
  <1>1. PICK place \in [1..Len(out) -> 1..Len(list)] :
          /\ \A i \in 1..Len(out) : place[i] \in chosen /\ out[i] = list[place[i]]
          /\ \A i, j \in 1..Len(out) : place[i] = place[j] => i = j
          /\ \A m \in chosen : \E i \in 1..Len(out) : place[i] = m
    BY DEF Selected
  <1>2. DOMAIN out = 1..Len(out) /\ DOMAIN list = 1..Len(list)
    OBVIOUS
  <1>3. Tells(out, tokens)
    BY <1>1, <1>2 DEF Tells
  <1>4. ASSUME Once(list)
        PROVE  Once(out)
    <2>1. ASSUME NEW i \in DOMAIN out, NEW j \in DOMAIN out,
                 out[i].src = Narrated /\ out[j].src = Narrated /\ out[i].req = out[j].req
          PROVE  i = j
      <3>1. /\ place[i] \in DOMAIN list /\ place[j] \in DOMAIN list
            /\ out[i] = list[place[i]] /\ out[j] = list[place[j]]
        BY <1>1, <1>2
      <3>2. place[i] = place[j]
        BY <1>4, <2>1, <3>1 DEF Once
      <3> QED BY <1>1, <1>2, <3>2
    <2> QED BY <2>1, Zenon DEF Once
  <1>5. \A m \in chosen : Names(out, list[m].src, list[m].req)
    BY <1>1, <1>2 DEF Names
  <1> QED BY <1>1, <1>2, <1>3, <1>4, <1>5

LEMMA SnapshotAgents ==
    ASSUME NEW in, NEW sum, NEW periods, NEW status
    PROVE  Snapshot(in, sum, periods, status).agents = periods.all.agents
  <1>1. \E shown, series, total :
          Snapshot(in, sum, periods, status)
            = [date |-> in.today, dataStatus |-> status, total |-> total, agents |-> periods.all.agents,
               periods |-> periods, wall |-> shown, series |-> series]
    BY Zenon DEF Snapshot
  <1> QED BY <1>1

\* The agents of a snapshot are the breakdown of the rows, merged once more.
LEMMA AgentsOfBuild ==
    ASSUME NEW raw, NEW in, in = Canonical(raw)
    PROVE  \/ Build(raw).agents = <<>>
           \/ Build(raw).agents
                = projectBreakdown(AggregateAt(filterWindow(in.rows, AllTime), filterWindow(in.turns, AllTime)).bySource,
                                   in)
  <1> DEFINE sum == AggregateAt(in.rows, in.turns)
             windows == PeriodWindows(in.today)
             agg == AggregateAt(filterWindow(in.rows, AllTime), filterWindow(in.turns, AllTime))
  <1>1. Build(raw) = BuildFrom(in, sum)
    BY Zenon DEF Build
  <1>2. "all" \in DOMAIN windows /\ windows["all"] = AllTime
    BY DEF PeriodWindows
  <1>10. \E v \in BOOLEAN : Build(raw).agents = Periods(in, v).all.agents
    <2>1. (dataStatus(sum) = "unavailable") \in BOOLEAN
      BY Zenon
    <2>2. Build(raw).agents = Periods(in, dataStatus(sum) = "unavailable").all.agents
      <3>1. \E periods, status : /\ periods = Periods(in, dataStatus(sum) = "unavailable")
                                 /\ Build(raw) = Snapshot(in, sum, periods, status)
        BY <1>1, Zenon DEF BuildFrom
      <3>2. PICK periods, status : /\ periods = Periods(in, dataStatus(sum) = "unavailable")
                                   /\ Build(raw) = Snapshot(in, sum, periods, status)
        BY <3>1, Zenon
      <3>3. Build(raw).agents = periods.all.agents
        <4>1. Build(raw) = Snapshot(in, sum, periods, status)
          BY <3>2, Zenon
        <4> HIDE <3>2
        <4> QED BY <4>1, SnapshotAgents
      <3> QED BY <3>2, <3>3, Zenon
    <2> QED BY <2>1, <2>2, Zenon
  <1>4. Periods(in, TRUE)["all"] = PeriodOf(agg, in, TRUE) /\ Periods(in, FALSE)["all"] = PeriodOf(agg, in, FALSE)
    BY <1>2, Zenon DEF Periods, projectPeriod
  <1>5. PeriodOf(agg, in, TRUE).agents = <<>>
    BY Zenon DEF PeriodOf
  <1>6. PeriodOf(agg, in, FALSE).agents = projectBreakdown(agg.bySource, in)
    BY Zenon DEF PeriodOf
  <1> QED BY <1>10, <1>4, <1>5, <1>6, Zenon

LEMMA NarratedRow ==
    ASSUME NEW bySource, NEW in, Narrated \in DOMAIN projectBreakdown(bySource, in)
    PROVE  projectBreakdown(bySource, in)[Narrated] = BreakdownRow(Narrated, bySource[Narrated], in)
  <1>1. \E list : projectBreakdown(bySource, in) = SplitBreakdown(bySource, list, in)
    BY Zenon DEF projectBreakdown
  <1>2. PICK list : projectBreakdown(bySource, in) = SplitBreakdown(bySource, list, in)
    BY <1>1
  <1>3. \E rest : SplitBreakdown(bySource, list, in) = Breakdown(bySource, NamedOf(list), rest, in)
    BY Zenon DEF SplitBreakdown
  <1>4. PICK rest : SplitBreakdown(bySource, list, in) = Breakdown(bySource, NamedOf(list), rest, in)
    BY <1>3
  <1>5. Narrated # Other
    BY SnapshotAssumption DEF SnapshotAssumption
  <1>6. PICK named : named = NamedOf(list)
    OBVIOUS
  <1>7. Narrated \in DOMAIN Breakdown(bySource, named, rest, in)
    BY <1>2, <1>4, <1>6
  <1>8. Narrated \in named
    BY <1>5, <1>7 DEF Breakdown
  <1>9. Breakdown(bySource, named, rest, in)[Narrated] = BreakdownRow(Narrated, bySource[Narrated], in)
    BY <1>7, <1>8, Zenon DEF Breakdown
  <1> QED BY <1>2, <1>4, <1>6, <1>9

LEMMA RowTotal ==
    ASSUME NEW id, NEW slice, NEW in, Total(slice) \in Nat, Total(slice) > 0
    PROVE  BreakdownRow(id, slice, in).total = Total(slice)
  <1>1. tokenStatusOf(slice) # "unavailable"
    BY DEF tokenStatusOf, tokensUnavailable
  <1> QED BY <1>1, Zenon DEF BreakdownRow

\* Rows that show it: they tell its tokens, and name each of its days.
Shows(list, tokens, days, key) ==
    /\ list \in Seq(RowSet) /\ Tells(list, tokens)
    /\ \A d \in days : Names(list, Narrated, key[d])

LEMMA MergedShows ==
    ASSUME NEW list, NEW tokens, NEW days, NEW key, Shows(list, tokens, days, key)
    PROVE  Shows(mergeByRequest(list), tokens, days, key) /\ Once(mergeByRequest(list))
  <1>1. list \in Seq(RowSet) /\ Tells(list, tokens)
    BY DEF Shows
  <1>2. PICK out : out = mergeByRequest(list)
    OBVIOUS
  <1>3. out \in Told(tokens) /\ \A m \in DOMAIN list : Names(out, list[m].src, list[m].req)
    BY <1>1, <1>2, MergedList
  <1>4. \A d \in days : Names(out, Narrated, key[d])
    BY <1>3 DEF Names, Shows
  <1> QED BY <1>2, <1>3, <1>4 DEF Shows, Told

LEMMA KeptShows ==
    ASSUME NEW list, NEW tokens, NEW days, NEW key, Shows(list, tokens, days, key)
    PROVE  Shows(filterWindow(list, AllTime), tokens, days, key)
  <1>1. list \in Seq(RowSet) /\ Tells(list, tokens) /\ DOMAIN list = 1..Len(list)
    BY DEF Shows
  <1>2. PICK out : out = filterWindow(list, AllTime)
    OBVIOUS
  <1>3. out \in Seq(RowSet) /\ Selected(out, Len(list), list, 1..Len(list))
    BY <1>1, <1>2, AllTimeKeeps
  <1>4. Tells(out, tokens) /\ \A m \in 1..Len(list) : Names(out, list[m].src, list[m].req)
    BY <1>1, <1>3, SelectedTold
  <1>5. \A d \in days : Names(out, Narrated, key[d])
    BY <1>1, <1>4 DEF Names, Shows
  <1> QED BY <1>2, <1>3, <1>4, <1>5 DEF Shows

LEMMA OwnShows ==
    ASSUME NEW list, NEW tokens, NEW days, NEW key, Shows(list, tokens, days, key), Once(list)
    PROVE  LET mine == OfSource(list, Narrated)
           IN Shows(mine, tokens, days, key) /\ Once(mine) /\ \A i \in DOMAIN mine : mine[i].src = Narrated
  <1>1. list \in Seq(RowSet) /\ Tells(list, tokens) /\ DOMAIN list = 1..Len(list)
    BY DEF Shows
  <1>2. PICK out : out = OfSource(list, Narrated)
    OBVIOUS
  <1>3. PICK chosen : chosen = {i \in 1..Len(list) : list[i].src = Narrated}
    OBVIOUS
  <1>4. out \in Seq(RowSet) /\ Selected(out, Len(list), list, chosen)
    BY <1>1, <1>2, <1>3, OfSourceKeeps
  <1>5. /\ Tells(out, tokens) /\ Once(out) /\ (\A i \in DOMAIN out : \E m \in chosen : out[i] = list[m])
        /\ \A m \in chosen : Names(out, list[m].src, list[m].req)
    BY <1>1, <1>3, <1>4, SelectedTold
  <1>6. \A d \in days : Names(out, Narrated, key[d])
    BY <1>1, <1>3, <1>5 DEF Names, Shows
  <1>7. \A i \in DOMAIN out : out[i].src = Narrated
    BY <1>3, <1>5
  <1> QED BY <1>2, <1>4, <1>5, <1>6, <1>7 DEF Shows

LEMMA OwnTotal ==
    ASSUME NEW days, NEW key, NEW known, NEW tokens, AccountOf(days, key, known, tokens),
           NEW list, Shows(list, tokens, days, key), Once(list), NEW turns,
           \A i \in DOMAIN list : list[i].src = Narrated
    PROVE  Total(SliceOf(list, turns)) = SumOf([d \in days |-> Tally(known[d])], days)
  <1>1. list \in Told(tokens) /\ \A d \in days : Names(list, Narrated, key[d])
    BY DEF Shows, Told
  <1> QED BY <1>1, RowsAreDays

\* The row of the account is what its days sum to.
LEMMA BuildTells ==
    ASSUME NEW days, NEW key, NEW known, NEW tokens, AccountOf(days, key, known, tokens),
           NEW list, Shows(list, tokens, days, key),
           NEW total \in Nat, total > 0, total = SumOf([d \in days |-> Tally(known[d])], days),
           NEW raw, Canonical(raw).rows = mergeByRequest(list),
           Narrated \in DOMAIN Build(raw).agents
    PROVE  Build(raw).agents[Narrated].total = total
  <1>1. PICK in : in = Canonical(raw)
    OBVIOUS
  <1>2. PICK kept : kept = filterWindow(in.rows, AllTime)
    OBVIOUS
  <1>3. PICK turns : turns = filterWindow(in.turns, AllTime)
    OBVIOUS
  <1>4. PICK merged : merged = mergeByRequest(kept)
    OBVIOUS
  <1>5. PICK mine : mine = OfSource(merged, Narrated)
    OBVIOUS
  <1>6. PICK theirs : theirs = OfSource(turns, Narrated)
    OBVIOUS
  <1>7. PICK sum : sum = AggregateAt(kept, turns)
    OBVIOUS
  <1>8. Shows(merged, tokens, days, key) /\ Once(merged)
    <2>1. Shows(in.rows, tokens, days, key)
      BY <1>1, MergedShows
    <2>2. Shows(kept, tokens, days, key)
      BY <1>2, <2>1, KeptShows
    <2> QED BY <1>4, <2>2, MergedShows
  <1>9. Total(SliceOf(mine, theirs)) = total
    <2>1. Shows(mine, tokens, days, key) /\ Once(mine) /\ \A i \in DOMAIN mine : mine[i].src = Narrated
      BY <1>5, <1>8, OwnShows
    <2> QED BY <2>1, OwnTotal
  <1>10. sum.bySource[Narrated] = SliceOf(mine, theirs)
    <2>1. Narrated \in SourcesOf(merged)
      <3>1. PICK d : d \in days
        BY DEF AccountOf
      <3>2. \E i \in DOMAIN merged : merged[i].src = Narrated
        BY <1>8, <3>1 DEF Names, Shows
      <3> QED BY <3>2 DEF SourcesOf, ToSet
    <2>2. sum = Summary(merged, turns)
      BY <1>4, <1>7, Zenon DEF AggregateAt
    <2> QED BY <1>5, <1>6, <2>1, <2>2, Zenon DEF Summary
  <1>11. Build(raw).agents = projectBreakdown(sum.bySource, in)
    <2>1. Build(raw).agents = <<>> \/ Build(raw).agents = projectBreakdown(sum.bySource, in)
      BY <1>1, <1>2, <1>3, <1>7, AgentsOfBuild
    <2> QED BY <2>1
  <1>12. Build(raw).agents[Narrated] = BreakdownRow(Narrated, SliceOf(mine, theirs), in)
    <2>1. Narrated \in DOMAIN projectBreakdown(sum.bySource, in)
      BY <1>11
    <2>2. projectBreakdown(sum.bySource, in)[Narrated] = BreakdownRow(Narrated, sum.bySource[Narrated], in)
      BY <2>1, NarratedRow
    <2> QED BY <1>10, <1>11, <2>2
  <1> QED BY <1>9, <1>12, RowTotal

\* A set in some order has each of its elements.
LEMMA Listed ==
    ASSUME NEW S, IsFiniteSet(S)
    PROVE  /\ SetToSeq(S) \in Seq(S)
           /\ \A x \in S : \E i \in DOMAIN SetToSeq(S) : SetToSeq(S)[i] = x
  <1>1. PICK n \in Nat : n = Cardinality(S)
    BY FS_CardinalityType
  <1>2. ExistsBijection(1..n, S)
    BY <1>1, FS_CardinalityType
  <1>3. PICK g : g \in Injection(1..n, S)
    BY <1>2 DEF ExistsBijection, Bijection
  <1>4. \E f \in [1..n -> S] : IsInjective(f)
    BY <1>3 DEF Injection
  <1>5. PICK f \in [1..n -> S] : f = SetToSeq(S) /\ IsInjective(f)
    BY <1>1, <1>4 DEF SetToSeq
  <1>6. f \in Injection(1..n, S)
    BY <1>5 DEF Injection
  <1>7. IsFiniteSet(1..n) /\ Cardinality(1..n) = n
    BY FS_Interval
  <1>8. f \in Surjection(1..n, S)
    BY <1>1, <1>6, <1>7, FS_Injection
  <1>9. \A x \in S : \E i \in 1..n : f[i] = x
    BY <1>8 DEF Surjection
  <1>10. f \in Seq(S) /\ DOMAIN f = 1..n
    BY <1>5, IsASeq
  <1> QED BY <1>5, <1>9, <1>10

\* The tokens of a day are a sum that fits.
LEMMA DaysFit ==
    ASSUME NEW days, IsFiniteSet(days), NEW known \in [days -> [Components -> Nat]],
           SumOf([d \in days |-> SumOf(known[d], Components)], days) <= MaxInt64, NEW d \in days
    PROVE  /\ Tally(known[d]) = SumOf(known[d], Components)
           /\ SumOf(known[d], Components) \in Nat
  <1> DEFINE f == [e \in days |-> SumOf(known[e], Components)]
  <1>1. IsFiniteSet(Components) /\ MaxInt64 \in Nat
    BY MetricsAssumption DEF MetricsAssumption
  <1>2. \A e \in days : SumOf(known[e], Components) \in Nat
    BY <1>1, SumStep
  <1>3. \A e \in days : f[e] \in Nat
    BY <1>2
  <1>4. f[d] = SumOf(known[d], Components) /\ SumOf(f, days) <= MaxInt64
    OBVIOUS
  <1> HIDE DEF f
  <1>5. f[d] <= SumOf(f, days) /\ SumOf(f, days) \in Nat
    BY <1>3, ColumnSums
  <1>6. SumOf(known[d], Components) <= MaxInt64
    BY <1>1, <1>3, <1>4, <1>5
  <1> QED BY <1>2, <1>6, TallyIsSum

\* Days with tokens have a total.
LEMMA DaysTotal ==
    ASSUME NEW days, IsFiniteSet(days), days # {}, NEW known \in [days -> [Components -> Nat]],
           SumOf([d \in days |-> SumOf(known[d], Components)], days) <= MaxInt64,
           \A d \in days : \E c \in Components : known[d][c] > 0
    PROVE  \E total \in Nat : total > 0 /\ total = SumOf([d \in days |-> Tally(known[d])], days)
  <1> DEFINE f == [d \in days |-> Tally(known[d])]
  <1>1. \A d \in days : Tally(known[d]) = SumOf(known[d], Components) /\ SumOf(known[d], Components) \in Nat
    BY DaysFit
  <1>2. \A d \in days : f[d] \in Nat /\ f[d] = SumOf(known[d], Components)
    BY <1>1
  <1>3. PICK d \in days, c \in Components : known[d][c] > 0
    OBVIOUS
  <1> HIDE DEF f
  <1>4. SumOf(f, days) \in Nat /\ f[d] <= SumOf(f, days)
    BY <1>2, ColumnSums
  <1>5. known[d] \in [Components -> Nat]
    OBVIOUS
  <1>6. f[d] > 0
    <2>1. PICK tok \in [Components -> Nat] : tok = known[d]
      BY <1>5
    <2>2. IsFiniteSet(Components)
      BY MetricsAssumption DEF MetricsAssumption
    <2>3. /\ \A s \in SUBSET Components : SumOf(tok, s) \in Nat
          /\ SumOf(tok, Components) = tok[c] + SumOf(tok, Components \ {c})
      BY <2>2, SumStep
    <2>4. PICK a \in Nat, b \in Nat : /\ a = tok[c] /\ b = SumOf(tok, Components \ {c}) /\ a > 0
                                     /\ SumOf(tok, Components) = a + b
      BY <1>3, <2>1, <2>3
    <2>5. f[d] = a + b
      BY <1>2, <2>1, <2>4
    <2> QED BY <2>4, <2>5
  <1>7. PICK total \in Nat : total = SumOf(f, days)
    BY <1>4
  <1>8. total > 0
    <2>1. f[d] \in Nat
      BY <1>2
    <2> QED BY <1>4, <1>6, <1>7, <2>1
  <1> QED BY <1>7, <1>8 DEF f

LEMMA OwnIsNoAccount == \A q \in OwnIds : q \notin AccountIds
  <1> SUFFICES ASSUME NEW n \in Nat, NEW a, NEW b
               PROVE  <<n>> # <<a, b>>
    BY DEF OwnIds, AccountIds
  <1>1. Len(<<n>>) = 1 /\ Len(<<a, b>>) = 2
    OBVIOUS
  <1> QED BY <1>1

\* Days of an account: each with tokens, and all of them within the counters.
Measured(days, known) ==
    /\ IsFiniteSet(days) /\ days # {}
    /\ known \in [days -> [Components -> Nat]]
    /\ SumOf([d \in days |-> SumOf(known[d], Components)], days) <= MaxInt64
    /\ \A d \in days : \E c \in Components : known[d][c] > 0

Keys(days, key) == key \in [days -> AccountIds] /\ \A d, e \in days : key[d] = key[e] => d = e

\* Every account has its tokens.
LEMMA TokensExist ==
    ASSUME NEW days, NEW known, Measured(days, known), NEW key, Keys(days, key)
    PROVE  \E tokens : /\ AccountOf(days, key, known, tokens)
                       /\ \A d \in days : tokens[key[d]] = known[d]
                       /\ \A q \in OwnIds : tokens[q] = NoTokens
  <1> DEFINE tokens == [q \in Ids |-> IF \E d \in days : key[d] = q THEN known[CHOOSE d \in days : key[d] = q]
                                      ELSE NoTokens]
  <1>0. /\ IsFiniteSet(days) /\ days # {} /\ key \in [days -> AccountIds]
        /\ \A d, e \in days : key[d] = key[e] => d = e
        /\ known \in [days -> [Components -> Nat]]
        /\ SumOf([d \in days |-> SumOf(known[d], Components)], days) <= MaxInt64
    BY DEF Measured, Keys
  <1> USE <1>0
  <1>1. key \in [days -> Ids]
    BY DEF Ids
  <1>2. \A q \in Ids : /\ \A d \in days : key[d] = q => tokens[q] = known[d]
                       /\ (\A d \in days : key[d] # q) => tokens[q] = NoTokens
    <2> SUFFICES ASSUME NEW q \in Ids
                 PROVE  /\ \A d \in days : key[d] = q => tokens[q] = known[d]
                        /\ (\A d \in days : key[d] # q) => tokens[q] = NoTokens
      OBVIOUS
    <2>1. ASSUME NEW d \in days, key[d] = q
          PROVE  tokens[q] = known[d]
      <3>1. (CHOOSE e \in days : key[e] = q) = d
        BY <2>1
      <3> QED BY <2>1, <3>1
    <2>2. (\A d \in days : key[d] # q) => tokens[q] = NoTokens
      OBVIOUS
    <2> QED BY <2>1, <2>2
  <1> HIDE DEF tokens
  <1>3. \A d \in days : tokens[key[d]] = known[d]
    BY <1>1, <1>2
  <1>4. \A q \in OwnIds : tokens[q] = NoTokens
    <2>1. \A q \in OwnIds : q \in Ids /\ q \notin AccountIds
      BY OwnIsNoAccount DEF Ids
    <2> QED BY <1>2, <2>1
  <1>5. AccountOf(days, key, known, tokens)
    BY <1>1, <1>2 DEF AccountOf
  <1> QED BY <1>3, <1>4, <1>5

\* Local rows whose tokens the account stands for.
Silent(local) ==
    /\ local \in Seq(RowSet)
    /\ \A i \in DOMAIN local : local[i].src = Narrated => local[i].req \in OwnIds /\ local[i].tok = NoTokens

\* Rows of the days, at least one for each.
StandFor(extra, days, key, known) ==
    /\ extra \in Seq(RowSet)
    /\ \A i \in DOMAIN extra : /\ extra[i].src = Narrated
                               /\ \E d \in days : extra[i].req = key[d] /\ extra[i].tok = known[d]
    /\ \A d \in days : \E i \in DOMAIN extra : extra[i].req = key[d]

LEMMA Together ==
    ASSUME NEW days, NEW key, NEW known, NEW tokens, NEW local, Silent(local),
           NEW extra, StandFor(extra, days, key, known),
           \A d \in days : tokens[key[d]] = known[d], \A q \in OwnIds : tokens[q] = NoTokens
    PROVE  Shows(local \o extra, tokens, days, key)
  <1>1. local \in Seq(RowSet) /\ extra \in Seq(RowSet)
    BY DEF Silent, StandFor
  <1>0. local \o extra \in Seq(RowSet)
    BY <1>1
  <1>2. PICK list \in Seq(RowSet) : list = local \o extra
    BY <1>0
  <1>3. PICK m \in Nat, n \in Nat : m = Len(local) /\ n = Len(extra)
    BY <1>1
  <1>4. /\ \A i \in DOMAIN list : i \in 1..m \/ i - m \in 1..n
        /\ \A i \in 1..m : i \in DOMAIN list /\ list[i] = local[i] /\ i \in DOMAIN local
        /\ \A i \in 1..n : m + i \in DOMAIN list /\ list[m + i] = extra[i] /\ i \in DOMAIN extra
        /\ \A i \in DOMAIN list : i - m \in 1..n => m + (i - m) = i
        /\ DOMAIN extra = 1..n
    BY <1>1, <1>2, <1>3
  <1>5. Tells(list, tokens)
    <2> SUFFICES ASSUME NEW i \in DOMAIN list, list[i].src = Narrated
                 PROVE  list[i].tok = tokens[list[i].req]
      BY DEF Tells
    <2>1. CASE i \in 1..m
      <3>1. list[i] = local[i] /\ i \in DOMAIN local
        BY <1>4, <2>1
      <3>2. local[i].req \in OwnIds /\ local[i].tok = NoTokens
        BY <3>1 DEF Silent
      <3> QED BY <3>1, <3>2
    <2>2. CASE i - m \in 1..n
      <3>1. PICK j \in DOMAIN extra : list[i] = extra[j]
        BY <1>4, <2>2
      <3>2. PICK d \in days : extra[j].req = key[d] /\ extra[j].tok = known[d]
        BY <3>1 DEF StandFor
      <3> QED BY <3>1, <3>2
    <2> QED BY <1>4, <2>1, <2>2
  <1>6. ASSUME NEW d \in days
        PROVE  Names(list, Narrated, key[d])
    <2>1. PICK j \in DOMAIN extra : extra[j].req = key[d]
      BY DEF StandFor
    <2>2. extra[j].src = Narrated
      BY DEF StandFor
    <2>3. m + j \in DOMAIN list /\ list[m + j] = extra[j]
      BY <1>4, <2>1
    <2> QED BY <2>1, <2>2, <2>3 DEF Names
  <1> QED BY <1>2, <1>5, <1>6 DEF Shows

LEMMA AccountTotal ==
    ASSUME NEW days, NEW known, Measured(days, known), NEW key, Keys(days, key),
           NEW local, Silent(local), NEW extra, StandFor(extra, days, key, known),
           NEW raw, Canonical(raw).rows = mergeByRequest(local \o extra), Narrated \in DOMAIN Build(raw).agents
    PROVE  Build(raw).agents[Narrated].total = SumOf([d \in days |-> Tally(known[d])], days)
  <1>1. PICK total \in Nat : total > 0 /\ total = SumOf([d \in days |-> Tally(known[d])], days)
    BY DaysTotal DEF Measured
  <1>2. PICK tokens : /\ AccountOf(days, key, known, tokens)
                      /\ \A d \in days : tokens[key[d]] = known[d]
                      /\ \A q \in OwnIds : tokens[q] = NoTokens
    BY TokensExist
  <1>3. PICK list : list = local \o extra
    OBVIOUS
  <1>4. Shows(list, tokens, days, key)
    BY <1>2, <1>3, Together
  <1>5. Canonical(raw).rows = mergeByRequest(list)
    BY <1>3
  <1> QED BY <1>1, <1>2, <1>4, <1>5, BuildTells

-----------------------------------------------------------------------------
(* The inputs of a refresh. *)

Tabled(S) == UNION {[T -> Chunks] : T \in SUBSET S}

AccountOK ==
    /\ day \in 1..FigureDays
    /\ account \in Tabled(1..day)
    /\ held \in Tabled(1..day)
    /\ \E kind, snap, before, applied :
         refresh = [kind |-> kind, snap |-> snap, before |-> before, applied |-> applied]

LEMMA ChunkTokens == Chunks \subseteq [Components -> Nat]
  BY FiguresAssumption DEF FiguresAssumption

\* The rows of this machine, as they are read beside an account.
LEMMA LocalRow ==
    ASSUME LinesOK, NEW i \in DOMAIN rows
    PROVE  /\ rows[i] \in RowSet /\ rows[i].deriv = NoDeriv /\ rows[i].req \in OwnIds
           /\ StripLocal(rows[i]) \in RowSet
           /\ StripLocal(rows[i]).src = rows[i].src /\ StripLocal(rows[i]).req = rows[i].req
           /\ StripLocal(rows[i]).tok = NoTokens
  <1> DEFINE ats == {StartOf(d) : d \in 1..day}
  <1>1. ats \subseteq Nat
    BY StartIsOfDay DEF LinesOK
  <1>2. PICK r : r = rows[i]
    OBVIOUS
  <1>3. r \in LineSet(ats)
    BY <1>2 DEF LinesOK
  <1> HIDE DEF ats
  <1>4. r \in RowSet /\ r.deriv = NoDeriv /\ r.req \in OwnIds
    BY <1>1, <1>3 DEF LineSet, RowSet, Ids
  <1>5. StripLocal(r) = [r EXCEPT !.tok = NoTokens, !.quality = NoDeriv, !.deriv = NoDeriv]
    BY Zenon DEF StripLocal, NoDeriv
  <1>6. NoTokens \in [Components -> Nat]
    BY DEF NoTokens
  <1>7. StripLocal(r) \in RowSet /\ StripLocal(r).src = r.src /\ StripLocal(r).req = r.req /\ StripLocal(r).tok = NoTokens
    BY <1>4, <1>5, <1>6 DEF RowSet
  <1> QED BY <1>2, <1>4, <1>7

LEMMA StrippedRows ==
    ASSUME LinesOK, NEW local,
           local = [i \in DOMAIN rows |-> IF rows[i].src = Narrated THEN StripLocal(rows[i]) ELSE rows[i]]
    PROVE  Silent(local)
  <1>1. PICK n \in Nat : DOMAIN rows = 1..n
    BY DEF LinesOK
  <1>2. \A i \in DOMAIN rows : /\ local[i] \in RowSet
                               /\ local[i].src = Narrated => local[i].req \in OwnIds /\ local[i].tok = NoTokens
    BY LocalRow
  <1>3. local \in [1..n -> RowSet]
    BY <1>1, <1>2
  <1>4. local \in Seq(RowSet)
    BY <1>3, IsASeq
  <1> QED BY <1>1, <1>2, <1>3, <1>4 DEF Silent

\* The rows of the account API.
LEMMA FreshDays ==
    ASSUME NEW from \in Nat, NEW S, \A d : d \in S <=> d \in DOMAIN account /\ d >= from, IsFiniteSet(S), S \subseteq Nat \ {0},
           account \in [DOMAIN account -> Chunks], NEW key, \A d \in S : key[d] = <<"account", d>>,
           NEW known, \A d \in S : known[d] = account[d]
    PROVE  StandFor(FreshRows(from), S, key, known)
  <1>1. PICK days : days = SetToSeq(S)
    OBVIOUS
  <1>2. days \in Seq(S) /\ \A d \in S : \E i \in DOMAIN days : days[i] = d
    BY <1>1, Listed
  <1>3. PICK n \in Nat : DOMAIN days = 1..n
    BY <1>2
  <1>4. PICK list : list = [i \in DOMAIN days |->
          [src |-> Narrated, req |-> <<"account", days[i]>>, session |-> NoId, at |-> StartOf(days[i]),
           tok |-> account[days[i]], quality |-> "authoritative", deriv |-> "provider_api", skip |-> FALSE]]
    OBVIOUS
  <1>5. FreshRows(from) = list
    <2>1. S = {d \in DOMAIN account : d >= from}
      OBVIOUS
    <2> QED BY <1>1, <1>4, <2>1, Zenon DEF FreshRows
  <1>6. ASSUME NEW i \in DOMAIN days
        PROVE  /\ days[i] \in S /\ list[i] \in RowSet /\ list[i].src = Narrated
               /\ list[i].req = key[days[i]] /\ list[i].tok = known[days[i]]
    <2>1. PICK d \in S : d = days[i]
      BY <1>2
    <2>2. StartOf(d) \in Nat /\ account[d] \in [Components -> Nat]
      BY StartIsOfDay, ChunkTokens
    <2>3. <<"account", d>> \in Ids
      BY DEF Ids, AccountIds
    <2>4. PICK at \in Nat, tok \in [Components -> Nat], req \in Ids :
             at = StartOf(d) /\ tok = account[d] /\ req = <<"account", d>>
      BY <2>2, <2>3
    <2>5. list[i] = [src |-> Narrated, req |-> req, session |-> NoId, at |-> at,
                     tok |-> tok, quality |-> "authoritative", deriv |-> "provider_api", skip |-> FALSE]
      BY <1>4, <2>1, <2>4
    <2>6. list[i] \in RowSet
      BY <2>5 DEF RowSet
    <2> QED BY <2>1, <2>4, <2>5, <2>6
  <1>7. list \in [1..n -> RowSet]
    BY <1>3, <1>4, <1>6
  <1>8. list \in Seq(RowSet) /\ DOMAIN list = DOMAIN days
    BY <1>3, <1>7, IsASeq
  <1>9. StandFor(list, S, key, known)
    <2>1. /\ \A i \in DOMAIN list : list[i].src = Narrated /\ \E d \in S : list[i].req = key[d] /\ list[i].tok = known[d]
          /\ \A d \in S : \E i \in DOMAIN list : list[i].req = key[d]
      <3> HIDE <1>4
      <3> QED BY <1>2, <1>6, <1>8
    <2> QED BY <1>8, <2>1 DEF StandFor
  <1> QED BY <1>5, <1>9

\* The rows of the ledger.
LEMMA HeldDays ==
    ASSUME NEW S, IsFiniteSet(S), S \subseteq Nat \ {0}, S \subseteq DOMAIN held,
           held \in [DOMAIN held -> Chunks], NEW key, \A d \in S : key[d] = <<"retained", d>>,
           NEW known, \A d \in S : known[d] = held[d]
    PROVE  StandFor(HeldRows(S), S, key, known)
  <1>1. PICK days : days = SetToSeq(S)
    OBVIOUS
  <1>2. days \in Seq(S) /\ \A d \in S : \E i \in DOMAIN days : days[i] = d
    BY <1>1, Listed
  <1>3. PICK n \in Nat : DOMAIN days = 1..n
    BY <1>2
  <1>4. PICK list : list = [i \in DOMAIN days |-> RetainedRow(Narrated, days[i], held[days[i]])]
    OBVIOUS
  <1>5. HeldRows(S) = list
    BY <1>1, <1>4, Zenon DEF HeldRows
  <1>6. ASSUME NEW i \in DOMAIN days
        PROVE  /\ days[i] \in S /\ list[i] \in RowSet /\ list[i].src = Narrated
               /\ list[i].req = key[days[i]] /\ list[i].tok = known[days[i]]
    <2>1. PICK d \in S : d = days[i]
      BY <1>2
    <2>2. StartOf(d) + Noon \in Nat /\ held[d] \in [Components -> Nat]
      BY StartIsOfDay, ChunkTokens, SnapshotAssumption DEF SnapshotAssumption
    <2>3. <<"retained", d>> \in Ids
      BY DEF Ids, AccountIds
    <2>4. PICK at \in Nat, tok \in [Components -> Nat], req \in Ids :
             at = StartOf(d) + Noon /\ tok = held[d] /\ req = <<"retained", d>>
      BY <2>2, <2>3
    <2>5. list[i] = [src |-> Narrated, req |-> req, session |-> NoId, at |-> at,
                     tok |-> tok, quality |-> "degraded", deriv |-> "retained_api", skip |-> TRUE]
      BY <1>4, <2>1, <2>4 DEF RetainedRow
    <2>6. list[i] \in RowSet
      BY <2>5 DEF RowSet
    <2> QED BY <2>1, <2>4, <2>5, <2>6
  <1>7. list \in [1..n -> RowSet]
    BY <1>3, <1>4, <1>6
  <1>8. list \in Seq(RowSet) /\ DOMAIN list = DOMAIN days
    BY <1>3, <1>7, IsASeq
  <1> QED BY <1>2, <1>5, <1>6, <1>8 DEF StandFor

\* Every account of so many days is within the counters, and has no empty day.
Fits ==
    \A S \in SUBSET (1..FigureDays) : \A used \in [S -> Chunks] :
      SumOf([d \in S |-> SumOf(used[d], Components)], S) <= MaxInt64
Spent == \A tok \in Chunks : \E c \in Components : tok[c] > 0

LEMMA TabledMeasured ==
    ASSUME Fits, Spent, day \in 1..FigureDays, NEW known \in Tabled(1..day), known # <<>>
    PROVE  Measured(DOMAIN known, known)
  <1>1. PICK S \in SUBSET (1..day) : known \in [S -> Chunks]
    BY DEF Tabled
  <1>2. DOMAIN known = S
    BY <1>1
  <1>3. S # {}
    <2> SUFFICES ASSUME S = {}
                 PROVE  FALSE
      OBVIOUS
    <2>1. <<>> = [i \in {} |-> i] /\ known = [i \in {} |-> i]
      BY <1>1
    <2> QED BY <2>1
  <1>4. FigureDays \in Nat /\ day \in Nat
    BY FiguresAssumption DEF FiguresAssumption
  <1>5. IsFiniteSet(1..day) /\ IsFiniteSet(S)
    <2>1. IsFiniteSet(1..day)
      BY <1>4, FS_Interval
    <2> QED BY <2>1, FS_Subset
  <1>6. S \in SUBSET (1..FigureDays)
    BY <1>4
  <1>7. SumOf([d \in S |-> SumOf(known[d], Components)], S) <= MaxInt64
    BY <1>1, <1>6 DEF Fits
  <1>8. known \in [S -> [Components -> Nat]] /\ \A d \in S : \E c \in Components : known[d][c] > 0
    BY <1>1, ChunkTokens DEF Spent
  <1> QED BY <1>2, <1>3, <1>5, <1>7, <1>8 DEF Measured

LEMMA DaysOfTable ==
    ASSUME day \in 1..FigureDays, NEW known \in Tabled(1..day)
    PROVE  /\ DOMAIN known \subseteq 1..day /\ known \in [DOMAIN known -> Chunks]
           /\ IsFiniteSet(DOMAIN known) /\ DOMAIN known \subseteq Nat \ {0} /\ day \in Nat \ {0}
  <1>1. PICK S \in SUBSET (1..day) : known \in [S -> Chunks]
    BY DEF Tabled
  <1>2. FigureDays \in Nat /\ day \in Nat
    BY FiguresAssumption DEF FiguresAssumption
  <1>3. IsFiniteSet(1..day)
    BY <1>2, FS_Interval
  <1>4. IsFiniteSet(S)
    BY <1>3, FS_Subset
  <1> QED BY <1>1, <1>2, <1>4

LEMMA StandTogether ==
    ASSUME NEW key, NEW known, NEW A, NEW B, NEW first, StandFor(first, A, key, known),
           NEW second, StandFor(second, B, key, known)
    PROVE  StandFor(first \o second, A \cup B, key, known)
  <1>1. first \in Seq(RowSet) /\ second \in Seq(RowSet)
    BY DEF StandFor
  <1>0. first \o second \in Seq(RowSet)
    BY <1>1
  <1>2. PICK list \in Seq(RowSet) : list = first \o second
    BY <1>0
  <1>3. PICK m \in Nat, n \in Nat : m = Len(first) /\ n = Len(second)
    BY <1>1
  <1>4. /\ \A i \in DOMAIN list : \/ \E j \in DOMAIN first : list[i] = first[j]
                                  \/ \E j \in DOMAIN second : list[i] = second[j]
        /\ \A j \in DOMAIN first : \E i \in DOMAIN list : list[i] = first[j]
        /\ \A j \in DOMAIN second : \E i \in DOMAIN list : list[i] = second[j]
    <2>1. /\ \A i \in DOMAIN list : i \in 1..m \/ i - m \in 1..n
          /\ \A i \in 1..m : i \in DOMAIN list /\ list[i] = first[i] /\ i \in DOMAIN first
          /\ \A i \in 1..n : m + i \in DOMAIN list /\ list[m + i] = second[i] /\ i \in DOMAIN second
          /\ \A i \in DOMAIN list : i - m \in 1..n => m + (i - m) = i
          /\ DOMAIN second = 1..n /\ DOMAIN first = 1..m
      BY <1>1, <1>2, <1>3
    <2>2. \A i \in DOMAIN list : i - m \in 1..n => list[i] = second[i - m] /\ i - m \in DOMAIN second
      BY <2>1
    <2> QED BY <2>1, <2>2
  <1>7. /\ \A j \in DOMAIN first : first[j].src = Narrated /\ \E d \in A : first[j].req = key[d] /\ first[j].tok = known[d]
        /\ \A j \in DOMAIN second : second[j].src = Narrated /\ \E d \in B : second[j].req = key[d] /\ second[j].tok = known[d]
        /\ \A d \in A : \E j \in DOMAIN first : first[j].req = key[d]
        /\ \A d \in B : \E j \in DOMAIN second : second[j].req = key[d]
    BY DEF StandFor
  <1>5. ASSUME NEW i \in DOMAIN list
        PROVE  list[i].src = Narrated /\ \E d \in A \cup B : list[i].req = key[d] /\ list[i].tok = known[d]
    <2>1. CASE \E j \in DOMAIN first : list[i] = first[j]
      <3>1. PICK j \in DOMAIN first : list[i] = first[j]
        BY <2>1
      <3>2. PICK d \in A : first[j].req = key[d] /\ first[j].tok = known[d] /\ first[j].src = Narrated
        BY <1>7, <3>1
      <3>3. d \in A \cup B
        OBVIOUS
      <3> QED BY <3>1, <3>2, <3>3, Zenon
    <2>2. CASE \E j \in DOMAIN second : list[i] = second[j]
      <3>1. PICK j \in DOMAIN second : list[i] = second[j]
        BY <2>2
      <3>2. PICK d \in B : second[j].req = key[d] /\ second[j].tok = known[d] /\ second[j].src = Narrated
        BY <1>7, <3>1
      <3>3. d \in A \cup B
        OBVIOUS
      <3> QED BY <3>1, <3>2, <3>3, Zenon
    <2> QED BY <1>4, <2>1, <2>2, Zenon
  <1>6. ASSUME NEW d \in A \cup B
        PROVE  \E i \in DOMAIN list : list[i].req = key[d]
    <2>1. CASE d \in A
      <3>1. PICK j \in DOMAIN first : first[j].req = key[d]
        BY <1>7, <2>1
      <3>2. PICK i \in DOMAIN list : list[i] = first[j]
        BY <1>4, Zenon
      <3> QED BY <3>1, <3>2, Zenon
    <2>2. CASE d \in B
      <3>1. PICK j \in DOMAIN second : second[j].req = key[d]
        BY <1>7, <2>2
      <3>2. PICK i \in DOMAIN list : list[i] = second[j]
        BY <1>4, Zenon
      <3> QED BY <3>1, <3>2, Zenon
    <2> QED BY <2>1, <2>2
  <1> QED BY <1>2, <1>5, <1>6 DEF StandFor

\* The input of a refresh: the rows of this machine, silent, and those of the days.
Reads(raw, known) ==
    \E local, extra, key : /\ Silent(local) /\ Keys(DOMAIN known, key)
                           /\ StandFor(extra, DOMAIN known, key, known)
                           /\ Canonical(raw).rows = mergeByRequest(local \o extra)

LEMMA CanonicalMerges ==
    ASSUME NEW all, NEW errors, NEW offline,
           NEW raw, raw = [rows |-> all, turns |-> <<>>, today |-> day, offline |-> offline, errors |-> errors]
    PROVE  Canonical(raw).rows = mergeByRequest(all)
  BY DEF Canonical

LEMMA AccountKeys ==
    ASSUME NEW S \in SUBSET Nat, NEW kind \in {"account", "retained"}, NEW other \in {"account", "retained"}, NEW at
    PROVE  Keys(S, [d \in S |-> IF d = at THEN <<kind, d>> ELSE <<other, d>>])
  BY DEF Keys, AccountIds

\* Rows of the account are not empty, so the tokens of this machine are stripped.
LEMMA BesideIs ==
    ASSUME LinesOK, NEW fresh, NEW S, S # {}, NEW key, NEW known, StandFor(fresh, S, key, known)
    PROVE  \E local : Silent(local) /\ BesideFetch(fresh) = local \o fresh
  <1>1. fresh # <<>>
    <2>1. PICK d : d \in S
      OBVIOUS
    <2>2. \E i \in DOMAIN fresh : TRUE
      BY <2>1 DEF StandFor
    <2> QED BY <2>2
  <1>2. PICK local : local = [i \in DOMAIN rows |-> IF rows[i].src = Narrated THEN StripLocal(rows[i]) ELSE rows[i]]
    OBVIOUS
  <1>3. BesideFetch(fresh) = local \o fresh
    BY <1>1, <1>2 DEF BesideFetch
  <1> QED BY <1>2, <1>3, StrippedRows

LEMMA FreshIsRead ==
    ASSUME LinesOK, AccountOK, account # <<>>, DOMAIN account # {}
    PROVE  Reads(Input("fresh"), account)
  <1> DEFINE S == DOMAIN account
             key == [d \in S |-> IF d = 0 THEN <<"retained", d>> ELSE <<"account", d>>]
  <1>1. /\ S \subseteq 1..day /\ account \in [S -> Chunks] /\ IsFiniteSet(S) /\ S \subseteq Nat \ {0}
        /\ day \in Nat \ {0}
    BY DaysOfTable DEF AccountOK
  <1>2. Keys(S, key)
    <2>1. S \in SUBSET Nat
      BY <1>1
    <2> QED BY <2>1, AccountKeys
  <1>3. \A d \in S : key[d] = <<"account", d>>
    BY <1>1
  <1>4. \A d : d \in S <=> d \in DOMAIN account /\ d >= 1
    BY <1>1
  <1> HIDE DEF key
  <1>5. StandFor(FreshRows(1), S, key, account)
    BY <1>1, <1>3, <1>4, FreshDays
  <1>6. PICK fresh : fresh = FreshRows(1)
    OBVIOUS
  <1>7. PICK local : Silent(local) /\ BesideFetch(fresh) = local \o fresh
    BY <1>5, <1>6, BesideIs
  <1>8. \E errors, offline : Input("fresh") = [rows |-> BesideFetch(fresh), turns |-> <<>>, today |-> day,
                                               offline |-> offline, errors |-> errors]
    BY <1>6, Zenon DEF Input
  <1>9. Canonical(Input("fresh")).rows = mergeByRequest(local \o fresh)
    BY <1>7, <1>8, CanonicalMerges
  <1> QED BY <1>2, <1>5, <1>6, <1>7, <1>9 DEF Reads

LEMMA BesideIsRead ==
    ASSUME LinesOK, AccountOK, day \in DOMAIN account, NEW known,
           known = [d \in DOMAIN held \cup {day} |-> IF d = day THEN account[d] ELSE held[d]]
    PROVE  Reads(Input("beside"), known)
  <1> DEFINE S == DOMAIN held \cup {day}
             old == {d \in DOMAIN held : d < day}
             key == [d \in S |-> IF d = day THEN <<"account", d>> ELSE <<"retained", d>>]
  <1>1. /\ DOMAIN account \subseteq 1..day /\ account \in [DOMAIN account -> Chunks]
        /\ DOMAIN held \subseteq 1..day /\ held \in [DOMAIN held -> Chunks] /\ IsFiniteSet(DOMAIN held)
        /\ day \in Nat \ {0}
    BY DaysOfTable DEF AccountOK
  <1>2. S \in SUBSET Nat /\ DOMAIN known = S /\ S = old \cup {day}
    BY <1>1
  <1>3. Keys(S, key)
    BY <1>2, AccountKeys
  <1>4. key[day] = <<"account", day>> /\ \A d \in old : key[d] = <<"retained", d>>
    BY <1>1
  <1>5. known[day] = account[day] /\ \A d \in old : known[d] = held[d]
    BY <1>1
  <1>6. /\ IsFiniteSet(old) /\ old \subseteq Nat \ {0} /\ old \subseteq DOMAIN held
        /\ IsFiniteSet({day}) /\ {day} \subseteq Nat \ {0}
    <2>1. IsFiniteSet(old)
      BY <1>1, FS_Subset
    <2> QED BY <1>1, <2>1, FS_Singleton
  <1>7. \A d : d \in {day} <=> d \in DOMAIN account /\ d >= day
    BY <1>1
  <1> HIDE DEF key, old
  <1>8. StandFor(FreshRows(day), {day}, key, known)
    BY <1>1, <1>4, <1>5, <1>6, <1>7, FreshDays
  <1>9. StandFor(HeldRows(old), old, key, known)
    BY <1>1, <1>4, <1>5, <1>6, HeldDays
  <1>10. PICK fresh : fresh = FreshRows(day)
    OBVIOUS
  <1>11. PICK retained : retained = HeldRows(old)
    OBVIOUS
  <1>12. StandFor(fresh \o retained, {day} \cup old, key, known)
    BY <1>8, <1>9, <1>10, <1>11, StandTogether
  <1>13. PICK local : Silent(local) /\ BesideFetch(fresh) = local \o fresh
    BY <1>8, <1>10, BesideIs
  <1>14. BesideFetch(fresh) \o retained = local \o (fresh \o retained)
    <2>1. local \in Seq(RowSet) /\ fresh \in Seq(RowSet) /\ retained \in Seq(RowSet)
      BY <1>8, <1>9, <1>10, <1>11, <1>13 DEF Silent, StandFor
    <2> QED BY <1>13, <2>1, ConcatAssociative
  <1>15. \E errors, offline : Input("beside") = [rows |-> BesideFetch(fresh) \o retained, turns |-> <<>>, today |-> day,
                                                 offline |-> offline, errors |-> errors]
    BY <1>10, <1>11, Zenon DEF Input, old
  <1>16. Canonical(Input("beside")).rows = mergeByRequest(local \o (fresh \o retained))
    BY <1>14, <1>15, CanonicalMerges
  <1>17. StandFor(fresh \o retained, S, key, known)
    BY <1>2, <1>12
  <1> QED BY <1>2, <1>3, <1>13, <1>16, <1>17 DEF Reads

LEMMA FailedIsRead ==
    ASSUME LinesOK, AccountOK, held # <<>>, DOMAIN held # {}
    PROVE  Reads(Input("failed"), held)
  <1> DEFINE S == DOMAIN held
             key == [d \in S |-> IF d = 0 THEN <<"account", d>> ELSE <<"retained", d>>]
             errors == [s \in {Narrated} |-> "api"]
  <1>1. /\ S \subseteq 1..day /\ held \in [S -> Chunks] /\ IsFiniteSet(S) /\ S \subseteq Nat \ {0}
        /\ day \in Nat \ {0}
    BY DaysOfTable DEF AccountOK
  <1>2. Keys(S, key)
    <2>1. S \in SUBSET Nat
      BY <1>1
    <2> QED BY <2>1, AccountKeys
  <1>3. \A d \in S : key[d] = <<"retained", d>>
    BY <1>1
  <1> HIDE DEF key
  <1>4. StandFor(HeldRows(S), S, key, held)
    BY <1>1, <1>3, HeldDays
  <1>5. PICK retained : retained = HeldRows(S)
    OBVIOUS
  <1>6. NoDeriv # "retained_api" /\ NoDeriv # "provider_api"
    BY Zenon DEF NoDeriv
  <1>7. AccountFetchFailed(rows, errors, Narrated)
    <2>1. Narrated \in DOMAIN errors /\ errors[Narrated] = "api"
      OBVIOUS
    <2>2. errors[Narrated] # ""
      BY <2>1, Zenon
    <2>3. \A i \in DOMAIN rows : rows[i].deriv # "provider_api"
      BY <1>6, LocalRow
    <2> HIDE DEF errors
    <2> QED BY <2>1, <2>2, <2>3, Zenon DEF AccountFetchFailed
  <1>8. {retained[i].src : i \in DOMAIN retained} = {Narrated}
    <2>1. PICK d : d \in S
      OBVIOUS
    <2>2. \E i \in DOMAIN retained : TRUE
      BY <1>4, <1>5, <2>1 DEF StandFor
    <2>3. \A i \in DOMAIN retained : retained[i].src = Narrated
      BY <1>4, <1>5 DEF StandFor
    <2> QED BY <2>2, <2>3
  <1>9. PICK local : local = [i \in DOMAIN rows |-> IF rows[i].src = Narrated THEN StripLocal(rows[i]) ELSE rows[i]]
    OBVIOUS
  <1>10. ApplyRetainedEvents(rows, retained) = local \o retained
    <2>1. \A i \in DOMAIN rows : rows[i].deriv # "retained_api"
      BY <1>6, LocalRow
    <2>2. local = [i \in DOMAIN rows |-> IF rows[i].src \in {Narrated} /\ rows[i].deriv # "retained_api"
                                         THEN StripLocal(rows[i]) ELSE rows[i]]
      BY <1>9, <2>1
    <2> QED BY <1>8, <2>2, Zenon DEF ApplyRetainedEvents
  <1>11. \E offline : Input("failed") = [rows |-> ApplyRetainedEvents(rows, retained), turns |-> <<>>, today |-> day,
                                         offline |-> offline, errors |-> errors]
    <2> HIDE DEF errors
    <2>1. (IF held = <<>> \/ ~AccountFetchFailed(rows, errors, Narrated) THEN rows
           ELSE ApplyRetainedEvents(rows, retained)) = ApplyRetainedEvents(rows, retained)
      BY <1>7, Zenon
    <2> QED BY <1>5, <2>1, Zenon DEF Input, errors
  <1>12. Canonical(Input("failed")).rows = mergeByRequest(local \o retained)
    <2> HIDE DEF errors
    <2> QED BY <1>10, <1>11, CanonicalMerges
  <1>13. Silent(local)
    BY <1>9, StrippedRows
  <1> QED BY <1>2, <1>4, <1>5, <1>12, <1>13 DEF Reads

LEMMA ReadTotal ==
    ASSUME Fits, Spent, day \in 1..FigureDays, NEW known \in Tabled(1..day), known # <<>>,
           NEW raw, Reads(raw, known), Narrated \in DOMAIN Build(raw).agents
    PROVE  Build(raw).agents[Narrated].total = SumOf([d \in DOMAIN known |-> Tally(known[d])], DOMAIN known)
  <1>1. Measured(DOMAIN known, known)
    BY TabledMeasured
  <1>2. PICK local, extra, key : /\ Silent(local) /\ Keys(DOMAIN known, key)
                                 /\ StandFor(extra, DOMAIN known, key, known)
                                 /\ Canonical(raw).rows = mergeByRequest(local \o extra)
    BY DEF Reads
  <1>3. PICK days : days = DOMAIN known
    OBVIOUS
  <1>4. Build(raw).agents[Narrated].total = SumOf([d \in days |-> Tally(known[d])], days)
    BY <1>1, <1>2, <1>3, AccountTotal
  <1> QED BY <1>3, <1>4

LEMMA AccountStarts == FiguresInit => AccountOK /\ AccountIsItsObservation
  <1> SUFFICES ASSUME FiguresInit
               PROVE  AccountOK /\ AccountIsItsObservation
    OBVIOUS
  <1>1. day = 1 /\ account = <<>> /\ held = <<>> /\ refresh = NoRefresh
    BY DEF FiguresInit
  <1>2. 1 \in 1..FigureDays
    BY FiguresAssumption DEF FiguresAssumption
  <1>3. <<>> \in Tabled(1..1)
    <2>1. <<>> = [i \in {} |-> i]
      OBVIOUS
    <2>2. <<>> \in [{} -> Chunks]
      BY <2>1
    <2> QED BY <2>2 DEF Tabled
  <1>4. /\ \E kind, snap, before, applied :
             refresh = [kind |-> kind, snap |-> snap, before |-> before, applied |-> applied]
        /\ refresh.kind = "none"
    <2>1. refresh = [kind |-> "none", snap |-> NoSnap, before |-> NoSnap, applied |-> TRUE]
      BY <1>1 DEF NoRefresh
    <2>2. refresh.kind = "none"
      BY <2>1
    <2> QED BY <2>1, <2>2, Zenon
  <1>5. AccountOK
    BY <1>1, <1>2, <1>3, <1>4 DEF AccountOK
  <1> QED BY <1>4, <1>5 DEF AccountIsItsObservation

LEMMA TabledMore ==
    ASSUME NEW d \in Nat, NEW table \in Tabled(1..d)
    PROVE  /\ table \in Tabled(1..(d + 1))
           /\ \A at \in 1..d, tok \in Chunks :
                [e \in DOMAIN table \cup {at} |-> IF e = at THEN tok ELSE table[e]] \in Tabled(1..d)
  <1>1. PICK S \in SUBSET (1..d) : table \in [S -> Chunks]
    BY DEF Tabled
  <1>2. S \in SUBSET (1..(d + 1))
    BY <1>1
  <1>3. ASSUME NEW at \in 1..d, NEW tok \in Chunks
        PROVE  [e \in DOMAIN table \cup {at} |-> IF e = at THEN tok ELSE table[e]] \in Tabled(1..d)
    <2>1. DOMAIN table = S /\ S \cup {at} \in SUBSET (1..d)
      BY <1>1
    <2>2. [e \in S \cup {at} |-> IF e = at THEN tok ELSE table[e]] \in [S \cup {at} -> Chunks]
      BY <1>1
    <2> QED BY <2>1, <2>2 DEF Tabled
  <1> QED BY <1>1, <1>2, <1>3 DEF Tabled

\* A step of the world keeps the account, and puts the last refresh away.
LEMMA WorldStep ==
    ASSUME AccountOK, Write \/ UseAccount \/ Midnight
    PROVE  AccountOK' /\ AccountIsItsObservation'
  <1>1. refresh' = NoRefresh /\ held' = held
    BY DEF Write, UseAccount, Midnight
  <1>2. /\ \E kind, snap, before, applied :
             refresh' = [kind |-> kind, snap |-> snap, before |-> before, applied |-> applied]
        /\ refresh'.kind = "none"
    <2>1. refresh' = [kind |-> "none", snap |-> NoSnap, before |-> NoSnap, applied |-> TRUE]
      BY <1>1 DEF NoRefresh
    <2>2. refresh'.kind = "none"
      BY <2>1
    <2> QED BY <2>1, <2>2, Zenon
  <1>3. day \in 1..FigureDays /\ day \in Nat \ {0} /\ FigureDays \in Nat
    BY FiguresAssumption DEF AccountOK, FiguresAssumption
  <1>4. day' \in 1..FigureDays /\ account' \in Tabled(1..day') /\ held' \in Tabled(1..day')
    <2>1. CASE Write
      <3>1. day' = day /\ account' = account
        BY <2>1 DEF Write
      <3> QED BY <1>1, <3>1 DEF AccountOK
    <2>2. CASE UseAccount
      <3>1. PICK tok \in Chunks : account' = [d \in DOMAIN account \cup {day} |-> IF d = day THEN tok ELSE account[d]]
        BY <2>2 DEF UseAccount
      <3>2. day' = day
        BY <2>2 DEF UseAccount
      <3>3. account \in Tabled(1..day) /\ day \in 1..day
        BY <1>3 DEF AccountOK
      <3>4. account' \in Tabled(1..day)
        BY <1>3, <3>1, <3>3, TabledMore
      <3> QED BY <1>1, <3>2, <3>4 DEF AccountOK
    <2>3. CASE Midnight
      <3>1. day' = day + 1 /\ account' = account /\ day < FigureDays
        BY <2>3 DEF Midnight
      <3>2. account \in Tabled(1..(day + 1)) /\ held \in Tabled(1..(day + 1))
        BY <1>3, TabledMore DEF AccountOK
      <3> QED BY <1>1, <1>3, <3>1, <3>2
    <2> QED BY <2>1, <2>2, <2>3
  <1> QED BY <1>2, <1>4 DEF AccountOK, AccountIsItsObservation

\* The gate changes the wall, and nothing of the refresh but its mark.
LEMMA GateStep ==
    ASSUME AccountOK, AccountIsItsObservation, Apply
    PROVE  AccountOK' /\ AccountIsItsObservation'
  <1>1. day' = day /\ account' = account /\ held' = held /\ refresh' = [refresh EXCEPT !.applied = TRUE]
    BY DEF Apply
  <1>2. PICK kind, snap, before, applied :
           refresh = [kind |-> kind, snap |-> snap, before |-> before, applied |-> applied]
    BY DEF AccountOK
  <1>3. refresh' = [kind |-> kind, snap |-> snap, before |-> before, applied |-> TRUE]
    BY <1>1, <1>2
  <1>4. refresh'.kind = refresh.kind /\ refresh'.snap = refresh.snap
    BY <1>2, <1>3
  <1>5. \E k, s, b, a : refresh' = [kind |-> k, snap |-> s, before |-> b, applied |-> a]
    BY <1>3, Zenon
  <1> QED BY <1>1, <1>4, <1>5 DEF AccountOK, AccountIsItsObservation

\* A refresh puts in the ledger what it read, and shows it.
LEMMA ReadStep ==
    ASSUME Fits, Spent, LinesOK, AccountOK, NEW kind \in {"fresh", "beside", "failed"}, Read(kind)
    PROVE  AccountOK' /\ AccountIsItsObservation'
  <1> DEFINE raw == Input(kind)
             known == IF kind = "fresh" THEN account ELSE held'
  <1>1. /\ refresh' = [kind |-> kind, snap |-> Build(raw), before |-> wall, applied |-> FALSE]
        /\ day' = day /\ account' = account
    BY DEF Read
  <1>2. day \in 1..FigureDays /\ day \in Nat /\ day \in 1..day
    BY FiguresAssumption DEF AccountOK, FiguresAssumption
  <1>3. /\ kind = "fresh" => held' = account
        /\ kind = "beside" => day \in DOMAIN account
        /\ kind = "beside" => held' = [d \in DOMAIN held \cup {day} |-> IF d = day THEN account[d] ELSE held[d]]
        /\ kind = "failed" => held' = held
    <2>1. CASE kind = "fresh"
      BY <2>1 DEF Read
    <2>2. CASE kind = "beside"
      BY <2>2 DEF Read
    <2>3. CASE kind = "failed"
      BY <2>3 DEF Read
    <2> QED BY <2>1, <2>2, <2>3
  <1>4. held' \in Tabled(1..day) /\ known \in Tabled(1..day)
    <2>1. CASE kind = "fresh"
      BY <1>3, <2>1 DEF AccountOK
    <2>2. CASE kind = "beside"
      <3>1. account[day] \in Chunks
        <4>1. account \in [DOMAIN account -> Chunks]
          BY <1>2, DaysOfTable DEF AccountOK
        <4> QED BY <1>3, <2>2, <4>1
      <3>2. held \in Tabled(1..day)
        BY DEF AccountOK
      <3>3. PICK tok \in Chunks : tok = account[day]
        BY <3>1
      <3>4. held' = [d \in DOMAIN held \cup {day} |-> IF d = day THEN tok ELSE held[d]]
        BY <1>3, <2>2, <3>3
      <3>5. held' \in Tabled(1..day)
        BY <1>2, <3>2, <3>4, TabledMore
      <3> QED BY <2>2, <3>5
    <2>3. CASE kind = "failed"
      BY <1>3, <2>3 DEF AccountOK
    <2> QED BY <2>1, <2>2, <2>3
  <1>5. AccountOK'
    <2>1. \E k, s, b, a : refresh' = [kind |-> k, snap |-> s, before |-> b, applied |-> a]
      BY <1>1, Zenon
    <2> QED BY <1>1, <1>2, <1>4, <2>1 DEF AccountOK
  <1>6. ASSUME known # <<>>
        PROVE  Reads(raw, known)
    <2>1. DOMAIN known # {}
      <3>1. Measured(DOMAIN known, known)
        <4> HIDE DEF known
        <4> QED BY <1>2, <1>4, <1>6, TabledMeasured
      <3> QED BY <3>1 DEF Measured
    <2>2. CASE kind = "fresh"
      BY <1>6, <2>1, <2>2, FreshIsRead
    <2>3. CASE kind = "beside"
      <3>1. known = held'
        BY <2>3
      <3>2. Reads(Input("beside"), held')
        BY <1>3, <2>3, BesideIsRead
      <3> QED BY <2>3, <3>1, <3>2
    <2>4. CASE kind = "failed"
      <3>1. known = held
        BY <1>3, <2>4
      <3>2. Reads(Input("failed"), held)
        BY <1>6, <2>1, <3>1, FailedIsRead
      <3> QED BY <2>4, <3>1, <3>2
    <2> QED BY <2>2, <2>3, <2>4
  <1> HIDE DEF raw
  <1>7. refresh'.kind = kind /\ refresh'.snap = Build(raw)
    BY <1>1
  <1>8. (IF refresh'.kind = "fresh" THEN account' ELSE held') = known
    BY <1>1, <1>7
  <1> HIDE DEF known
  <1>9. known # <<>> /\ Narrated \in DOMAIN refresh'.snap.agents
          => refresh'.snap.agents[Narrated].total = SumOf([d \in DOMAIN known |-> Tally(known[d])], DOMAIN known)
    BY <1>2, <1>4, <1>6, <1>7, ReadTotal
  <1> QED BY <1>5, <1>8, <1>9, Zenon DEF AccountIsItsObservation

\* What a wall shows of the account is what its days sum to, whatever the logs of this machine say.
THEOREM AccountStandsAlone ==
    ASSUME Fits, Spent
    PROVE  FiguresSpec => []AccountIsItsObservation
  <1> DEFINE I == LinesOK /\ AccountOK /\ AccountIsItsObservation
  <1>1. FiguresInit => I
    <2>1. FiguresInit => LinesOK
      <3> SUFFICES ASSUME FiguresInit
                   PROVE  LinesOK
        OBVIOUS
      <3>1. day = 1 /\ rows = <<>>
        BY DEF FiguresInit
      <3> QED BY <3>1 DEF LinesOK
    <2> QED BY <2>1, AccountStarts
  <1>2. I /\ [FiguresNext]_figureVars => I'
    <2> SUFFICES ASSUME I, [FiguresNext]_figureVars
                 PROVE  I'
      OBVIOUS
    <2>1. LinesOK'
      BY LinesStay
    <2>2. CASE Write \/ UseAccount \/ Midnight
      BY <2>1, <2>2, WorldStep
    <2>3. ASSUME NEW kind \in {"fresh", "beside", "failed"}, Read(kind)
          PROVE  I'
      BY <2>1, <2>3, ReadStep
    <2>4. CASE Apply
      BY <2>1, <2>4, GateStep
    <2>5. CASE UNCHANGED figureVars
      BY <2>1, <2>5 DEF figureVars, AccountOK, AccountIsItsObservation
    <2> QED BY <2>2, <2>3, <2>4, <2>5 DEF FiguresNext
  <1> QED BY <1>1, <1>2, PTL DEF FiguresSpec
=============================================================================
