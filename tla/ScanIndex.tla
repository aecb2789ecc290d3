------------------------------ MODULE ScanIndex ------------------------------
(* A scan of one machine (internal/scan/scan.go) over the scan index          *)
(* (internal/index) and the fact ledger: what the agents write, what the      *)
(* index remembers of a file, and what a report says.                         *)
(*                                                                            *)
(* A file holds lines; the last one may still lack its newline ("half").      *)
(* Sizes and offsets are counted in half lines, so a finished line is 2 long. *)
(* A line is a request's usage (KeyOf, TokOf) or, without a key, a user turn. *)
(* scan.lock lets one process scan at a time; "rebuild" removes the index     *)
(* without it.  One claude-like root whose files are read from an offset, and *)
(* one codex-like root whose files are parsed whole and replayed after the    *)
(* agent has deleted them.                                                    *)
EXTENDS FactLedger

CONSTANTS
  Lines, KeyOf, TokOf,
  Script,        \* what the agent of a session writes, in order
  Paths,         \* in the order a scan visits them
  SessionAt,     \* the session whose lines a path holds
  RootOf,        \* the root of a path: one adapter's Parse
  Incremental,   \* the paths read from an offset (LoadOrParse)
  ArchiveOf,     \* where a live rollout is moved to, or Nil
  MaxScans,      \* bound on scans
  MaxUpsets      \* bound on moved logs, errors, crashes and rebuilds together

ASSUME ScanAssumption ==
  /\ Nil \notin Lines \cup ToSet(Paths) /\ IsFiniteSet(Lines)
  /\ KeyOf \in [Lines -> Keys \cup {Nil}]
  /\ TokOf \in [Lines -> Tokens]
  /\ \A s \in DOMAIN Script : Script[s] \in Seq(Lines)
  /\ Paths \in Seq(DOMAIN SessionAt) /\ Paths # <<>>
  /\ SessionAt \in [ToSet(Paths) -> DOMAIN Script]
  /\ ArchiveOf \in [ToSet(Paths) -> ToSet(Paths) \cup {Nil}]
  /\ \A p \in ToSet(Paths) : ArchiveOf[p] # Nil =>
       ArchiveOf[ArchiveOf[p]] = Nil /\ SessionAt[ArchiveOf[p]] = SessionAt[p]

VARIABLES
  disk,          \* the files, Nil when absent
  index,         \* files and blobs of index.v1.db, Nil when a path has no row
  scan,          \* the running scan, or Nil
  report,        \* what the last finished scan said
  scans, upsets  \* counters of the bounds

bounds == <<scans, upsets>>
scanVars == <<disk, index, scan, report, bounds, ledgerVars>>

PathSet == ToSet(Paths)
SessionOfLine(l) == CHOOSE s \in DOMAIN Script : l \in ToSet(Script[s])
RootOfLine(l) == RootOf[CHOOSE p \in PathSet : SessionAt[p] = SessionOfLine(l)]
IsArchive(p) == \E q \in PathSet : ArchiveOf[q] = p
Size(file) == 2 * Len(file.lines) + (IF file.half THEN 1 ELSE 0)
Event(l) == [key |-> KeyOf[l], tok |-> TokOf[l]]
Usage(lines) == {Event(l) : l \in {m \in lines : KeyOf[m] # Nil}}
Row(cur, offset, blob) == [cur |-> cur, offset |-> offset, blob |-> blob]
NoReport == [keys |-> {}, counted |-> {}, unread |-> {}]

OldRow(p) == LET lines == Script[SessionAt[p]] IN
  Row([size |-> 2 * Len(lines), mtime |-> 0, ino |-> <<p, 0>>], 2 * Len(lines), lines)

\* Empty logs, and perhaps one that an older release parsed before there was
\* a ledger, and that is gone.
ScanInit ==
  /\ LedgerInit
  /\ \E old \in SUBSET PathSet :
       /\ Cardinality(old) <= 1
       /\ index = [p \in PathSet |-> IF p \in old THEN OldRow(p) ELSE Nil]
       /\ disk = [p \in PathSet |-> IF p \in old \/ IsArchive(p) THEN Nil
                    ELSE [ino |-> <<p, 0>>, mtime |-> 0, lines |-> <<>>, half |-> FALSE, wrote |-> 0]]
  /\ scan = Nil
  /\ report = NoReport
  /\ scans = 0 /\ upsets = 0

-----------------------------------------------------------------------------
(* The agents.  mtime tells files of one size apart, so it moves only when a  *)
(* file is written over.                                                      *)

\* An agent writes a whole line behind the last one of its log, or its start.
WriteLine(p, whole) ==
  /\ disk[p] # Nil /\ ~disk[p].half
  /\ disk[p].wrote < Len(Script[SessionAt[p]])
  /\ whole \/ p \in Incremental      \* a whole read starts again anyway
  /\ disk' = IF whole
             THEN [disk EXCEPT ![p].lines = Append(@, Script[SessionAt[p]][disk[p].wrote + 1]),
                               ![p].wrote = @ + 1]
             ELSE [disk EXCEPT ![p].half = TRUE]
  /\ UNCHANGED <<index, scan, report, bounds, ledgerVars>>

FinishLine(p) ==
  /\ disk[p] # Nil /\ disk[p].half
  /\ disk' = [disk EXCEPT ![p].half = FALSE, ![p].wrote = @ + 1,
                          ![p].lines = Append(@, Script[SessionAt[p]][disk[p].wrote + 1])]
  /\ UNCHANGED <<index, scan, report, bounds, ledgerVars>>

\* The log is deleted, rewritten without a line into a new file, moved to the
\* archive, or written over with the same length.
Move(p) ==
  /\ upsets < MaxUpsets
  /\ disk[p] # Nil
  /\ \/ disk' = [disk EXCEPT ![p] = Nil]
     \/ \E i \in DOMAIN disk[p].lines :
          disk' = [disk EXCEPT ![p].ino = <<p, upsets + 1>>, ![p].lines = RemoveAt(@, i)]
     \/ /\ ArchiveOf[p] # Nil
        /\ disk' = [disk EXCEPT ![p] = Nil, ![ArchiveOf[p]] = disk[p]]
     \/ disk' = [disk EXCEPT ![p].mtime = upsets + 1]
  /\ upsets' = upsets + 1
  /\ UNCHANGED <<index, scan, report, scans, ledgerVars>>

-----------------------------------------------------------------------------
(* One scan.  own is its index after a rebuild has removed the file it has    *)
(* open; cur, offset and blob are those of the path it is at.                 *)

Table == IF scan.own = Nil THEN index ELSE scan.own
Path == Paths[scan.next]

\* Everything the index has parsed, also of files that are gone.
ExportUsage == UNION {Usage(ToSet(index[p].blob)) : p \in {q \in PathSet : index[q] # Nil}}

\* proclock.Lock, index.Open, ledger.Open and the import of an older index.
\* An import that fails leaves the ledger unmarked.
Begin(imports) ==
  /\ scan = Nil /\ scans < MaxScans
  /\ IF imports
     THEN /\ Import(ExportUsage)
          /\ UNCHANGED upsets
     ELSE /\ ~imported /\ upsets < MaxUpsets
          /\ upsets' = upsets + 1
          /\ UNCHANGED <<facts, imported>>
  /\ scan' = [at |-> "stat", next |-> 1, own |-> Nil,
              cur |-> Nil, offset |-> 0, blob |-> <<>>, visited |-> {},
              emitted |-> {}, failed |-> {}, unread |-> {}]
  /\ scans' = scans + 1
  /\ UNCHANGED <<disk, index, report, omitted, revisions, permit>>

\* The scan leaves its path with the events and turns that the file there gave.
Leave(lines, ok) ==
  [scan EXCEPT !.at = IF scan.next = Len(Paths) THEN "replay" ELSE "stat",
               !.next = @ + 1, !.cur = Nil, !.offset = 0, !.blob = <<>>,
               !.emitted = @ \cup ToSet(lines),
               !.failed = IF ok THEN @ ELSE @ \cup {RootOf[Path]}]

\* What a read of the file as it is would find and these lines lack.
Unread(lines, stat) ==
  IF disk[Path].ino = stat.ino THEN ToSet(disk[Path].lines) \ ToSet(lines) ELSE {}

\* Mutant: a file of the same or a larger size is taken for the same file.
Decide_NoInode(prev, cur) ==
  IF prev = Nil THEN "full"
  ELSE IF cur.size < prev.cur.size THEN "full"
  ELSE IF cur.size = prev.cur.size /\ cur.mtime = prev.cur.mtime THEN "unchanged"
  ELSE IF cur.size > prev.cur.size /\ cur.size > prev.offset /\ Path \in Incremental
       THEN "incremental" ELSE "full"

\* decide.
Decide(prev, cur) ==
  IF prev = Nil THEN "full"
  ELSE IF cur.size < prev.cur.size \/ cur.ino # prev.cur.ino THEN "full"
  ELSE IF cur = prev.cur THEN "unchanged"
  ELSE IF cur.size > prev.cur.size /\ cur.size > prev.offset /\ Path \in Incremental
       THEN "incremental" ELSE "full"

\* LoadOrParse and LoadOrReplay up to the parse.  A path that is not there is
\* not walked; an unchanged one is replayed.
Visit ==
  /\ scan # Nil /\ scan.at = "stat"
  /\ IF disk[Path] = Nil THEN scan' = Leave(<<>>, TRUE)
     ELSE LET cur == [size |-> Size(disk[Path]), mtime |-> disk[Path].mtime, ino |-> disk[Path].ino]
              prev == Table[Path]
              mode == Decide(prev, cur)
          IN scan' = IF mode = "unchanged"
                     THEN [Leave(prev.blob, TRUE) EXCEPT !.unread = @ \cup Unread(prev.blob, cur),
                                                           !.visited = @ \cup {Path}]
                     ELSE [scan EXCEPT !.at = "parse", !.cur = cur, !.visited = @ \cup {Path},
                             !.offset = IF mode = "incremental" THEN prev.offset ELSE 0,
                             !.blob = IF mode = "incremental" THEN prev.blob ELSE <<>>]
  /\ UNCHANGED <<disk, index, report, bounds, ledgerVars>>

\* ScanJSONL from an offset to the end the reader sees: the finished lines
\* that begin there or later (what is left of a cut line is not JSON), and the
\* first byte it did not consume.
Finished(file, offset) == {i \in DOMAIN file.lines : 2 * (i - 1) >= offset}
ScanJSONL(file, offset) ==
  [lines |-> [i \in 1..Cardinality(Finished(file, offset)) |->
                file.lines[Len(file.lines) - Cardinality(Finished(file, offset)) + i]],
   consumed |-> Max({offset, 2 * Len(file.lines)})]

\* Open and parse.  A file that is gone gives an error and nothing, a read
\* that fails what the index had; neither root is complete.
Parse ==
  /\ scan # Nil /\ scan.at = "parse"
  /\ \/ /\ disk[Path] # Nil
        /\ LET got == ScanJSONL(disk[Path], scan.offset) IN
             scan' = [scan EXCEPT !.at = "facts", !.blob = @ \o got.lines,
                        !.offset = IF Path \in Incremental THEN got.consumed ELSE scan.cur.size,
                        !.unread = @ \cup Unread(scan.blob \o got.lines, scan.cur)]
        /\ UNCHANGED upsets
     \/ /\ disk[Path] = Nil
        /\ scan' = Leave(<<>>, FALSE)
        /\ UNCHANGED upsets
     \/ /\ disk[Path] # Nil /\ upsets < MaxUpsets
        /\ upsets' = upsets + 1
        /\ scan' = Leave(scan.blob, FALSE)
  /\ UNCHANGED <<disk, index, report, scans, ledgerVars>>

\* Mutant: the facts wait for the commit at the end of the scan.
CommitFacts_InTheEnd ==
  /\ scan # Nil /\ scan.at = "facts"
  /\ scan' = [scan EXCEPT !.at = "checkpoint"]
  /\ UNCHANGED <<disk, index, report, bounds, ledgerVars>>

\* put: the facts are committed in the ledger before the checkpoint.
CommitFacts ==
  /\ scan # Nil /\ scan.at = "facts"
  /\ \/ /\ facts' = Committed(Usage(ToSet(scan.blob)))
        /\ scan' = [scan EXCEPT !.at = "checkpoint"]
        /\ UNCHANGED upsets
     \/ /\ upsets < MaxUpsets /\ Usage(ToSet(scan.blob)) # {}
        /\ upsets' = upsets + 1
        /\ scan' = Leave(scan.blob, FALSE)
        /\ UNCHANGED facts
  /\ UNCHANGED <<disk, index, report, scans, omitted, revisions, permit, imported>>

\* put, second half: files and blobs in one transaction, under the size that
\* was seen before the parse.
Cut(offset, size) == IF offset > size THEN size ELSE offset
Checkpoint ==
  /\ scan # Nil /\ scan.at = "checkpoint"
  /\ LET row == Row(scan.cur, Cut(scan.offset, scan.cur.size), scan.blob) IN
     IF scan.own = Nil
     THEN /\ index' = [index EXCEPT ![Path] = row]
          /\ scan' = Leave(scan.blob, TRUE)
     ELSE /\ scan' = [Leave(scan.blob, TRUE) EXCEPT !.own[Path] = row]
          /\ UNCHANGED index
  /\ UNCHANGED <<disk, report, bounds, ledgerVars>>

\* replayDeletedRollouts: what the index knows of rollouts that are no longer
\* on disk, unless the walk met them or their session.  Then CommitUsage of all events,
\* for parsers that do not use the index.  (The errors of the ledger from here
\* on, which the scan ignores, are not modelled.)
Deleted == {p \in PathSet \ (Incremental \cup scan.visited) : Table[p] # Nil /\ disk[p] = Nil
              /\ \A l \in scan.emitted : SessionOfLine(l) # SessionAt[p]}
Replay ==
  /\ scan # Nil /\ scan.at = "replay"
  /\ LET emitted == scan.emitted \cup UNION {ToSet(Table[p].blob) : p \in Deleted}
     IN /\ scan' = [scan EXCEPT !.at = "finish", !.emitted = emitted]
        /\ facts' = Committed(Usage(emitted))
  /\ UNCHANGED <<disk, index, report, bounds, omitted, revisions, permit, imported>>

\* NoteComplete with the roots that had no error, Unseen, and the result.
\* counted is history: the requests whose tokens a report has counted.
Complete == {l \in scan.emitted : RootOfLine(l) \notin scan.failed}
Finish ==
  /\ scan # Nil /\ scan.at = "finish"
  /\ omitted' = NotedComplete(Usage(Complete))
  /\ LET seen == {KeyOf[l] : l \in scan.emitted} \ {Nil}
         stored == Unseen(seen) \ omitted'
     IN report' = [keys |-> seen \cup stored,
                   unread |-> {l \in scan.unread : RootOfLine(l) \notin scan.failed},
                   counted |-> report.counted \cup stored
                                 \cup {e.key : e \in Keyed(Usage(scan.emitted))}]
  /\ scan' = Nil
  /\ UNCHANGED <<disk, index, bounds, facts, revisions, permit, imported>>

\* The process is killed: the kernel drops its lock.
Crash ==
  /\ scan # Nil /\ upsets < MaxUpsets
  /\ scan' = Nil
  /\ upsets' = upsets + 1
  /\ UNCHANGED <<disk, index, report, scans, ledgerVars>>

\* index.Wipe of "wheretoken rebuild", which does not wait for the lock.
Wipe ==
  /\ upsets < MaxUpsets
  /\ index' = [p \in PathSet |-> Nil]
  /\ scan' = IF scan # Nil /\ scan.own = Nil THEN [scan EXCEPT !.own = index] ELSE scan
  /\ upsets' = upsets + 1
  /\ UNCHANGED <<disk, report, scans, ledgerVars>>

-----------------------------------------------------------------------------
AgentsWork == \E p \in PathSet :
  (\E whole \in BOOLEAN : WriteLine(p, whole)) \/ FinishLine(p) \/ Move(p)
ScanSteps ==
  \/ \E imports \in BOOLEAN : Begin(imports)
  \/ Visit \/ Parse \/ CommitFacts \/ Checkpoint \/ Replay \/ Finish

ScanNext == AgentsWork \/ ScanSteps \/ Crash \/ Wipe
ScanSpec == ScanInit /\ [][ScanNext]_scanVars

-----------------------------------------------------------------------------
\* The tokens of every line the index can replay are in the ledger: a rebuild,
\* or a file that has been deleted, loses none (put commits the facts first,
\* and the import brings in an index that is older than the ledger).  A line
\* of no tokens has no fact.
CachedIsDurable ==
  imported => \A p \in PathSet : index[p] # Nil =>
    \A e \in Keyed(Usage(ToSet(index[p].blob))) : facts[e.key] # Nil

\* A request whose tokens a report has counted is in every later report, unless
\* a complete reread of its session, no part of which failed, did not find it.
ReportedIsKept == report.counted \subseteq report.keys \cup omitted

\* What is on disk throughout a scan that reads its root without an error is
\* in the report, however the index decided to read it.
OnDiskIsReported == report.unread = {}

=============================================================================
