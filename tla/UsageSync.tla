------------------------------ MODULE UsageSync ------------------------------
(* The usage rows of one hosted account: PUT /api/v1/sync/batch as the        *)
(* devices send it (internal/cli/sync.go, internal/syncagg) and as the server *)
(* applies it (internal/hosted/sync.go, store.go).                            *)
(*                                                                            *)
(* A device scans, stamps the batch with the second it builds it in, and      *)
(* sends all of its model-days.  Rows of the Cursor account API belong to the *)
(* account and every device sends them; the others belong to the device.      *)
(* The server reads the stored revisions and writes the rows in one           *)
(* REPEATABLE READ transaction, so two requests can read the same rows before *)
(* either writes, and remembers the idempotency key in a later statement.     *)
(* Requests, of one device or of several, and deletions interleave freely.    *)
(*                                                                            *)
(* A usage event stands for the tokens it carries; a row sums events, and     *)
(* says how often each of them is in the sum.  Vendor and model are left out  *)
(* of the row's key.                                                          *)
EXTENDS Integers, FiniteSetsExt

CONSTANTS
  Devices,       \* paired devices of the account
  Clients,       \* processes that sync: a CLI run, the ticker of "serve"
  HostOf,        \* the device a client runs on
  Account,       \* owner of the account-global rows (device_id 0)
  Events,        \* usage events
  OwnerOf,       \* the device, or Account, an event belongs to
  MissEvents,    \* the events that carry uncached input tokens
  Zones,         \* time zones
  ZoneOf,        \* the zone of a device
  Dates,         \* calendar days
  DayOf,         \* DayOf[z][e]: the day of an event in a zone
  Skew,          \* seconds the clock of a device is ahead
  Revocable,     \* devices the owner may revoke
  Absent,          \* no scan, no stored row
  MaxNow, MaxBatches, MaxDuplicates, MaxDeletes    \* bounds

ASSUME ConstantsAssumption ==
  /\ HostOf \in [Clients -> Devices]
  /\ Account \notin Devices
  /\ OwnerOf \in [Events -> Devices \cup {Account}]
  /\ MissEvents \subseteq Events
  /\ ZoneOf \in [Devices -> Zones]
  /\ DayOf \in [Zones -> [Events -> Dates]]
  /\ Skew \in [Devices -> Nat]
  /\ Absent \notin [events : SUBSET Events, since : Nat]
  /\ Absent \notin [sum : [Events -> Nat], rev : Nat, by : Nat]
  /\ {MaxNow, MaxBatches, MaxDuplicates, MaxDeletes} \subseteq Nat

VARIABLES
  happened,      \* events in the local ledgers and in Cursor's account
  now,           \* the wall clock, in seconds
  scan,          \* what a client read, before it builds its batch
  net,           \* batches on their way to the server
  serving,       \* requests the server works on
  rows,          \* usage_daily_model
  recorded,      \* sync_revisions
  revoked,       \* devices with revoked_at
  overtaken,     \* rows on which one request undid, or missed, another or a deletion
  built, duplicated, deleted      \* counters of the bounds

syncVars == <<happened, now, scan, net, serving, rows, recorded, revoked,
          overtaken, built, duplicated, deleted>>

Owners == Devices \cup {Account}
RowKeys == Owners \X Dates

IsMap(f, D, R) == DOMAIN f \subseteq D /\ f \in [DOMAIN f -> R]
Sums == [Events -> Nat]
(* The number of the batch that wrote a row, and how many batches had been    *)
(* built when a scan was made, are kept for what is claimed of them below.    *)
Row == [sum : Sums, rev : Nat, by : Nat]
IsBatch(b) ==
  /\ b.dev \in Devices /\ b.key \in Nat /\ b.rev \in Nat /\ b.since \in Nat
  /\ IsMap(b.rows, RowKeys, Sums)
IsRequest(s) ==
  /\ IsBatch(s.batch)
  /\ s.at \in {"read", "write", "record"}
  /\ s.at = "write" => DOMAIN s.seen = DOMAIN s.batch.rows /\ IsMap(s.seen, RowKeys, Row \cup {Absent})

SyncInit ==
  /\ happened = {}
  /\ now = 1
  /\ scan = [c \in Clients |-> Absent]
  /\ net = {} /\ serving = {}
  /\ rows = <<>>
  /\ recorded = {} /\ revoked = {} /\ overtaken = {}
  /\ built = 0 /\ duplicated = 0 /\ deleted = 0

-----------------------------------------------------------------------------
(* The devices. *)

(* A model answers and its tokens enter a ledger, or time passes. *)
Use(e) ==
  /\ e \notin happened
  /\ happened' = happened \cup {e}
  /\ UNCHANGED <<now, scan, net, serving, rows, recorded, revoked, overtaken, built, duplicated, deleted>>

Tick ==
  /\ now < MaxNow
  /\ now' = now + 1
  /\ UNCHANGED <<happened, scan, net, serving, rows, recorded, revoked, overtaken, built, duplicated, deleted>>

(* doScan: the device's own events, and the account's unless Cursor's API    *)
(* could not be read.  The scan lock is released before the upload.          *)
Scan(c) ==
  /\ scan[c] = Absent
  /\ \E withAccount \in BOOLEAN :
       scan' = [scan EXCEPT ![c] =
         [events |-> {e \in happened : OwnerOf[e] = HostOf[c] \/ (withAccount /\ OwnerOf[e] = Account)},
          since |-> built]]
  /\ UNCHANGED <<happened, now, net, serving, rows, recorded, revoked, overtaken, built, duplicated, deleted>>

(* The row that an event read on a device is summed into: hosted keeps the   *)
(* account's rows under device 0, and the day is the day in the device's zone. *)
Place(d, e) == <<OwnerOf[e], DayOf[ZoneOf[d]][e]>>

(* syncagg.Build, stamped with the second and the nanosecond of the call. *)
Build(c) ==
  LET d == HostOf[c]
      read == scan[c].events IN
  [dev |-> d, key |-> built, rev |-> now + Skew[d], since |-> scan[c].since,
   rows |-> [k \in {Place(d, e) : e \in read} |->
               [e \in Events |-> IF e \in read /\ Place(d, e) = k THEN 1 ELSE 0]]]

(* syncResult: every call sends a batch of its own, and none is sent again. *)
Send(c) ==
  /\ scan[c] # Absent
  /\ built < MaxBatches
  /\ net' = net \cup {Build(c)}
  /\ built' = built + 1
  /\ scan' = [scan EXCEPT ![c] = Absent]
  /\ UNCHANGED <<happened, now, serving, rows, recorded, revoked, overtaken, duplicated, deleted>>

-----------------------------------------------------------------------------
(* The server. *)

Goto(s, at, seen) ==
  serving' = (serving \ {s}) \cup {[batch |-> s.batch, at |-> at, seen |-> seen]}
Finish(s) == serving' = serving \ {s}

Remembered(b) == \E r \in recorded : r.dev = b.dev /\ r.key = b.key

(* putSyncBatch refuses a revoked device with 401, and SyncBatch looks the   *)
(* idempotency key up: the same body is answered 200 and not applied,        *)
(* another body 409.  The network may deliver a request once more; one that  *)
(* is lost is never received.                                                *)
Receive(b) ==
  /\ \/ net' = net \ {b} /\ UNCHANGED duplicated
     \/ duplicated < MaxDuplicates /\ duplicated' = duplicated + 1 /\ UNCHANGED net
  /\ serving' = IF b.dev \in revoked \/ Remembered(b) THEN serving
                ELSE serving \cup {[batch |-> b, at |-> "read", seen |-> <<>>]}
  /\ UNCHANGED <<happened, now, scan, rows, recorded, revoked, overtaken, built, deleted>>

Miss(sum) == MapThenSumSet(LAMBDA e : sum[e], MissEvents)
Stored(k) == IF k \in DOMAIN rows THEN rows[k] ELSE Absent

(* Per row: older than the stored one is stale; of the same second, it must  *)
(* agree with it, and only the uncached input is compared.                   *)
Stale_Never(b, seen) == FALSE
Stale(b, seen) == \E k \in DOMAIN seen : seen[k] # Absent /\ b.rev < seen[k].rev
Clash(b, seen) ==
  \E k \in DOMAIN seen :
    /\ seen[k] # Absent /\ b.rev = seen[k].rev
    /\ Miss(b.rows[k]) # Miss(seen[k].sum)

(* The reads of ApplyUsage, all from one snapshot.  A stale or clashing row   *)
(* rolls the whole batch back and answers 409.                               *)
ReadRows(s) ==
  LET b == s.batch
      seen == [k \in DOMAIN b.rows |-> Stored(k)] IN
  /\ s.at = "read"
  /\ IF Stale(b, seen) \/ Clash(b, seen) THEN Finish(s) ELSE Goto(s, "write", seen)
  /\ UNCHANGED <<happened, now, scan, net, rows, recorded, revoked, overtaken, built, duplicated, deleted>>

(* The writes of ApplyUsage and its commit.  A row read as absent is         *)
(* inserted, and fails the transaction if it exists by now; one of the same  *)
(* second is left alone; any other is updated if it still exists, whatever   *)
(* it holds by now.                                                          *)
Written_Added(b, k) ==
  [sum |-> [e \in Events |-> b.rows[k][e] + IF k \in DOMAIN rows THEN rows[k].sum[e] ELSE 0],
   rev |-> b.rev, by |-> b.key]
Written(b, k) == [sum |-> b.rows[k], rev |-> b.rev, by |-> b.key]

WriteRows(s) ==
  LET b == s.batch
      inserts == {k \in DOMAIN s.seen : s.seen[k] = Absent}
      updates == {k \in DOMAIN s.seen \ inserts : s.seen[k].rev # b.rev} \cap DOMAIN rows IN
  /\ s.at = "write"
  /\ IF inserts \cap DOMAIN rows # {}
     THEN UNCHANGED <<rows, overtaken>> /\ Finish(s)
     ELSE /\ rows' = [k \in DOMAIN rows \cup inserts |->
                        IF k \in inserts \cup updates THEN Written(b, k) ELSE rows[k]]
          /\ overtaken' = overtaken \cup {k \in DOMAIN s.seen : s.seen[k] # Stored(k)}
          /\ Goto(s, "record", <<>>)
  /\ UNCHANGED <<happened, now, scan, net, recorded, revoked, built, duplicated, deleted>>

(* The insert into sync_revisions, after the commit.  A key that is there by *)
(* now fails the insert and answers 500.                                     *)
Record(s) ==
  /\ s.at = "record"
  /\ recorded' = IF Remembered(s.batch) THEN recorded ELSE recorded \cup {s.batch}
  /\ Finish(s)
  /\ UNCHANGED <<happened, now, scan, net, rows, revoked, overtaken, built, duplicated, deleted>>

(* A call to the database fails, the client goes away, or the process stops: *)
(* an open transaction is rolled back, a committed one stays.                *)
Cut(s) ==
  /\ Finish(s)
  /\ UNCHANGED <<happened, now, scan, net, rows, recorded, revoked, overtaken, built, duplicated, deleted>>

(* DELETE of the synced data, in one transaction.  It takes no lock: a        *)
(* request that has committed its rows may record its key afterwards.         *)
Unrecorded == UNION {DOMAIN s.batch.rows : s \in {t \in serving : t.at = "record"}}
DeleteUsage_KeepsRevisions ==
  /\ deleted < MaxDeletes /\ deleted' = deleted + 1
  /\ rows' = <<>>
  /\ overtaken' = Unrecorded
  /\ UNCHANGED <<happened, now, scan, net, serving, recorded, revoked, built, duplicated>>
DeleteUsage ==
  /\ deleted < MaxDeletes /\ deleted' = deleted + 1
  /\ rows' = <<>>
  /\ recorded' = {}
  /\ overtaken' = Unrecorded
  /\ UNCHANGED <<happened, now, scan, net, serving, revoked, built, duplicated>>

RevokeDevice(d) ==
  /\ d \in Revocable \ revoked
  /\ revoked' = revoked \cup {d}
  /\ UNCHANGED <<happened, now, scan, net, serving, rows, recorded, overtaken, built, duplicated, deleted>>

SyncNext ==
  \/ \E e \in Events : Use(e)
  \/ Tick
  \/ \E c \in Clients : Scan(c) \/ Send(c)
  \/ \E b \in net : Receive(b)
  \/ \E s \in serving : ReadRows(s) \/ WriteRows(s) \/ Record(s) \/ Cut(s)
  \/ DeleteUsage
  \/ \E d \in Devices : RevokeDevice(d)

SyncSpec == SyncInit /\ [][SyncNext]_syncVars

-----------------------------------------------------------------------------
SyncTypeOK ==
  /\ happened \subseteq Events
  /\ now \in Nat
  /\ scan \in [Clients -> [events : SUBSET Events, since : Nat] \cup {Absent}]
  /\ \A b \in net \cup recorded : IsBatch(b)
  /\ \A s \in serving : IsRequest(s)
  /\ IsMap(rows, RowKeys, Row)
  /\ revoked \subseteq Devices /\ overtaken \subseteq RowKeys
  /\ {built, duplicated, deleted} \subseteq Nat

(* SumUsage adds all rows up.  None adds an event that has not happened, or   *)
(* adds one twice, and an event is in two rows only if it is the account's    *)
(* and two devices keep different days for it: the usage counts once however  *)
(* many devices send it, in whatever order, however often, and whatever fails *)
(* (store.go:220-265, syncagg/batch.go:124).                                  *)
NothingCountedTwice ==
  \A k, l \in DOMAIN rows : \A e \in Events :
    /\ rows[k].sum[e] <= IF e \in happened THEN 1 ELSE 0
    /\ k # l /\ rows[k].sum[e] > 0 /\ rows[l].sum[e] > 0 =>
         /\ k[1] = Account /\ l[1] = Account
         /\ \E c, d \in Devices : k[2] = DayOf[ZoneOf[c]][e] /\ l[2] = DayOf[ZoneOf[d]][e]

(* A retry with a recorded key is answered 200 and writes nothing.  That is   *)
(* right only if what the first attempt sent is there, or something newer: it *)
(* is, through lost answers, crashes between the commit and the record, and   *)
(* deletions, but for two races (store.go:233, 297): a request wrote over a   *)
(* row that had changed since it read it, or a deletion came between the      *)
(* commit of a request and its record.                                        *)
RecordedIsStored ==
  \A b \in recorded : \A k \in DOMAIN b.rows \ overtaken :
    k \in DOMAIN rows /\ b.rev <= rows[k].rev

(* What the server has of a device's own model-day shrinks, while the ledger  *)
(* of the device only grows and the owner deletes nothing, only by a request  *)
(* that read the row before its last change, or by a newer batch from an older *)
(* scan: one made before the batch it replaces was built (store.go:233,       *)
(* cli/sync.go:70).  A batch that is late does not shrink it.                 *)
OwnUsageNeverFalls ==
  [][deleted' = deleted =>
       \A k \in DOMAIN rows :
         k[1] \in Devices =>
           \/ /\ k \in DOMAIN rows'
              /\ \A e \in Events : rows[k].sum[e] <= rows'[k].sum[e]
           \/ \E s \in serving \ serving' :
                /\ s.at = "write" /\ k \in DOMAIN s.seen
                /\ \/ s.seen[k] # rows[k]
                   \/ s.batch.since <= rows[k].by /\ rows[k].by < s.batch.key]_syncVars

(* "Out-of-order destructive updates are refused": no row goes back to an     *)
(* older revision, unless the owner deletes the usage.                        *)
OutOfOrderIsRefused ==
  [][deleted' = deleted =>
       \A k \in DOMAIN rows : k \in DOMAIN rows' /\ rows[k].rev <= rows'[k].rev]_syncVars
=============================================================================
