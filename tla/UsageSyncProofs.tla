--------------------------- MODULE UsageSyncProofs ---------------------------
(* What holds of the usage rows of an account for every number of devices,    *)
(* clients, zones, events and batches.  Nothing is assumed of the clocks, of  *)
(* the order, the loss or the repetition of requests, of how they overlap, or *)
(* of where a deletion falls between their statements.                        *)
EXTENDS UsageSync, TLAPS

(* Every batch that was sent and is not forgotten. *)
Batches == net \cup recorded \cup {s.batch : s \in serving}

(* The rows as WriteRows leaves them. *)
Inserts(s) == {k \in DOMAIN s.seen : s.seen[k] = Absent}
Updates(s) == {k \in DOMAIN s.seen \ Inserts(s) : s.seen[k].rev # s.batch.rev} \cap DOMAIN rows

LEMMA Wrote ==
  ASSUME NEW s \in serving, WriteRows(s)
  PROVE  \/ UNCHANGED <<rows, overtaken>> /\ Finish(s)
         \/ /\ Inserts(s) \cap DOMAIN rows = {}
            /\ rows' = [k \in DOMAIN rows \cup Inserts(s) |->
                          IF k \in Inserts(s) \cup Updates(s) THEN Written(s.batch, k) ELSE rows[k]]
            /\ overtaken' = overtaken \cup {k \in DOMAIN s.seen : s.seen[k] # Stored(k)}
            /\ Goto(s, "record", <<>>)
  BY DEF WriteRows, Inserts, Updates

-----------------------------------------------------------------------------
(* Types. *)

LEMMA BuildIsBatch ==
  ASSUME SyncTypeOK, NEW c \in Clients, scan[c] # Absent
  PROVE  IsBatch(Build(c))
<1>1. HostOf[c] \in Devices /\ scan[c].events \subseteq Events /\ scan[c].since \in Nat
  BY ConstantsAssumption DEF SyncTypeOK
<1>2. \A e \in scan[c].events : Place(HostOf[c], e) \in RowKeys
  BY <1>1, ConstantsAssumption DEF Place, RowKeys, Owners
<1>3. built \in Nat /\ now + Skew[HostOf[c]] \in Nat
  BY <1>1, ConstantsAssumption DEF SyncTypeOK
<1> DEFINE read == scan[c].events
           made == [k \in {Place(HostOf[c], e) : e \in read} |->
                      [e \in Events |-> IF e \in read /\ Place(HostOf[c], e) = k THEN 1 ELSE 0]]
<1>4. IsMap(made, RowKeys, Sums)
  BY <1>2 DEF IsMap, Sums
<1>5. Build(c) = [dev |-> HostOf[c], key |-> built, rev |-> now + Skew[HostOf[c]], since |-> scan[c].since,
                  rows |-> made]
  BY DEF Build
<1> HIDE DEF made
<1> QED
  BY <1>1, <1>3, <1>4, <1>5 DEF IsBatch

LEMMA StoredTypes ==
  ASSUME SyncTypeOK
  PROVE  \A k \in DOMAIN rows : /\ k \in RowKeys /\ rows[k] \in Row /\ rows[k] # Absent
                                /\ rows[k].sum \in Sums /\ rows[k].rev \in Nat /\ rows[k].by \in Nat
  BY ConstantsAssumption DEF SyncTypeOK, IsMap, Row, Sums

LEMMA BatchTypes ==
  ASSUME SyncTypeOK, NEW b \in Batches
  PROVE  /\ IsBatch(b) /\ b.dev \in Devices /\ b.key \in Nat /\ b.rev \in Nat /\ b.since \in Nat
         /\ \A k \in DOMAIN b.rows : k \in RowKeys /\ b.rows[k] \in Sums
  BY DEF SyncTypeOK, Batches, IsRequest, IsBatch, IsMap

LEMMA RequestTypes ==
  ASSUME SyncTypeOK, NEW s \in serving
  PROVE  /\ IsBatch(s.batch) /\ s.batch \in Batches
         /\ s.at = "write" =>
              /\ DOMAIN s.seen = DOMAIN s.batch.rows
              /\ \A k \in DOMAIN s.seen : s.seen[k] \in Row \cup {Absent}
  BY DEF SyncTypeOK, Batches, IsRequest, IsMap

(* The type invariant of the usage rows, for every instance. *)
THEOREM SyncTypeCorrect == SyncSpec => []SyncTypeOK
<1>1. SyncInit => SyncTypeOK
  BY DEF SyncInit, SyncTypeOK, IsMap
<1>2. SyncTypeOK /\ [SyncNext]_syncVars => SyncTypeOK'
  <2> SUFFICES ASSUME SyncTypeOK, [SyncNext]_syncVars PROVE SyncTypeOK'
    OBVIOUS
  <2> USE DEF SyncTypeOK
  <2>1. ASSUME NEW e \in Events, Use(e) PROVE SyncTypeOK'
    BY <2>1 DEF Use
  <2>2. CASE Tick
    BY <2>2 DEF Tick
  <2>3. ASSUME NEW c \in Clients, Scan(c) PROVE SyncTypeOK'
    <3>1. PICK E \in SUBSET happened : scan' = [scan EXCEPT ![c] = [events |-> E, since |-> built]]
      BY <2>3 DEF Scan
    <3>2. [events |-> E, since |-> built] \in [events : SUBSET Events, since : Nat]
      OBVIOUS
    <3> QED BY <2>3, <3>1, <3>2 DEF Scan
  <2>4. ASSUME NEW c \in Clients, Send(c) PROVE SyncTypeOK'
    BY <2>4, BuildIsBatch DEF Send
  <2>5. ASSUME NEW b \in net, Receive(b) PROVE SyncTypeOK'
    <3>1. IsRequest([batch |-> b, at |-> "read", seen |-> <<>>])
      BY DEF IsRequest
    <3>2. \A s \in serving' : IsRequest(s)
      BY <2>5, <3>1 DEF Receive
    <3>3. duplicated' \in Nat
      BY <2>5 DEF Receive
    <3> QED BY <2>5, <3>2, <3>3 DEF Receive
  <2>6. ASSUME NEW s \in serving, ReadRows(s) PROVE SyncTypeOK'
    <3> DEFINE seen == [k \in DOMAIN s.batch.rows |-> Stored(k)]
    <3>1. IsMap(seen, RowKeys, Row \cup {Absent})
      BY DEF IsRequest, IsBatch, IsMap, Stored
    <3>2. IsRequest([batch |-> s.batch, at |-> "write", seen |-> seen])
      BY <3>1 DEF IsRequest
    <3>3. \A t \in serving' : IsRequest(t)
      BY <2>6, <3>2 DEF ReadRows, Finish, Goto
    <3> QED BY <2>6, <3>3 DEF ReadRows
  <2>7. ASSUME NEW s \in serving, WriteRows(s) PROVE SyncTypeOK'
    <3>1. IsRequest([batch |-> s.batch, at |-> "record", seen |-> <<>>])
      BY DEF IsRequest
    <3>2. \A t \in serving' : IsRequest(t)
      BY <2>7, <3>1, Wrote DEF Finish, Goto
    <3>3. DOMAIN s.seen = DOMAIN s.batch.rows /\ DOMAIN s.batch.rows \subseteq RowKeys
      BY <2>7 DEF WriteRows, IsRequest, IsBatch, IsMap
    <3>4. overtaken' \subseteq RowKeys
      BY <2>7, <3>3, Wrote
    <3>5. IsMap(rows, RowKeys, Row)'
      <4>1. CASE UNCHANGED rows
        BY <4>1
      <4>2. CASE rows' # rows
        <5>1. Inserts(s) \cup Updates(s) \subseteq DOMAIN s.batch.rows
          BY <3>3 DEF Inserts, Updates
        <5>2. \A k \in DOMAIN s.batch.rows : Written(s.batch, k) \in Row
          BY DEF IsRequest, IsBatch, IsMap, Row, Written
        <5>3. rows' = [k \in DOMAIN rows \cup Inserts(s) |->
                         IF k \in Inserts(s) \cup Updates(s) THEN Written(s.batch, k) ELSE rows[k]]
          BY <2>7, <4>2, Wrote
        <5> QED BY <3>3, <5>1, <5>2, <5>3 DEF IsMap
      <4> QED BY <4>1, <4>2
    <3> QED BY <2>7, <3>2, <3>4, <3>5 DEF WriteRows
  <2>8. ASSUME NEW s \in serving, Record(s) PROVE SyncTypeOK'
    <3>1. IsBatch(s.batch)
      BY DEF IsRequest
    <3>2. \A b \in recorded' : IsBatch(b)
      BY <2>8, <3>1 DEF Record
    <3> QED BY <2>8, <3>2 DEF Record, Finish
  <2>9. ASSUME NEW s \in serving, Cut(s) PROVE SyncTypeOK'
    BY <2>9 DEF Cut, Finish
  <2>10. CASE DeleteUsage
    <3>1. IsMap(<<>>, RowKeys, Row)
      BY DEF IsMap
    <3>2. Unrecorded \subseteq RowKeys
      BY DEF Unrecorded, IsRequest, IsBatch, IsMap
    <3> QED BY <2>10, <3>1, <3>2 DEF DeleteUsage
  <2>11. ASSUME NEW d \in Devices, RevokeDevice(d) PROVE SyncTypeOK'
    BY <2>11 DEF RevokeDevice
  <2>12. CASE UNCHANGED syncVars
    BY <2>12 DEF syncVars
  <2> QED
    BY <2>1, <2>2, <2>3, <2>4, <2>5, <2>6, <2>7, <2>8, <2>9, <2>10, <2>11, <2>12 DEF SyncNext
<1> QED BY <1>1, <1>2, PTL DEF SyncSpec

-----------------------------------------------------------------------------
(* What a recorded key stands for. *)

(* The rows of a batch are stored, or newer ones, where no race undid them. *)
Stands(b) ==
  \A k \in DOMAIN b.rows \ overtaken : k \in DOMAIN rows /\ b.rev <= rows[k].rev

(* The inductive invariant: a request that is about to write has read nothing *)
(* newer, and the rows stand from the commit on, not only from the record.    *)
Recording ==
  /\ \A s \in serving :
       /\ s.at = "write" => \A k \in DOMAIN s.seen : s.seen[k] # Absent => s.seen[k].rev <= s.batch.rev
       /\ s.at = "record" => Stands(s.batch)
  /\ \A b \in recorded : Stands(b)

(* A write takes no batch back but on the rows it overtakes. *)
LEMMA WriteKeepsStanding ==
  ASSUME SyncTypeOK, Recording, NEW s \in serving, WriteRows(s), NEW b, b.rev \in Nat, Stands(b)
  PROVE  Stands(b)'
<1>1. CASE UNCHANGED <<rows, overtaken>>
  BY <1>1 DEF Stands
<1>2. CASE ~UNCHANGED <<rows, overtaken>>
  <2>1. /\ Inserts(s) \cap DOMAIN rows = {}
        /\ rows' = [k \in DOMAIN rows \cup Inserts(s) |->
                      IF k \in Inserts(s) \cup Updates(s) THEN Written(s.batch, k) ELSE rows[k]]
        /\ overtaken' = overtaken \cup {k \in DOMAIN s.seen : s.seen[k] # Stored(k)}
    BY <1>2, Wrote
  <2> SUFFICES ASSUME NEW k \in DOMAIN b.rows, k \notin overtaken'
               PROVE  k \in DOMAIN rows' /\ b.rev <= rows'[k].rev
    BY DEF Stands
  <2>2. k \in DOMAIN rows /\ b.rev <= rows[k].rev /\ rows[k].rev \in Nat /\ s.batch.rev \in Nat
    BY <2>1, StoredTypes, RequestTypes DEF Stands, IsBatch
  <2>3. CASE k \in Updates(s)
    <3>1. s.seen[k] = rows[k] /\ s.seen[k] # Absent
      BY <2>1, <2>2, <2>3 DEF Updates, Inserts, Stored
    <3>2. rows[k].rev <= s.batch.rev
      BY <2>3, <3>1 DEF Recording, WriteRows, Updates, Inserts
    <3>3. rows'[k].rev = s.batch.rev
      BY <2>1, <2>2, <2>3 DEF Written
    <3> QED BY <2>1, <2>2, <3>2, <3>3
  <2>4. CASE k \notin Updates(s)
    BY <2>1, <2>2, <2>4
  <2> QED BY <2>3, <2>4
<1> QED BY <1>1, <1>2

(* And the request that committed stands. *)
LEMMA WrittenStands ==
  ASSUME SyncTypeOK, Recording, NEW s \in serving, WriteRows(s), ~(UNCHANGED <<rows, overtaken>> /\ Finish(s))
  PROVE  Stands(s.batch)'
<1>1. /\ Inserts(s) \cap DOMAIN rows = {}
      /\ rows' = [k \in DOMAIN rows \cup Inserts(s) |->
                    IF k \in Inserts(s) \cup Updates(s) THEN Written(s.batch, k) ELSE rows[k]]
      /\ overtaken' = overtaken \cup {k \in DOMAIN s.seen : s.seen[k] # Stored(k)}
  BY Wrote
<1>2. DOMAIN s.seen = DOMAIN s.batch.rows /\ s.batch.rev \in Nat
  BY RequestTypes DEF WriteRows, IsBatch
<1> SUFFICES ASSUME NEW k \in DOMAIN s.batch.rows, k \notin overtaken'
             PROVE  k \in DOMAIN rows' /\ s.batch.rev <= rows'[k].rev
  BY DEF Stands
<1>3. CASE k \in Inserts(s) \cup Updates(s)
  <2>1. k \in DOMAIN rows'
    BY <1>1, <1>3 DEF Updates
  <2>2. rows'[k].rev = s.batch.rev
    BY <1>1, <1>3, <2>1 DEF Written
  <2> QED BY <1>2, <2>1, <2>2
<1>4. CASE k \notin Inserts(s) \cup Updates(s)
  <2>1. s.seen[k] = Stored(k) /\ s.seen[k] # Absent
    BY <1>1, <1>2, <1>4 DEF Inserts
  <2>2. k \in DOMAIN rows /\ s.seen[k] = rows[k]
    BY <2>1 DEF Stored
  <2>3. rows[k].rev = s.batch.rev
    BY <1>2, <1>4, <2>1, <2>2 DEF Inserts, Updates
  <2> QED BY <1>1, <1>2, <1>4, <2>2, <2>3
<1> QED BY <1>3, <1>4

(* Steps that leave the rows alone, record nothing and read nothing. *)
LEMMA RecordingFrame ==
  ASSUME Recording, UNCHANGED <<rows, overtaken, recorded>>,
         \A s \in serving' : s \in serving \/ s.at = "read"
  PROVE  Recording'
<1>1. ASSUME NEW b, Stands(b) PROVE Stands(b)'
  BY <1>1 DEF Stands
<1> QED BY <1>1 DEF Recording

LEMMA RecordingStep == SyncTypeOK /\ Recording /\ [SyncNext]_syncVars => Recording'
<1> SUFFICES ASSUME SyncTypeOK, Recording, [SyncNext]_syncVars PROVE Recording'
  OBVIOUS
<1>1. ASSUME NEW c \in Clients, Scan(c) \/ Send(c) PROVE Recording'
  BY <1>1, RecordingFrame DEF Scan, Send
<1>2. CASE Tick \/ \E e \in Events : Use(e)
  BY <1>2, RecordingFrame DEF Tick, Use
<1>3. ASSUME NEW b \in net, Receive(b) PROVE Recording'
  <2>1. \A s \in serving' : s \in serving \/ s.at = "read"
    BY <1>3 DEF Receive
  <2> QED BY <1>3, <2>1, RecordingFrame DEF Receive
<1>4. ASSUME NEW s \in serving, ReadRows(s) PROVE Recording'
  <2> DEFINE seen == [k \in DOMAIN s.batch.rows |-> Stored(k)]
             t == [batch |-> s.batch, at |-> "write", seen |-> seen]
  <2>1. UNCHANGED <<rows, overtaken, recorded>>
    BY <1>4 DEF ReadRows
  <2>2. CASE Finish(s)
    BY <2>1, <2>2, RecordingFrame DEF Finish
  <2>3. CASE ~Finish(s)
    <3>1. ~Stale(s.batch, seen) /\ serving' = (serving \ {s}) \cup {t}
      BY <1>4, <2>3 DEF ReadRows, Goto
    <3>2. ASSUME NEW k \in DOMAIN seen, seen[k] # Absent PROVE seen[k].rev <= s.batch.rev
      <4>1. k \in DOMAIN rows /\ seen[k] = rows[k]
        BY <3>2 DEF Stored
      <4>2. seen[k].rev \in Nat /\ s.batch.rev \in Nat
        BY <4>1, StoredTypes, RequestTypes DEF IsBatch
      <4>3. ~(s.batch.rev < seen[k].rev)
        BY <3>1, <3>2 DEF Stale
      <4> QED BY <4>2, <4>3
    <3> HIDE DEF seen
    <3>3. t.at = "write" /\ t.batch = s.batch /\ t.seen = seen
      OBVIOUS
    <3> HIDE DEF t
    <3>4. ASSUME NEW b, Stands(b) PROVE Stands(b)'
      BY <2>1, <3>4 DEF Stands
    <3>5. \A u \in serving' :
            /\ u.at = "write" => \A k \in DOMAIN u.seen : u.seen[k] # Absent => u.seen[k].rev <= u.batch.rev
            /\ u.at = "record" => Stands(u.batch)'
      BY <3>1, <3>2, <3>3, <3>4 DEF Recording
    <3>6. \A b \in recorded' : Stands(b)'
      BY <2>1, <3>4 DEF Recording
    <3> QED BY <3>5, <3>6 DEF Recording
  <2> QED BY <2>2, <2>3
<1>5. ASSUME NEW s \in serving, WriteRows(s) PROVE Recording'
  <2>1. recorded' = recorded
    BY <1>5 DEF WriteRows
  <2>2. CASE UNCHANGED <<rows, overtaken>> /\ Finish(s)
    BY <2>1, <2>2, RecordingFrame DEF Finish
  <2>3. CASE ~(UNCHANGED <<rows, overtaken>> /\ Finish(s))
    <3> DEFINE t == [batch |-> s.batch, at |-> "record", seen |-> <<>>]
    <3>1. serving' = (serving \ {s}) \cup {t}
      BY <1>5, <2>3, Wrote DEF Goto
    <3>2. Stands(s.batch)'
      BY <1>5, <2>3, WrittenStands
    <3>3. t.at = "record" /\ t.batch = s.batch
      OBVIOUS
    <3> HIDE DEF t
    <3>4. ASSUME NEW u \in serving, u.at = "record" PROVE Stands(u.batch)'
      BY <1>5, <3>4, RequestTypes, WriteKeepsStanding DEF Recording, IsBatch
    <3>5. \A b \in recorded' : Stands(b)'
      BY <1>5, <2>1, WriteKeepsStanding DEF Recording, SyncTypeOK, IsBatch
    <3>6. \A u \in serving' :
            /\ u.at = "write" => \A k \in DOMAIN u.seen : u.seen[k] # Absent => u.seen[k].rev <= u.batch.rev
            /\ u.at = "record" => Stands(u.batch)'
      BY <3>1, <3>2, <3>3, <3>4 DEF Recording
    <3> QED BY <3>5, <3>6 DEF Recording
  <2> QED BY <2>2, <2>3
<1>6. ASSUME NEW s \in serving, Record(s) PROVE Recording'
  <2>1. UNCHANGED <<rows, overtaken>> /\ serving' \subseteq serving
    BY <1>6 DEF Record, Finish
  <2>2. ASSUME NEW b, Stands(b) PROVE Stands(b)'
    BY <2>1, <2>2 DEF Stands
  <2>3. \A b \in recorded' : Stands(b)
    BY <1>6 DEF Record, Recording
  <2> QED BY <2>1, <2>2, <2>3 DEF Recording
<1>7. ASSUME NEW s \in serving, Cut(s) PROVE Recording'
  BY <1>7, RecordingFrame DEF Cut, Finish
<1>8. CASE DeleteUsage
  <2>1. recorded' = {} /\ serving' = serving /\ overtaken' = Unrecorded
    BY <1>8 DEF DeleteUsage
  <2>2. \A s \in serving' : s.at = "record" => DOMAIN s.batch.rows \subseteq overtaken'
    BY <2>1 DEF Unrecorded
  <2> QED BY <2>1, <2>2 DEF Recording, Stands
<1>9. ASSUME NEW d \in Devices, RevokeDevice(d) PROVE Recording'
  BY <1>9, RecordingFrame DEF RevokeDevice
<1>10. CASE UNCHANGED syncVars
  BY <1>10, RecordingFrame DEF syncVars
<1> QED
  BY <1>1, <1>2, <1>3, <1>4, <1>5, <1>6, <1>7, <1>8, <1>9, <1>10 DEF SyncNext

LEMMA RecordingInvariant == SyncSpec => []Recording
<1>1. SyncInit => Recording
  BY DEF SyncInit, Recording
<1> QED BY <1>1, RecordingStep, SyncTypeCorrect, PTL DEF SyncSpec

(* Whatever key is recorded, what was sent with it is stored, or something    *)
(* newer: a retry that is answered from the record loses nothing, for any     *)
(* devices, clocks, orders and overlaps of requests, crashes between the      *)
(* commit and the record, and deletions at any moment.  Left out are the rows *)
(* of the two races that `overtaken' records: a request changed a row that    *)
(* was not any more as it had read it, and a deletion came between the commit *)
(* of a request and its record.                                               *)
THEOREM RecordedStands == SyncSpec => []RecordedIsStored
<1>1. Recording => RecordedIsStored
  BY DEF Recording, Stands, RecordedIsStored
<1> QED BY <1>1, RecordingInvariant, PTL

-----------------------------------------------------------------------------
(* What a step does to the batches, the scans and the rows. *)

LEMMA BatchesShrink ==
  ASSUME NEW s \in serving, net' = net, recorded' \subseteq recorded \cup {s.batch},
         serving' = serving \ {s} \/ \E at, seen : Goto(s, at, seen)
  PROVE  Batches' \subseteq Batches
<1>1. \A u \in serving' : \E v \in serving : u.batch = v.batch
  BY DEF Goto
<1> QED BY <1>1 DEF Batches

LEMMA BatchStep ==
  ASSUME [SyncNext]_syncVars
  PROVE  \/ Batches' \subseteq Batches /\ built' = built
         \/ \E c \in Clients : Send(c) /\ Batches' = Batches \cup {Build(c)}
<1>1. ASSUME NEW c \in Clients, Send(c) PROVE Batches' = Batches \cup {Build(c)}
  BY <1>1 DEF Send, Batches
<1>2. ASSUME NEW b \in net, Receive(b) PROVE Batches' \subseteq Batches /\ built' = built
  <2>1. serving' \subseteq serving \cup {[batch |-> b, at |-> "read", seen |-> <<>>]}
    BY <1>2 DEF Receive
  <2>2. \A u \in serving' : u.batch = b \/ \E v \in serving : u.batch = v.batch
    BY <2>1
  <2> QED BY <1>2, <2>2 DEF Receive, Batches
<1>3. ASSUME NEW s \in serving, ReadRows(s) \/ WriteRows(s) \/ Record(s) \/ Cut(s)
      PROVE  Batches' \subseteq Batches /\ built' = built
  <2>1. CASE ReadRows(s)
    BY <2>1, BatchesShrink DEF ReadRows, Finish
  <2>2. CASE WriteRows(s)
    BY <2>2, BatchesShrink DEF WriteRows, Finish
  <2>3. CASE Record(s) \/ Cut(s)
    BY <2>3, BatchesShrink DEF Record, Cut, Finish
  <2> QED BY <1>3, <2>1, <2>2, <2>3
<1>4. CASE \/ Tick \/ DeleteUsage \/ \E e \in Events : Use(e)
           \/ (\E c \in Clients : Scan(c)) \/ \E d \in Devices : RevokeDevice(d)
  BY <1>4 DEF Tick, DeleteUsage, Use, Scan, RevokeDevice, Batches
<1>5. CASE UNCHANGED syncVars
  BY <1>5 DEF syncVars, Batches
<1> QED BY <1>1, <1>2, <1>3, <1>4, <1>5 DEF SyncNext

(* Time passes, and a scan is as it was, new, or sent. *)
LEMMA ScanStep ==
  ASSUME SyncTypeOK, [SyncNext]_syncVars
  PROVE  /\ happened \subseteq happened' /\ now \in Nat /\ now' \in Nat /\ now <= now'
         /\ built \in Nat /\ built' \in Nat /\ built <= built'
         /\ \A c \in Clients :
              \/ scan'[c] = scan[c]
              \/ Scan(c) /\ scan'[c] # Absent
              \/ Send(c) /\ scan'[c] = Absent
<1>1. ASSUME NEW c \in Clients, Scan(c)
      PROVE  scan'[c] # Absent /\ \A a \in Clients : a # c => scan'[a] = scan[a]
  <2>1. PICK E \in SUBSET happened : scan' = [scan EXCEPT ![c] = [events |-> E, since |-> built]]
    BY <1>1 DEF Scan
  <2>2. [events |-> E, since |-> built] \in [events : SUBSET Events, since : Nat]
    BY DEF SyncTypeOK
  <2> QED BY <2>1, <2>2, ConstantsAssumption DEF SyncTypeOK
<1>2. ASSUME NEW c \in Clients, Send(c)
      PROVE  scan'[c] = Absent /\ \A a \in Clients : a # c => scan'[a] = scan[a]
  BY <1>2 DEF Send, SyncTypeOK
<1>3. \/ \E c \in Clients : Scan(c) \/ Send(c)
      \/ UNCHANGED scan
  BY DEF SyncNext, syncVars, Use, Tick, Receive, ReadRows, WriteRows, Record, Cut, DeleteUsage, RevokeDevice
<1>4. /\ happened \subseteq happened'
      /\ now' = now \/ now' = now + 1
      /\ built' = built \/ built' = built + 1
  BY DEF SyncNext, syncVars, Use, Tick, Scan, Send, Receive, ReadRows, WriteRows, Record, Cut, DeleteUsage, RevokeDevice
<1>5. now \in Nat /\ built \in Nat
  BY DEF SyncTypeOK
<1> QED BY <1>1, <1>2, <1>3, <1>4, <1>5

(* A row is as it was, or a request wrote what its batch has. *)
LEMMA RowStep ==
  ASSUME SyncTypeOK, [SyncNext]_syncVars, NEW k \in DOMAIN rows'
  PROVE  \/ k \in DOMAIN rows /\ rows'[k] = rows[k]
         \/ \E b \in Batches : /\ k \in DOMAIN b.rows
                               /\ rows'[k].sum = b.rows[k] /\ rows'[k].rev = b.rev /\ rows'[k].by = b.key
<1>1. ASSUME NEW s \in serving, WriteRows(s), rows' # rows
      PROVE  \/ k \in DOMAIN rows /\ rows'[k] = rows[k]
             \/ k \in DOMAIN s.batch.rows /\ rows'[k] = Written(s.batch, k)
  <2>1. rows' = [l \in DOMAIN rows \cup Inserts(s) |->
                   IF l \in Inserts(s) \cup Updates(s) THEN Written(s.batch, l) ELSE rows[l]]
    BY <1>1, Wrote
  <2>2. Inserts(s) \cup Updates(s) \subseteq DOMAIN s.batch.rows
    BY <1>1, RequestTypes DEF WriteRows, Inserts, Updates
  <2> QED BY <2>1, <2>2
<1>2. \/ \E s \in serving : WriteRows(s)
      \/ UNCHANGED rows
      \/ rows' = <<>>
  BY DEF SyncNext, syncVars, Use, Tick, Scan, Send, Receive, ReadRows, Record, Cut, DeleteUsage, RevokeDevice
<1>3. CASE UNCHANGED rows
  BY <1>3
<1>4. CASE rows' = <<>>
  BY <1>4
<1>5. ASSUME NEW s \in serving, WriteRows(s), rows' # rows
      PROVE  \/ k \in DOMAIN rows /\ rows'[k] = rows[k]
             \/ \E b \in Batches : /\ k \in DOMAIN b.rows
                                   /\ rows'[k].sum = b.rows[k] /\ rows'[k].rev = b.rev /\ rows'[k].by = b.key
  <2>1. s.batch \in Batches
    BY DEF Batches
  <2> QED BY <1>1, <1>5, <2>1 DEF Written
<1> QED BY <1>2, <1>3, <1>4, <1>5

-----------------------------------------------------------------------------
(* Nothing is counted twice. *)

(* A row that a device sums: each event at most once, and only events of H    *)
(* that the device sees and places there.                                     *)
Counts(H, sum, d, k) ==
  \A e \in Events :
    /\ sum[e] <= 1
    /\ sum[e] > 0 => e \in H /\ OwnerOf[e] \in {d, Account} /\ k = Place(d, e)

(* The inductive invariant: what counts right when a batch is built counts    *)
(* right on its way and where it is stored.                                   *)
Sound ==
  /\ \A c \in Clients : scan[c] # Absent =>
       \A e \in scan[c].events : e \in happened /\ OwnerOf[e] \in {HostOf[c], Account}
  /\ \A b \in Batches : \A k \in DOMAIN b.rows :
       k[1] \in {b.dev, Account} /\ Counts(happened, b.rows[k], b.dev, k)
  /\ \A k \in DOMAIN rows : \E d \in Devices : Counts(happened, rows[k].sum, d, k)

LEMMA MoreHappened ==
  ASSUME NEW G, NEW H, G \subseteq H, NEW sum, NEW d, NEW k, Counts(G, sum, d, k)
  PROVE  Counts(H, sum, d, k)
  BY DEF Counts

LEMMA BuildCounts ==
  ASSUME SyncTypeOK, Sound, NEW c \in Clients, scan[c] # Absent
  PROVE  /\ Build(c).dev = HostOf[c] /\ Build(c).key = built /\ Build(c).since = scan[c].since
         /\ Build(c).rev = now + Skew[HostOf[c]]
         /\ \A k \in DOMAIN Build(c).rows :
              /\ k[1] \in {HostOf[c], Account}
              /\ Build(c).rows[k] = [e \in Events |-> IF e \in scan[c].events /\ Place(HostOf[c], e) = k THEN 1 ELSE 0]
              /\ Counts(happened, Build(c).rows[k], HostOf[c], k)
<1>1. /\ Build(c).dev = HostOf[c] /\ Build(c).key = built /\ Build(c).since = scan[c].since
      /\ Build(c).rev = now + Skew[HostOf[c]]
  BY DEF Build
<1> SUFFICES ASSUME NEW k \in DOMAIN Build(c).rows
             PROVE  /\ k[1] \in {HostOf[c], Account}
                    /\ Build(c).rows[k] = [e \in Events |-> IF e \in scan[c].events /\ Place(HostOf[c], e) = k THEN 1 ELSE 0]
                    /\ Counts(happened, Build(c).rows[k], HostOf[c], k)
  BY <1>1
<1>2. /\ Build(c).rows[k] = [e \in Events |-> IF e \in scan[c].events /\ Place(HostOf[c], e) = k THEN 1 ELSE 0]
      /\ \E e \in scan[c].events : k = Place(HostOf[c], e)
  BY DEF Build
<1>3. k[1] \in {HostOf[c], Account}
  BY <1>2 DEF Sound, Place
<1>4. Counts(happened, Build(c).rows[k], HostOf[c], k)
  BY <1>2 DEF Sound, Counts
<1> QED BY <1>2, <1>3, <1>4

LEMMA SoundStep == SyncTypeOK /\ Sound /\ [SyncNext]_syncVars => Sound'
<1> SUFFICES ASSUME SyncTypeOK, Sound, [SyncNext]_syncVars PROVE Sound'
  OBVIOUS
<1>1. happened \subseteq happened'
  BY ScanStep
<1>2. ASSUME NEW c \in Clients, scan'[c] # Absent, NEW e \in scan'[c].events
      PROVE  e \in happened' /\ OwnerOf[e] \in {HostOf[c], Account}
  <2>1. CASE scan'[c] = scan[c]
    BY <1>1, <1>2, <2>1 DEF Sound
  <2>2. CASE Scan(c)
    BY <1>1, <1>2, <2>2 DEF Scan, SyncTypeOK
  <2> QED BY <1>2, <2>1, <2>2, ScanStep
<1>3. ASSUME NEW b \in Batches', NEW k \in DOMAIN b.rows
      PROVE  k[1] \in {b.dev, Account} /\ Counts(happened', b.rows[k], b.dev, k)
  <2>1. CASE b \in Batches
    <3>1. k[1] \in {b.dev, Account} /\ Counts(happened, b.rows[k], b.dev, k)
      BY <1>3, <2>1 DEF Sound
    <3> QED BY <1>1, <3>1, MoreHappened
  <2>2. ASSUME NEW c \in Clients, Send(c), b = Build(c)
        PROVE  k[1] \in {b.dev, Account} /\ Counts(happened', b.rows[k], b.dev, k)
    <3>1. scan[c] # Absent
      BY <2>2 DEF Send
    <3>2. k[1] \in {b.dev, Account} /\ Counts(happened, b.rows[k], b.dev, k)
      BY <1>3, <2>2, <3>1, BuildCounts
    <3> QED BY <1>1, <3>2, MoreHappened
  <2> QED BY <1>3, <2>1, <2>2, BatchStep
<1>4. ASSUME NEW k \in DOMAIN rows' PROVE \E d \in Devices : Counts(happened', rows'[k].sum, d, k)
  <2>1. CASE k \in DOMAIN rows /\ rows'[k] = rows[k]
    <3>1. PICK d \in Devices : Counts(happened, rows[k].sum, d, k)
      BY <2>1 DEF Sound
    <3>2. Counts(happened', rows[k].sum, d, k)
      BY <1>1, <3>1, MoreHappened
    <3> QED BY <2>1, <3>2
  <2>2. ASSUME NEW b \in Batches, k \in DOMAIN b.rows, rows'[k].sum = b.rows[k]
        PROVE  \E d \in Devices : Counts(happened', rows'[k].sum, d, k)
    <3>1. Counts(happened, b.rows[k], b.dev, k) /\ b.dev \in Devices
      BY <2>2, BatchTypes DEF Sound
    <3>2. Counts(happened', b.rows[k], b.dev, k)
      BY <1>1, <3>1, MoreHappened
    <3> QED BY <2>2, <3>1, <3>2
  <2> QED BY <2>1, <2>2, RowStep
<1> QED BY <1>2, <1>3, <1>4 DEF Sound

LEMMA SoundInvariant == SyncSpec => []Sound
<1>1. SyncInit => Sound
  BY DEF SyncInit, Sound, Batches
<1> QED BY <1>1, SoundStep, SyncTypeCorrect, PTL DEF SyncSpec

LEMMA SoundCountsOnce == SyncTypeOK /\ Sound => NothingCountedTwice
<1> SUFFICES ASSUME SyncTypeOK, Sound, NEW k \in DOMAIN rows, NEW l \in DOMAIN rows, NEW e \in Events
             PROVE  /\ rows[k].sum[e] <= IF e \in happened THEN 1 ELSE 0
                    /\ k # l /\ rows[k].sum[e] > 0 /\ rows[l].sum[e] > 0 =>
                         /\ k[1] = Account /\ l[1] = Account
                         /\ \E c, d \in Devices : k[2] = DayOf[ZoneOf[c]][e] /\ l[2] = DayOf[ZoneOf[d]][e]
  BY DEF NothingCountedTwice
<1>1. PICK c \in Devices : Counts(happened, rows[k].sum, c, k)
  BY DEF Sound
<1>2. PICK d \in Devices : Counts(happened, rows[l].sum, d, l)
  BY DEF Sound
<1>3. rows[k].sum[e] \in Nat /\ rows[l].sum[e] \in Nat
  BY StoredTypes DEF Sums
<1>4. rows[k].sum[e] <= IF e \in happened THEN 1 ELSE 0
  BY <1>1, <1>3 DEF Counts
<1>5. ASSUME k # l, rows[k].sum[e] > 0, rows[l].sum[e] > 0
      PROVE  /\ k[1] = Account /\ l[1] = Account
             /\ k[2] = DayOf[ZoneOf[c]][e] /\ l[2] = DayOf[ZoneOf[d]][e]
  <2>1. OwnerOf[e] \in {c, Account} /\ k = Place(c, e) /\ OwnerOf[e] \in {d, Account} /\ l = Place(d, e)
    BY <1>1, <1>2, <1>5 DEF Counts
  <2>2. OwnerOf[e] = Account
    <3>1. ASSUME OwnerOf[e] # Account PROVE FALSE
      BY <1>5, <2>1, <3>1
    <3> QED BY <3>1
  <2> QED BY <2>1, <2>2 DEF Place
<1> QED BY <1>4, <1>5

(* No usage counts twice, and none that did not happen counts, whatever the   *)
(* order, the overlap and the repetition of the batches of all devices, and   *)
(* whatever fails on the way; but an event of the account that two devices    *)
(* place on different days is in a row of each (store.go:220-265,             *)
(* syncagg/batch.go:124).                                                     *)
THEOREM UsageCountsOnce == SyncSpec => []NothingCountedTwice
  BY SoundCountsOnce, SoundInvariant, SyncTypeCorrect, PTL

-----------------------------------------------------------------------------
(* The own usage of a device. *)

(* Batches of a device are stamped in the order they are built in, whichever  *)
(* of its processes builds them, and so are the rows they leave.              *)
Numbered ==
  /\ \A c \in Clients : scan[c] # Absent => scan[c].since <= built
  /\ \A b \in Batches : b.key < built /\ b.since <= built /\ b.rev <= now + Skew[b.dev]
  /\ \A a, b \in Batches : a.dev = b.dev /\ a.key <= b.key => a.rev <= b.rev
  /\ \A k \in DOMAIN rows : k[1] \in Devices => rows[k].by < built
  /\ \A b \in Batches : \A k \in DOMAIN rows :
       k[1] = b.dev /\ b.key <= rows[k].by => b.rev <= rows[k].rev

LEMMA NumberedStep == SyncTypeOK /\ Sound /\ Numbered /\ [SyncNext]_syncVars => Numbered'
<1> SUFFICES ASSUME SyncTypeOK, Sound, Numbered, [SyncNext]_syncVars PROVE Numbered'
  OBVIOUS
<1>0. now <= now' /\ now \in Nat /\ now' \in Nat /\ built <= built' /\ built \in Nat /\ built' \in Nat
  BY ScanStep
<1>1. ASSUME NEW c \in Clients, Send(c)
      PROVE  /\ Build(c).dev = HostOf[c] /\ Build(c).key = built /\ Build(c).since = scan[c].since
             /\ Build(c).rev = now + Skew[HostOf[c]] /\ Build(c).rev \in Nat /\ Build(c).since \in Nat
             /\ scan[c].since <= built /\ now' = now /\ built' = built + 1 /\ HostOf[c] \in Devices
  <2>1. scan[c] # Absent /\ now' = now /\ built' = built + 1
    BY <1>1 DEF Send
  <2>2. HostOf[c] \in Devices /\ Skew[HostOf[c]] \in Nat
    BY ConstantsAssumption
  <2>3. scan[c].since \in Nat /\ scan[c].since <= built
    BY <2>1 DEF SyncTypeOK, Numbered
  <2>4. /\ Build(c).dev = HostOf[c] /\ Build(c).key = built /\ Build(c).since = scan[c].since
        /\ Build(c).rev = now + Skew[HostOf[c]]
    BY <2>1, BuildCounts
  <2> HIDE DEF Build
  <2> QED BY <1>0, <2>1, <2>2, <2>3, <2>4
<1>2. ASSUME NEW b \in Batches
      PROVE  /\ b.dev \in Devices /\ b.key \in Nat /\ b.rev \in Nat /\ b.since \in Nat /\ Skew[b.dev] \in Nat
             /\ b.key < built /\ b.since <= built /\ b.rev <= now + Skew[b.dev]
  BY BatchTypes, ConstantsAssumption DEF Numbered
<1>3. ASSUME NEW c \in Clients, scan'[c] # Absent PROVE scan'[c].since <= built'
  <2>1. CASE scan'[c] = scan[c]
    <3>1. scan[c].since <= built /\ scan[c].since \in Nat
      BY <1>3, <2>1 DEF Numbered, SyncTypeOK
    <3> QED BY <1>0, <2>1, <3>1
  <2>2. CASE Scan(c)
    <3>1. scan'[c].since = built /\ built' = built
      BY <2>2 DEF Scan, SyncTypeOK
    <3> QED BY <1>0, <3>1
  <2> QED BY <1>3, <2>1, <2>2, ScanStep
<1>4. ASSUME NEW b \in Batches'
      PROVE  b.key < built' /\ b.since <= built' /\ b.rev <= now' + Skew[b.dev]
  <2>1. CASE b \in Batches
    BY <1>0, <1>2, <2>1
  <2>2. ASSUME NEW c \in Clients, Send(c), b = Build(c)
        PROVE  b.key < built' /\ b.since <= built' /\ b.rev <= now' + Skew[b.dev]
    BY <1>0, <1>1, <2>2
  <2> QED BY <2>1, <2>2, BatchStep
<1>5. ASSUME NEW a \in Batches', NEW b \in Batches', a.dev = b.dev, a.key <= b.key
      PROVE  a.rev <= b.rev
  <2>1. CASE a \in Batches /\ b \in Batches
    BY <1>5, <2>1 DEF Numbered
  <2>2. ASSUME NEW c \in Clients, Send(c), b = Build(c), a \in Batches PROVE a.rev <= b.rev
    BY <1>0, <1>1, <1>2, <1>5, <2>2
  <2>3. ASSUME NEW c \in Clients, Send(c), a = Build(c), b \in Batches PROVE FALSE
    BY <1>0, <1>1, <1>2, <1>5, <2>3
  <2>4. ASSUME NEW c \in Clients, Send(c), a = Build(c), b = Build(c) PROVE a.rev <= b.rev
    BY <1>1, <2>4
  <2>5. \/ Batches' \subseteq Batches
        \/ \E c \in Clients : Send(c) /\ Batches' = Batches \cup {Build(c)}
    BY BatchStep
  <2> QED BY <1>5, <2>1, <2>2, <2>3, <2>4, <2>5
<1>6. ASSUME NEW k \in DOMAIN rows', k[1] \in Devices PROVE rows'[k].by < built'
  <2>1. CASE k \in DOMAIN rows /\ rows'[k] = rows[k]
    BY <1>0, <1>6, <2>1, StoredTypes DEF Numbered
  <2>2. ASSUME NEW b \in Batches, rows'[k].by = b.key PROVE rows'[k].by < built'
    BY <1>0, <1>2, <2>2
  <2> QED BY <2>1, <2>2, RowStep
<1>7. ASSUME NEW b \in Batches', NEW k \in DOMAIN rows', k[1] = b.dev, b.key <= rows'[k].by
      PROVE  b.rev <= rows'[k].rev
  <2>1. CASE b \in Batches
    <3>1. CASE k \in DOMAIN rows /\ rows'[k] = rows[k]
      BY <1>7, <2>1, <3>1 DEF Numbered
    <3>2. ASSUME NEW a \in Batches, k \in DOMAIN a.rows, rows'[k].rev = a.rev, rows'[k].by = a.key
          PROVE  b.rev <= rows'[k].rev
      <4>1. a.dev = b.dev
        <5>1. k[1] \in {a.dev, Account} /\ b.dev \in Devices
          BY <1>2, <2>1, <3>2 DEF Sound
        <5> QED BY <1>7, <5>1, ConstantsAssumption
      <4> QED BY <1>7, <2>1, <3>2, <4>1 DEF Numbered
    <3> QED BY <3>1, <3>2, RowStep
  <2>2. ASSUME NEW c \in Clients, Send(c), b = Build(c) PROVE FALSE
    <3>1. rows' = rows /\ b.key = built /\ k[1] \in Devices
      BY <1>1, <1>7, <2>2 DEF Send
    <3>2. rows[k].by < built /\ rows[k].by \in Nat
      BY <3>1, StoredTypes DEF Numbered
    <3> QED BY <1>0, <1>7, <3>1, <3>2
  <2> QED BY <2>1, <2>2, BatchStep
<1> QED BY <1>3, <1>4, <1>5, <1>6, <1>7 DEF Numbered

LE(f, g) == \A e \in Events : f[e] <= g[e]
Within(f, E) == \A e \in Events : f[e] > 0 => e \in E

(* A scan holds what its device had sent before it; so a batch holds what the *)
(* batches built before its scan hold, and what they left in the rows.        *)
Contained ==
  /\ \A c \in Clients : scan[c] # Absent =>
       /\ \A b \in Batches : b.dev = HostOf[c] /\ b.key < scan[c].since =>
            \A k \in DOMAIN b.rows : k[1] = b.dev => Within(b.rows[k], scan[c].events)
       /\ \A k \in DOMAIN rows :
            k[1] = HostOf[c] /\ rows[k].by < scan[c].since => Within(rows[k].sum, scan[c].events)
  /\ \A a, b \in Batches : a.dev = b.dev /\ a.key < b.since =>
       \A k \in DOMAIN a.rows \cap DOMAIN b.rows : k[1] = a.dev => LE(a.rows[k], b.rows[k])
  /\ \A b \in Batches : \A k \in DOMAIN b.rows \cap DOMAIN rows :
       k[1] = b.dev /\ rows[k].by < b.since => LE(rows[k].sum, b.rows[k])

(* What counts right in a row of a device, and is in its scan, is in what the *)
(* device builds from the scan.                                               *)
LEMMA BuildHolds ==
  ASSUME SyncTypeOK, Sound, NEW c \in Clients, scan[c] # Absent, NEW k \in DOMAIN Build(c).rows,
         k[1] = HostOf[c], NEW sum \in Sums, NEW d \in Devices, Counts(happened, sum, d, k),
         Within(sum, scan[c].events)
  PROVE  LE(sum, Build(c).rows[k])
<1> SUFFICES ASSUME NEW e \in Events PROVE sum[e] <= Build(c).rows[k][e]
  BY DEF LE
<1>1. sum[e] \in Nat
  BY DEF Sums
<1>2. Build(c).rows[k] = [x \in Events |-> IF x \in scan[c].events /\ Place(HostOf[c], x) = k THEN 1 ELSE 0]
  BY BuildCounts
<1>3. CASE sum[e] > 0
  <2>1. sum[e] <= 1 /\ OwnerOf[e] \in {d, Account} /\ k = Place(d, e) /\ e \in scan[c].events
    BY <1>3 DEF Counts, Within
  <2>2. OwnerOf[e] = HostOf[c] /\ HostOf[c] # Account
    BY <2>1, ConstantsAssumption DEF Place
  <2>3. k = Place(HostOf[c], e)
    BY <2>1, <2>2
  <2> QED BY <1>1, <1>2, <2>1, <2>3
<1>4. CASE ~(sum[e] > 0)
  BY <1>1, <1>2, <1>4
<1> QED BY <1>3, <1>4

(* A scan holds all that its device uses. *)
LEMMA ScanHolds ==
  ASSUME SyncTypeOK, NEW c \in Clients, Scan(c), NEW k, k[1] = HostOf[c],
         NEW sum, NEW d \in Devices, Counts(happened, sum, d, k)
  PROVE  Within(sum, scan'[c].events)
<1>1. \A e \in happened : OwnerOf[e] = HostOf[c] => e \in scan'[c].events
  BY DEF Scan, SyncTypeOK
<1> SUFFICES ASSUME NEW e \in Events, sum[e] > 0 PROVE e \in scan'[c].events
  BY DEF Within
<1>2. e \in happened /\ k = Place(d, e)
  BY DEF Counts
<1> QED BY <1>1, <1>2 DEF Place

LEMMA ContainedStep == SyncTypeOK /\ Sound /\ Numbered /\ Contained /\ [SyncNext]_syncVars => Contained'
<1> SUFFICES ASSUME SyncTypeOK, Sound, Numbered, Contained, [SyncNext]_syncVars PROVE Contained'
  OBVIOUS
<1>0. built \in Nat /\ \A c \in Clients : HostOf[c] \in Devices
  BY ConstantsAssumption DEF SyncTypeOK
<1>a. ASSUME NEW b \in Batches, NEW k \in DOMAIN b.rows
      PROVE  /\ b.dev \in Devices /\ b.rows[k] \in Sums /\ Counts(happened, b.rows[k], b.dev, k)
             /\ k[1] \in Devices => k[1] = b.dev
  BY BatchTypes, ConstantsAssumption DEF Sound
<1>b. ASSUME NEW c \in Clients, Send(c), NEW b \in Batches' \ Batches
      PROVE  /\ b = Build(c) /\ scan[c] # Absent /\ b.key = built /\ b.dev = HostOf[c] /\ b.since = scan[c].since
             /\ rows' = rows /\ scan'[c] = Absent
             /\ \A a \in Clients : scan'[a] = scan[a] \/ scan'[a] = Absent
  BY <1>b, BuildCounts DEF Send, Batches, SyncTypeOK
<1>c. ASSUME NEW c \in Clients, scan'[c] # Absent, ~Scan(c) PROVE scan'[c] = scan[c]
  BY <1>c, ScanStep
<1>d. ASSUME NEW b \in Batches' PROVE b \in Batches \/ \E c \in Clients : Send(c)
  BY BatchStep
<1>1. ASSUME NEW c \in Clients, scan'[c] # Absent, NEW b \in Batches',
             b.dev = HostOf[c], b.key < scan'[c].since, NEW k \in DOMAIN b.rows, k[1] = b.dev
      PROVE  Within(b.rows[k], scan'[c].events)
  <2>1. CASE b \in Batches /\ Scan(c)
    BY <1>1, <1>a, <2>1, ScanHolds
  <2>2. CASE b \in Batches /\ ~Scan(c)
    BY <1>1, <1>c, <2>2 DEF Contained
  <2>3. CASE b \notin Batches
    <3>1. PICK a \in Clients : Send(a)
      BY <1>1, <1>d, <2>3
    <3>2. b.key = built /\ scan'[c] = scan[c]
      BY <1>1, <1>b, <2>3, <3>1
    <3>3. scan[c].since <= built /\ scan[c].since \in Nat
      BY <1>1, <3>2 DEF Numbered, SyncTypeOK
    <3> QED BY <1>0, <1>1, <3>2, <3>3
  <2> QED BY <2>1, <2>2, <2>3
<1>2. ASSUME NEW c \in Clients, scan'[c] # Absent, NEW k \in DOMAIN rows',
             k[1] = HostOf[c], rows'[k].by < scan'[c].since
      PROVE  Within(rows'[k].sum, scan'[c].events)
  <2>1. CASE k \in DOMAIN rows /\ rows'[k] = rows[k]
    <3>1. PICK d \in Devices : Counts(happened, rows[k].sum, d, k)
      BY <2>1 DEF Sound
    <3>2. CASE Scan(c)
      <4>1. Within(rows[k].sum, scan'[c].events)
        BY <1>2, <3>1, <3>2, ScanHolds
      <4> QED BY <2>1, <4>1
    <3>3. CASE ~Scan(c)
      <4>1. scan'[c] = scan[c]
        BY <1>2, <1>c, <3>3
      <4>2. Within(rows[k].sum, scan[c].events)
        BY <1>2, <2>1, <4>1 DEF Contained
      <4> QED BY <2>1, <4>1, <4>2
    <3> QED BY <3>2, <3>3
  <2>2. ASSUME NEW b \in Batches, k \in DOMAIN b.rows, rows'[k].sum = b.rows[k], rows'[k].by = b.key
        PROVE  Within(rows'[k].sum, scan'[c].events)
    <3>1. k[1] = b.dev /\ Counts(happened, b.rows[k], b.dev, k) /\ b.dev \in Devices
      BY <1>0, <1>2, <1>a, <2>2
    <3>2. CASE Scan(c)
      <4>1. Within(b.rows[k], scan'[c].events)
        BY <1>2, <3>1, <3>2, ScanHolds
      <4> QED BY <2>2, <4>1
    <3>3. CASE ~Scan(c)
      <4>1. scan'[c] = scan[c]
        BY <1>2, <1>c, <3>3
      <4>2. Within(b.rows[k], scan[c].events)
        BY <1>2, <2>2, <3>1, <4>1 DEF Contained
      <4> QED BY <2>2, <4>1, <4>2
    <3> QED BY <3>2, <3>3
  <2> QED BY <2>1, <2>2, RowStep
<1>3. ASSUME NEW a \in Batches', NEW b \in Batches', a.dev = b.dev, a.key < b.since,
             NEW k \in DOMAIN a.rows \cap DOMAIN b.rows, k[1] = a.dev
      PROVE  LE(a.rows[k], b.rows[k])
  <2>1. CASE a \in Batches /\ b \in Batches
    BY <1>3, <2>1 DEF Contained
  <2>2. CASE a \in Batches /\ b \notin Batches
    <3>1. PICK c \in Clients : Send(c)
      BY <1>3, <1>d, <2>2
    <3>2. b = Build(c) /\ scan[c] # Absent /\ b.dev = HostOf[c] /\ b.since = scan[c].since
      BY <1>3, <1>b, <2>2, <3>1
    <3>3. Within(a.rows[k], scan[c].events)
      BY <1>3, <2>2, <3>2 DEF Contained
    <3>4. a.rows[k] \in Sums /\ a.dev \in Devices /\ Counts(happened, a.rows[k], a.dev, k)
      BY <1>3, <1>a, <2>2
    <3> QED BY <1>3, <3>2, <3>3, <3>4, BuildHolds
  <2>3. CASE a \notin Batches
    <3>1. PICK c \in Clients : Send(c)
      BY <1>3, <1>d, <2>3
    <3>2. a = Build(c) /\ a.key = built /\ scan[c] # Absent
      BY <1>3, <1>b, <2>3, <3>1
    <3>3. b.since <= built /\ b.since \in Nat
      <4>1. CASE b \in Batches
        BY <4>1, BatchTypes DEF Numbered
      <4>2. CASE b \notin Batches
        <5>1. b.since = scan[c].since
          BY <1>3, <1>b, <3>1, <4>2
        <5> QED BY <3>2, <5>1 DEF Numbered, SyncTypeOK
      <4> QED BY <4>1, <4>2
    <3> QED BY <1>0, <1>3, <3>2, <3>3
  <2> QED BY <2>1, <2>2, <2>3
<1>4. ASSUME NEW b \in Batches', NEW k \in DOMAIN b.rows \cap DOMAIN rows', k[1] = b.dev, rows'[k].by < b.since
      PROVE  LE(rows'[k].sum, b.rows[k])
  <2>1. CASE b \in Batches
    <3>1. CASE k \in DOMAIN rows /\ rows'[k] = rows[k]
      <4>1. LE(rows[k].sum, b.rows[k])
        BY <1>4, <2>1, <3>1 DEF Contained
      <4> QED BY <3>1, <4>1
    <3>2. ASSUME NEW a \in Batches, k \in DOMAIN a.rows, rows'[k].sum = a.rows[k], rows'[k].by = a.key
          PROVE  LE(rows'[k].sum, b.rows[k])
      <4>1. k[1] = a.dev
        BY <1>4, <1>a, <2>1, <3>2
      <4>2. LE(a.rows[k], b.rows[k])
        BY <1>4, <2>1, <3>2, <4>1 DEF Contained
      <4> QED BY <3>2, <4>2
    <3> QED BY <3>1, <3>2, RowStep
  <2>2. CASE b \notin Batches
    <3>1. PICK c \in Clients : Send(c)
      BY <1>4, <1>d, <2>2
    <3>2. b = Build(c) /\ scan[c] # Absent /\ b.dev = HostOf[c] /\ b.since = scan[c].since /\ rows' = rows
      BY <1>4, <1>b, <2>2, <3>1
    <3>3. Within(rows[k].sum, scan[c].events)
      BY <1>4, <3>2 DEF Contained
    <3>4. PICK d \in Devices : Counts(happened, rows[k].sum, d, k)
      BY <1>4, <3>2 DEF Sound
    <3>5. rows[k].sum \in Sums
      BY <1>4, <3>2, StoredTypes
    <3>6. LE(rows[k].sum, Build(c).rows[k])
      BY <1>4, <3>2, <3>3, <3>4, <3>5, BuildHolds
    <3> QED BY <3>2, <3>6
  <2> QED BY <2>1, <2>2
<1> QED BY <1>1, <1>2, <1>3, <1>4 DEF Contained

(* A row of a device falls only by the two races of the property. *)
LEMMA OwnRowsStay ==
  ASSUME SyncTypeOK, Recording, Sound, Numbered, Contained, [SyncNext]_syncVars, deleted' = deleted,
         NEW k \in DOMAIN rows, k[1] \in Devices
  PROVE  \/ k \in DOMAIN rows' /\ \A e \in Events : rows[k].sum[e] <= rows'[k].sum[e]
         \/ \E s \in serving \ serving' :
              /\ s.at = "write" /\ k \in DOMAIN s.seen
              /\ \/ s.seen[k] # rows[k]
                 \/ s.batch.since <= rows[k].by /\ rows[k].by < s.batch.key
<1>0. rows[k].sum \in Sums /\ rows[k].rev \in Nat /\ rows[k].by \in Nat /\ rows[k] # Absent
  BY StoredTypes
<1>1. CASE rows' = rows
  BY <1>0, <1>1 DEF Sums
<1>2. ASSUME NEW s \in serving, WriteRows(s), rows' # rows, s.seen[k] = rows[k], k \in Updates(s),
             ~(s.batch.since <= rows[k].by /\ rows[k].by < s.batch.key)
      PROVE  LE(rows[k].sum, s.batch.rows[k])
  <2>1. /\ s.batch \in Batches /\ DOMAIN s.seen = DOMAIN s.batch.rows /\ k \in DOMAIN s.batch.rows
        /\ s.batch.key \in Nat /\ s.batch.rev \in Nat /\ s.batch.since \in Nat
    BY <1>2, RequestTypes DEF WriteRows, Updates, IsBatch
  <2>2. k[1] = s.batch.dev
    BY <2>1, ConstantsAssumption DEF Sound
  <2>3. rows[k].rev <= s.batch.rev /\ rows[k].rev # s.batch.rev
    BY <1>0, <1>2 DEF Recording, WriteRows, Updates, Inserts
  <2>4. ~(s.batch.key <= rows[k].by)
    <3>1. s.batch.key <= rows[k].by => s.batch.rev <= rows[k].rev
      BY <2>1, <2>2 DEF Numbered
    <3> QED BY <1>0, <2>1, <2>3, <3>1
  <2>5. rows[k].by < s.batch.since
    BY <1>0, <1>2, <2>1, <2>4
  <2> QED BY <2>1, <2>2, <2>5 DEF Contained
<1>3. ASSUME NEW s \in serving, WriteRows(s), rows' # rows
      PROVE  \/ k \in DOMAIN rows' /\ \A e \in Events : rows[k].sum[e] <= rows'[k].sum[e]
             \/ \E r \in serving \ serving' :
                  /\ r.at = "write" /\ k \in DOMAIN r.seen
                  /\ \/ r.seen[k] # rows[k]
                     \/ r.batch.since <= rows[k].by /\ rows[k].by < r.batch.key
  <2>1. /\ Inserts(s) \cap DOMAIN rows = {}
        /\ rows' = [l \in DOMAIN rows \cup Inserts(s) |->
                      IF l \in Inserts(s) \cup Updates(s) THEN Written(s.batch, l) ELSE rows[l]]
        /\ Goto(s, "record", <<>>)
    BY <1>3, Wrote
  <2>2. s.at = "write" /\ s \notin serving'
    BY <1>3, <2>1 DEF WriteRows, Goto
  <2>3. CASE k \notin Updates(s)
    <3>1. k \in DOMAIN rows' /\ rows'[k] = rows[k]
      BY <2>1, <2>3
    <3> QED BY <1>0, <3>1 DEF Sums
  <2>4. CASE k \in Updates(s) /\ ~(\/ s.seen[k] # rows[k]
                                   \/ s.batch.since <= rows[k].by /\ rows[k].by < s.batch.key)
    <3>1. k \in DOMAIN rows' /\ rows'[k].sum = s.batch.rows[k]
      BY <2>1, <2>4 DEF Written
    <3>2. LE(rows[k].sum, s.batch.rows[k])
      BY <1>2, <1>3, <2>4
    <3> QED BY <3>1, <3>2 DEF LE
  <2>5. CASE k \in Updates(s) /\ (\/ s.seen[k] # rows[k]
                                  \/ s.batch.since <= rows[k].by /\ rows[k].by < s.batch.key)
    <3>1. s \in serving \ serving' /\ k \in DOMAIN s.seen
      BY <2>2, <2>5 DEF Updates
    <3> QED BY <2>2, <2>5, <3>1
  <2> QED BY <2>3, <2>4, <2>5
<1>4. \/ rows' = rows
      \/ \E s \in serving : WriteRows(s) /\ rows' # rows
  <2>1. ~DeleteUsage
    BY DEF DeleteUsage, SyncTypeOK
  <2> QED
    BY <2>1 DEF SyncNext, syncVars, Use, Tick, Scan, Send, Receive, ReadRows, Record, Cut, RevokeDevice
<1> QED BY <1>1, <1>3, <1>4

(* What the server has of a device's own model-day shrinks, unless the owner  *)
(* deletes the usage, only by a request that read the row before its last     *)
(* change, or by a newer batch of an older scan: for any number of processes  *)
(* that sync, any order, overlap, loss, repetition and interruption of their  *)
(* requests, and any skew of clocks that do not go back.                      *)
THEOREM OwnUsageStays == SyncSpec => OwnUsageNeverFalls
<1>1. SyncInit => Numbered /\ Contained
  BY DEF SyncInit, Numbered, Contained, Batches
<1>2. SyncTypeOK /\ Sound /\ Numbered /\ [SyncNext]_syncVars => Numbered'
  BY NumberedStep
<1>3. SyncTypeOK /\ Sound /\ Numbered /\ Contained /\ [SyncNext]_syncVars => Contained'
  BY ContainedStep
<1>4. SyncTypeOK /\ Recording /\ Sound /\ Numbered /\ Contained /\ [SyncNext]_syncVars
        => [deleted' = deleted =>
              \A k \in DOMAIN rows :
                k[1] \in Devices =>
                  \/ /\ k \in DOMAIN rows'
                     /\ \A e \in Events : rows[k].sum[e] <= rows'[k].sum[e]
                  \/ \E s \in serving \ serving' :
                       /\ s.at = "write" /\ k \in DOMAIN s.seen
                       /\ \/ s.seen[k] # rows[k]
                          \/ s.batch.since <= rows[k].by /\ rows[k].by < s.batch.key]_syncVars
  BY OwnRowsStay
<1> QED
  BY <1>1, <1>2, <1>3, <1>4, SyncTypeCorrect, RecordingInvariant, SoundInvariant, PTL
  DEF SyncSpec, OwnUsageNeverFalls

==============================================================================
