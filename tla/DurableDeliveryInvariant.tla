----------------------- MODULE DurableDeliveryInvariant ----------------------
(***************************************************************************)
(* The inductive invariant of DurableDelivery, and what its actions make   *)
(* of the rows, the requests, the workers' records and the versions, for   *)
(* any number of backends, commands, epochs and faults.  The last part is  *)
(* Stable, which holds while one backend keeps the lease, the planner runs *)
(* and only messages are lost.                                             *)
(***************************************************************************)
EXTENDS DurableDelivery, TLAPS

(* The watermarks of the trips row are ordered, and a held lease has an     *)
(* epoch.                                                                   *)
Ordered ==
  /\ trip.revision <= trip.finalized
  /\ trip.finalized < trip.next
  /\ lease.live => lease.epoch # 0

(* The planner's counters stay within the ranges an answer can carry.       *)
VersionsFit ==
  /\ versions.epoch <= MaxEpoch
  /\ versions.revision <= MaxSeq + 1
  /\ versions.accepted <= MaxSeq
  /\ versions.finalized <= MaxSeq

(* Exactly the rows below the next sequence are recorded; an edit is        *)
(* applied when it is recorded, and only what is decided is resolved.       *)
RowsFit ==
  \A s \in Seqs :
    /\ s < trip.next <=> rows[s].order # "none"
    /\ rows[s].order = "none" => rows[s] = NoRow
    /\ rows[s].order = "canonical_first" => rows[s].intent = "applied"
    /\ rows[s].order = "runtime_first" => rows[s].sync = "not_required"
    /\ rows[s].delivery \in {"accepted", "terminal_rejected"} => rows[s].intent # "pending"

(* The commands are decided one after the other, and the open one expects   *)
(* the revision the trip has.                                               *)
DecidedPrefix ==
  /\ Recorded = 2 .. trip.next - 1
  /\ \A s \in Recorded :
       IF s <= trip.finalized THEN rows[s].intent # "pending"
       ELSE /\ s = trip.finalized + 1
            /\ rows[s].intent = "pending"
            /\ rows[s].expected = trip.revision

(* A dispatcher works on a recorded row under an epoch, and confirms only   *)
(* what is finalized.                                                       *)
DispatcherFits(me, next, finalized) ==
  /\ me.at \notin {"idle", "recovered"} => me.seq \in 2 .. next - 1
  /\ me.at \notin {"idle", "recovered", "claimed"} => me.epoch # 0
  /\ me.at \in {"finalized", "confirming", "confirmed"} => me.seq <= finalized

DispatchersFit ==
  \A b \in Backends : DispatcherFits(dispatcher[b], trip.next, trip.finalized)

(* What a request on its way may carry, and who waits for it.               *)
RequestFits(b, r) ==
  /\ r.kind = "apply" => r.seq \in 2 .. trip.next - 1
  /\ r.kind # "apply" => r.seq <= trip.finalized
  /\ r.awaited => CASE r.kind = "apply" -> dispatcher[b].at = "applying"
                    [] r.kind = "confirm" -> dispatcher[b].at = "confirming"
                    [] r.kind = "bootstrap" -> supervisor[b].at = "bootstrapping"

(* Each worker of a backend waits for one request at most.                  *)
AwaitedOnce(b) ==
  \A i, j \in DOMAIN wire[b] :
    /\ wire[b][i].awaited /\ wire[b][j].awaited
    /\ (wire[b][i].kind = "bootstrap") = (wire[b][j].kind = "bootstrap")
    => i = j

WireFits ==
  \A b \in Backends :
    /\ \A i \in DOMAIN wire[b] : RequestFits(b, wire[b][i])
    /\ AwaitedOnce(b)

Inv ==
  /\ TypeOK
  /\ Ordered
  /\ VersionsFit
  /\ RowsFit
  /\ DecidedPrefix
  /\ DispatchersFit
  /\ WireFits
  /\ PlannerIsAtMostOneAhead

-----------------------------------------------------------------------------
(* Sequences of requests: what Send, Deliver and Abandoned make of them.    *)
LEMMA AppendShape ==
  ASSUME NEW S, NEW q \in Seq(S), NEW r \in S
  PROVE  /\ Append(q, r) \in Seq(S)
         /\ DOMAIN Append(q, r) = 1 .. Len(q) + 1
         /\ \A i \in DOMAIN q : Append(q, r)[i] = q[i]
         /\ Append(q, r)[Len(q) + 1] = r
         /\ DOMAIN q = 1 .. Len(q) /\ Len(q) \in Nat
  OBVIOUS

(* The head and the tail of a stream that is not empty.                     *)
LEMMA TailShape ==
  ASSUME NEW S, NEW q \in Seq(S), q # <<>>
  PROVE  /\ Head(q) \in S /\ Head(q) = q[1] /\ 1 \in DOMAIN q
         /\ Tail(q) \in Seq(S)
         /\ \A i \in DOMAIN Tail(q) : i + 1 \in DOMAIN q /\ i + 1 # 1 /\ Tail(q)[i] = q[i + 1]
         /\ DOMAIN q \subseteq Int /\ DOMAIN Tail(q) \subseteq Int
  OBVIOUS

(* A request that was abandoned differs in that nobody waits for it.        *)
LEMMA AbandonedShape ==
  ASSUME wire \in [Backends -> Seq(Request)], NEW b \in Backends, NEW kinds
  PROVE  /\ Abandoned(b, kinds) \in [Backends -> Seq(Request)]
         /\ \A c \in Backends :
              /\ DOMAIN Abandoned(b, kinds)[c] = DOMAIN wire[c]
              /\ \A i \in DOMAIN wire[c] :
                   LET q == wire[c][i]  r == Abandoned(b, kinds)[c][i]
                   IN  /\ r.kind = q.kind /\ r.epoch = q.epoch /\ r.seq = q.seq
                       /\ r.revision = q.revision
                       /\ r.awaited => q.awaited
                       /\ c = b /\ q.kind \in kinds => ~r.awaited
<1> DEFINE Left(q) == IF q.kind \in kinds THEN [q EXCEPT !.awaited = FALSE] ELSE q
           row == [i \in DOMAIN wire[b] |-> Left(wire[b][i])]
<1>1. Abandoned(b, kinds) = [wire EXCEPT ![b] = row]
  BY Zenon DEF Abandoned
<1>2. wire[b] \in Seq(Request) /\ DOMAIN wire[b] = 1 .. Len(wire[b]) /\ Len(wire[b]) \in Nat
  OBVIOUS
<1>3. \A q \in Request : Left(q) \in Request
  BY Zenon DEF Request
<1>4. \A i \in DOMAIN wire[b] : wire[b][i] \in Request
  BY <1>2
<1>5. row \in [1 .. Len(wire[b]) -> Request]
  BY Zenon, <1>2, <1>3, <1>4
<1>6. row \in Seq(Request)
  <2> HIDE DEF row
  <2> QED BY <1>2, <1>5
<1>7. DOMAIN row = DOMAIN wire[b]
  BY Zenon
<1>8. \A i \in DOMAIN wire[b] : row[i] = Left(wire[b][i])
  BY Zenon
<1>9. \A q \in Request :
        /\ Left(q).kind = q.kind /\ Left(q).epoch = q.epoch /\ Left(q).seq = q.seq
        /\ Left(q).revision = q.revision
        /\ Left(q).awaited => q.awaited
        /\ q.kind \in kinds => ~Left(q).awaited
  BY Zenon DEF Request
<1> HIDE DEF row, Left
<1> QED BY <1>1, <1>4, <1>6, <1>7, <1>8, <1>9

(* What the type invariant says of the requests in the stream of b.         *)
LEMMA InWire ==
  ASSUME TypeOK, NEW b \in Backends
  PROVE  /\ wire[b] \in Seq(Request)
         /\ \A i \in DOMAIN wire[b] : wire[b][i] \in Request
         /\ trip.finalized \in Int /\ trip.next \in Int
  BY DEF TypeOK

-----------------------------------------------------------------------------
(* The rows.  Most steps that touch them change claims and deliveries only. *)
RowKept(s) ==
  /\ rows'[s].order = rows[s].order
  /\ rows'[s].expected = rows[s].expected
  /\ rows'[s].intent = rows[s].intent
  /\ rows[s].order = "none" => rows'[s] = rows[s]
  /\ rows[s].order # "canonical_first" =>
       /\ rows'[s].sync = rows[s].sync
       /\ rows'[s].delivery \in {"accepted", "terminal_rejected"} =>
            rows[s].delivery \in {"accepted", "terminal_rejected"}

RowsKept ==
  /\ trip' = trip
  /\ rows' \in [Seqs -> Row]
  /\ \A s \in Seqs : RowKept(s)

(* The recorded rows are those with an order.                               *)
LEMMA RecordedRows ==
  ASSUME Inv
  PROVE  /\ Recorded = {s \in Seqs : rows[s].order # "none"}
         /\ Recorded = 2 .. trip.next - 1
         /\ \A s \in Seqs : s \in Recorded <=> s < trip.next
<1>1. NoRow.order = "none"
  BY Zenon DEF NoRow
<1>2. \A s \in Seqs : rows[s] # NoRow <=> rows[s].order # "none"
  BY Zenon, <1>1 DEF Inv, RowsFit
<1> QED BY Zenon, <1>2 DEF Inv, Recorded, RowsFit, DecidedPrefix

(* A step that leaves the database alone keeps the rows.                    *)
LEMMA UnchangedRows ==
  ASSUME Inv, UNCHANGED database
  PROVE  RowsKept
  BY Zenon DEF Inv, TypeOK, RowsKept, RowKept, database

(* The claim of a recorded row is dropped or taken.                         *)
LEMMA ClaimChanges ==
  ASSUME Inv, NEW s \in Seqs, s \in Recorded, NEW c \in Backends \cup {NoOwner},
         trip' = trip, rows' = [rows EXCEPT ![s].claim = c]
  PROVE  RowsKept
<1>1. rows' \in [Seqs -> Row]
  <2>1. \A r \in Row : [r EXCEPT !.claim = c] \in Row
    BY Zenon DEF Row
  <2>2. rows \in [Seqs -> Row] /\ rows' = [rows EXCEPT ![s] = [rows[s] EXCEPT !.claim = c]]
    BY Zenon DEF Inv, TypeOK
  <2> QED BY Zenon, <2>1, <2>2
<1>2. rows[s].order # "none"
  BY Zenon, RecordedRows
<1>3. \A t \in Seqs : RowKept(t)
  BY <1>2 DEF Inv, TypeOK, RowKept, Row
<1> QED BY Zenon, <1>1, <1>3 DEF RowsKept

(* ReleaseForRetry drops the claim of the row the dispatcher works on.      *)
LEMMA Released ==
  ASSUME Inv, NEW b \in Backends, dispatcher[b].at \notin {"idle", "recovered"},
         trip' = trip, ReleaseForRetry(b)
  PROVE  RowsKept
<1>1. dispatcher[b].seq \in Seqs /\ dispatcher[b].seq \in Recorded
  BY RecordedRows DEF Inv, DispatchersFit, DispatcherFits, Seqs, TypeOK, Dispatcher
<1>2. CASE HoldsClaim(b)
  <2>1. rows' = [rows EXCEPT ![dispatcher[b].seq].claim = NoOwner]
    BY Zenon, <1>2 DEF ReleaseForRetry
  <2> QED BY Zenon, <1>1, <2>1, ClaimChanges
<1>3. CASE ~HoldsClaim(b)
  BY Zenon, <1>3, UnchangedRows DEF ReleaseForRetry, database
<1> QED BY Zenon, <1>2, <1>3

(* PauseInternal pauses the row the dispatcher works on.                    *)
LEMMA Paused ==
  ASSUME Inv, NEW b \in Backends, dispatcher[b].at \notin {"idle", "recovered"},
         trip' = trip, PauseInternal(b)
  PROVE  RowsKept
<1>1. dispatcher[b].seq \in Seqs /\ dispatcher[b].seq \in Recorded
  BY Zenon, RecordedRows DEF Inv, DispatchersFit, DispatcherFits, Seqs, TypeOK, Dispatcher
<1>2. CASE HoldsClaim(b)
  <2> DEFINE s == dispatcher[b].seq
  <2>1. rows' = [rows EXCEPT ![s].claim = NoOwner, ![s].delivery = "paused_internal"]
    BY Zenon, <1>2 DEF PauseInternal
  <2>2. rows[s].order # "none"
    BY Zenon, <1>1, RecordedRows
  <2> HIDE DEF s
  <2>3. rows' \in [Seqs -> Row]
    <3>1. \A r \in Row : [r EXCEPT !.claim = NoOwner, !.delivery = "paused_internal"] \in Row
      BY Zenon DEF Row
    <3>2. /\ rows \in [Seqs -> Row]
          /\ rows' = [rows EXCEPT ![s] =
                         [rows[s] EXCEPT !.claim = NoOwner, !.delivery = "paused_internal"]]
      BY Zenon, <2>1 DEF Inv, TypeOK
    <3> QED BY Zenon, <1>1, <3>1, <3>2
  <2>4. \A t \in Seqs : RowKept(t)
    BY <2>1, <2>2 DEF Inv, TypeOK, RowKept, Row
  <2> QED BY Zenon, <2>3, <2>4 DEF RowsKept
<1>3. CASE ~HoldsClaim(b)
  BY Zenon, <1>3, UnchangedRows DEF PauseInternal, database
<1> QED BY Zenon, <1>2, <1>3

-----------------------------------------------------------------------------
(* Types of the records the actions put together.                           *)
LEMMA Records ==
  /\ NoAck \in Ack /\ Idle \in Dispatcher /\ Unheld \in Supervisor
  /\ NoOwner \in Backends \cup {NoOwner}
  /\ Idle.at = "idle" /\ Unheld.at = "inactive"
<1>1. NoAck \in Ack
  BY DurableDeliveryAssumption DEF NoAck, Ack, Statuses
<1>2. Idle \in Dispatcher /\ Idle.at = "idle"
  BY <1>1, DurableDeliveryAssumption DEF Idle, Dispatcher
<1>3. Unheld \in Supervisor /\ Unheld.at = "inactive"
  BY <1>1, DurableDeliveryAssumption DEF Unheld, Supervisor
<1> QED BY Zenon, <1>1, <1>2, <1>3

(* The request that Send puts in the stream is a request.                   *)
LEMMA Requests ==
  ASSUME NEW kind \in {"apply", "confirm", "bootstrap"}, NEW epoch \in 1 .. MaxEpoch,
         NEW seq \in 1 .. MaxSeq, NEW revision \in 0 .. MaxSeq
  PROVE  \E r \in Request :
           /\ r = [kind |-> kind, epoch |-> epoch, seq |-> seq, revision |-> revision,
                   awaited |-> TRUE]
           /\ r.kind = kind /\ r.epoch = epoch /\ r.seq = seq /\ r.revision = revision
<1> DEFINE r == [kind |-> kind, epoch |-> epoch, seq |-> seq, revision |-> revision,
                 awaited |-> TRUE]
<1>1. r \in Request
  BY Zenon DEF Request
<1>2. r.kind = kind /\ r.epoch = epoch /\ r.seq = seq /\ r.revision = revision
  BY Zenon
<1> QED BY Zenon, <1>1, <1>2

(* A dispatcher that waits for an answer.                                   *)
Applying(e, epoch) == [e EXCEPT !.at = "applying", !.epoch = epoch]

Recovering(e, epoch, seq) ==
  [e EXCEPT !.at = "confirming", !.seq = seq, !.epoch = epoch, !.recovery = TRUE]

Confirming(e) == [e EXCEPT !.at = "confirming"]

(* The dispatcher after Dispatch.                                           *)
LEMMA ApplyingShape ==
  ASSUME NEW e \in Dispatcher, NEW epoch \in 0 .. MaxEpoch
  PROVE  /\ Applying(e, epoch) \in Dispatcher
         /\ Applying(e, epoch).at = "applying" /\ Applying(e, epoch).seq = e.seq
         /\ Applying(e, epoch).epoch = epoch /\ Applying(e, epoch).ack = e.ack
<1>1. Applying(e, epoch) \in Dispatcher
  BY Zenon DEF Applying, Dispatcher
<1>2. /\ Applying(e, epoch).at = "applying" /\ Applying(e, epoch).seq = e.seq
      /\ Applying(e, epoch).epoch = epoch /\ Applying(e, epoch).ack = e.ack
  BY Zenon DEF Applying, Dispatcher
<1> QED BY Zenon, <1>1, <1>2

(* The dispatcher that takes up a confirmation found by                     *)
(* RecoverConfirmations.                                                    *)
LEMMA RecoveringShape ==
  ASSUME NEW e \in Dispatcher, NEW epoch \in 0 .. MaxEpoch, NEW seq \in 0 .. MaxSeq
  PROVE  /\ Recovering(e, epoch, seq) \in Dispatcher
         /\ Recovering(e, epoch, seq).at = "confirming" /\ Recovering(e, epoch, seq).seq = seq
         /\ Recovering(e, epoch, seq).epoch = epoch /\ Recovering(e, epoch, seq).ack = e.ack
<1>1. Recovering(e, epoch, seq) \in Dispatcher
  BY Zenon DEF Recovering, Dispatcher
<1>2. /\ Recovering(e, epoch, seq).at = "confirming" /\ Recovering(e, epoch, seq).seq = seq
      /\ Recovering(e, epoch, seq).epoch = epoch /\ Recovering(e, epoch, seq).ack = e.ack
  BY Zenon DEF Recovering, Dispatcher
<1> QED BY Zenon, <1>1, <1>2

(* The dispatcher after SendConfirm.                                        *)
LEMMA ConfirmingShape ==
  ASSUME NEW e \in Dispatcher
  PROVE  /\ Confirming(e) \in Dispatcher
         /\ Confirming(e).at = "confirming" /\ Confirming(e).seq = e.seq
         /\ Confirming(e).epoch = e.epoch /\ Confirming(e).ack = e.ack
<1>1. Confirming(e) \in Dispatcher
  BY Zenon DEF Confirming, Dispatcher
<1>2. /\ Confirming(e).at = "confirming" /\ Confirming(e).seq = e.seq
      /\ Confirming(e).epoch = e.epoch /\ Confirming(e).ack = e.ack
  BY Zenon DEF Confirming, Dispatcher
<1> QED BY Zenon, <1>1, <1>2

(* A sequence of a command fits the field of a request.                     *)
LEMMA SeqsFit == \A s \in Seqs : s \in Int /\ s \in 0 .. MaxSeq /\ s \in 1 .. MaxSeq /\ s >= 2
  BY DurableDeliveryAssumption DEF Seqs

(* Confirming changes a flag that no other transaction looks at.            *)
LEMMA ConfirmedRows ==
  ASSUME Inv, NEW S, trip' = trip,
         rows' = [s \in Seqs |-> IF s \in Recorded /\ s \in S
                                 THEN [rows[s] EXCEPT !.confirmed = TRUE] ELSE rows[s]]
  PROVE  RowsKept
<1>1. \A r \in Row : [r EXCEPT !.confirmed = TRUE] \in Row
  BY Zenon DEF Row
<1>2. rows \in [Seqs -> Row]
  BY Zenon DEF Inv, TypeOK
<1>3. rows' \in [Seqs -> Row]
  BY Zenon, <1>1, <1>2
<1>4. ASSUME NEW s \in Seqs PROVE RowKept(s)
  <2>1. rows'[s] = IF s \in Recorded /\ s \in S
                   THEN [rows[s] EXCEPT !.confirmed = TRUE] ELSE rows[s]
    BY Zenon
  <2>2. CASE s \in Recorded /\ s \in S
    BY <1>2, <2>1, <2>2, RecordedRows DEF RowKept, Row
  <2>3. CASE ~(s \in Recorded /\ s \in S)
    BY Zenon, <2>1, <2>3 DEF RowKept
  <2> QED BY Zenon, <2>2, <2>3
<1> QED BY Zenon, <1>3, <1>4 DEF RowsKept

(* ConfirmFinalizedMutations decides no command.                            *)
LEMMA ConfirmFinalizedMutationsChanges ==
  ASSUME Inv, NEW b \in Backends, ConfirmFinalizedMutations(b)
  PROVE  RowsKept
<1>1. trip' = trip
  BY Zenon DEF ConfirmFinalizedMutations
<1>2. CASE UNCHANGED rows
  BY Zenon, <1>1, <1>2, UnchangedRows DEF database
<1>3. CASE rows' = [s \in Seqs |->
                      IF s \in Recorded /\ s <= dispatcher[b].seq
                      THEN [rows[s] EXCEPT !.confirmed = TRUE] ELSE rows[s]]
  <2> DEFINE S == {s \in Seqs : s <= dispatcher[b].seq}
  <2>1. rows' = [s \in Seqs |-> IF s \in Recorded /\ s \in S
                                THEN [rows[s] EXCEPT !.confirmed = TRUE] ELSE rows[s]]
    BY Zenon, <1>3
  <2> HIDE DEF S
  <2> QED BY Zenon, <1>1, <2>1, ConfirmedRows
<1> QED BY Zenon, <1>2, <1>3 DEF ConfirmFinalizedMutations

(* A decision for an edit: it is synced, or paused for an operator.         *)
LEMMA MirrorDecided ==
  ASSUME Inv, NEW s \in Seqs, rows[s].order = "canonical_first", trip' = trip,
         NEW sync \in {"synced", "paused_internal"},
         NEW delivery \in {"accepted", "paused_internal"},
         rows' = [rows EXCEPT ![s].sync = sync, ![s].delivery = delivery, ![s].claim = NoOwner]
  PROVE  RowsKept
<1> DEFINE Decided(r) == [r EXCEPT !.sync = sync, !.delivery = delivery, !.claim = NoOwner]
<1>1. rows \in [Seqs -> Row] /\ rows[s] \in Row
  BY Zenon DEF Inv, TypeOK
<1>2. rows' = [rows EXCEPT ![s] = Decided(rows[s])]
  BY Zenon, <1>1
<1>3. \A r \in Row : Decided(r) \in Row
  BY Zenon DEF Row
<1>4. \A r \in Row : /\ Decided(r).order = r.order /\ Decided(r).expected = r.expected
                     /\ Decided(r).intent = r.intent
  BY Zenon DEF Row
<1> HIDE DEF Decided
<1>5. rows' \in [Seqs -> Row]
  <2>1. Decided(rows[s]) \in Row
    BY Zenon, <1>1, <1>3
  <2> QED BY Zenon, <1>1, <1>2, <2>1
<1>6. \A t \in Seqs : RowKept(t)
  BY <1>1, <1>2, <1>4 DEF RowKept
<1> QED BY Zenon, <1>5, <1>6 DEF RowsKept

(* FinalizeCanonicalMirror decides no command: an edit was decided when it  *)
(* was recorded.                                                            *)
LEMMA FinalizeCanonicalMirrorChanges ==
  ASSUME Inv, NEW b \in Backends, FinalizeCanonicalMirror(b)
  PROVE  RowsKept
<1> DEFINE s == dispatcher[b].seq
           matches == dispatcher[b].ack.revision = rows[s].expected + 1
<1>1. trip' = trip /\ rows[s].order = "canonical_first" /\ dispatcher[b].at = "applied"
  BY Zenon DEF FinalizeCanonicalMirror
<1>2. s \in Seqs
  BY Zenon, <1>1, RecordedRows DEF Inv, DispatchersFit, DispatcherFits, Recorded
<1>3. CASE UNCHANGED rows
  BY Zenon, <1>1, <1>3, UnchangedRows DEF database
<1>4. CASE rows' = [rows EXCEPT ![s].sync = IF matches THEN "synced" ELSE "paused_internal",
                      ![s].delivery = IF matches THEN "accepted" ELSE "paused_internal",
                      ![s].claim = NoOwner]
  <2>1. /\ (IF matches THEN "synced" ELSE "paused_internal") \in {"synced", "paused_internal"}
        /\ (IF matches THEN "accepted" ELSE "paused_internal")
             \in {"accepted", "paused_internal"}
    BY Zenon
  <2> HIDE DEF matches, s
  <2> QED BY Zenon, <1>1, <1>2, <1>4, <2>1, MirrorDecided
<1> QED BY Zenon, <1>3, <1>4 DEF FinalizeCanonicalMirror

(* A bootstrap resolves the edits it covers.                                *)
BootstrapRows ==
  [s \in Seqs |->
     IF s \notin Recorded \/ s > trip.finalized THEN rows[s]
     ELSE IF rows[s].order = "canonical_first" /\ Unresolved(s)
     THEN [rows[s] EXCEPT !.sync = "synced", !.delivery = "accepted",
                          !.confirmed = TRUE, !.claim = NoOwner]
     ELSE [rows[s] EXCEPT !.confirmed = TRUE]]

(* A bootstrap resolves the mirrors it covers, and decides no command.      *)
LEMMA BootstrapResolves ==
  ASSUME Inv, trip' = trip, rows' = BootstrapRows
  PROVE  RowsKept
<1> DEFINE Synced(r) == [r EXCEPT !.sync = "synced", !.delivery = "accepted",
                                  !.confirmed = TRUE, !.claim = NoOwner]
           Confirmed(r) == [r EXCEPT !.confirmed = TRUE]
<1>1. \A r \in Row : Synced(r) \in Row /\ Confirmed(r) \in Row
  BY Zenon DEF Row
<1>2. \A r \in Row : /\ Synced(r).order = r.order /\ Synced(r).expected = r.expected
                     /\ Synced(r).intent = r.intent
  BY DEF Row
<1>3. \A r \in Row : /\ Confirmed(r).order = r.order /\ Confirmed(r).expected = r.expected
                     /\ Confirmed(r).intent = r.intent /\ Confirmed(r).sync = r.sync
                     /\ Confirmed(r).delivery = r.delivery
  BY DEF Row
<1>4. \A s \in Seqs : rows[s] \in Row
  BY Zenon DEF Inv, TypeOK
<1>5. \A s \in Seqs :
        \/ rows'[s] = rows[s]
        \/ s \in Recorded /\ rows[s].order = "canonical_first" /\ rows'[s] = Synced(rows[s])
        \/ s \in Recorded /\ rows'[s] = Confirmed(rows[s])
  BY Zenon DEF BootstrapRows
<1>6. rows' = [s \in Seqs |-> rows'[s]]
  BY Zenon DEF BootstrapRows
<1> HIDE DEF Synced, Confirmed
<1>7. \A s \in Seqs : rows'[s] \in Row
  BY Zenon, <1>1, <1>4, <1>5
<1>8. ASSUME NEW s \in Seqs PROVE RowKept(s)
  <2>1. CASE rows'[s] = rows[s]
    BY Zenon, <2>1 DEF RowKept
  <2>2. CASE s \in Recorded /\ rows[s].order = "canonical_first" /\ rows'[s] = Synced(rows[s])
    BY Zenon, <1>2, <1>4, <2>2 DEF RowKept
  <2>3. CASE s \in Recorded /\ rows'[s] = Confirmed(rows[s])
    BY <1>3, <1>4, <2>3, RecordedRows DEF RowKept
  <2> QED BY Zenon, <1>5, <2>1, <2>2, <2>3
<1>9. rows' \in [Seqs -> Row]
  BY Zenon, <1>6, <1>7
<1> QED BY Zenon, <1>8, <1>9 DEF RowsKept

(* The same of the transaction as a whole.                                  *)
LEMMA ResolveCanonicalBootstrapChanges ==
  ASSUME Inv, NEW b \in Backends, ResolveCanonicalBootstrap(b)
  PROVE  RowsKept
<1>1. trip' = trip
  BY Zenon DEF ResolveCanonicalBootstrap
<1>2. CASE UNCHANGED rows
  BY Zenon, <1>1, <1>2, UnchangedRows DEF database
<1>3. CASE ~UNCHANGED rows
  BY Zenon, <1>1, <1>3, BootstrapResolves DEF ResolveCanonicalBootstrap, BootstrapRows
<1> QED BY Zenon, <1>2, <1>3

-----------------------------------------------------------------------------
(* The planner executes a request.                                          *)
AckOf(status, v) ==
  [status |-> status, epoch |-> v.epoch, revision |-> v.revision,
   accepted |-> v.accepted, finalized |-> v.finalized]

Answered(e, ack, at) == [e EXCEPT !.ack = ack, !.at = at]

(* An answer carries the epoch and the watermark of the versions it was     *)
(* made from.                                                               *)
LEMMA AckShape ==
  ASSUME NEW v \in Versions, NEW status \in Statuses,
         v.epoch <= MaxEpoch, v.revision <= MaxSeq + 1, v.accepted <= MaxSeq,
         v.finalized <= MaxSeq
  PROVE  /\ AckOf(status, v) \in Ack
         /\ AckOf(status, v).epoch = v.epoch /\ AckOf(status, v).accepted = v.accepted
<1>1. v.epoch \in Nat /\ v.revision \in Nat /\ v.accepted \in Nat /\ v.finalized \in Nat
  BY MaxU64Assumption DEF Versions, Counter
<1>2. /\ v.epoch \in 0 .. MaxEpoch /\ v.revision \in 0 .. MaxSeq + 1
      /\ v.accepted \in 0 .. MaxSeq /\ v.finalized \in 0 .. MaxSeq
  BY <1>1, DurableDeliveryAssumption
<1> QED BY Zenon, <1>2 DEF AckOf, Ack

(* The dispatcher that has got its answer.                                  *)
LEMMA DispatcherAnswered ==
  ASSUME NEW e \in Dispatcher, NEW ack \in Ack, NEW at \in {"applied", "confirmed"}
  PROVE  /\ Answered(e, ack, at) \in Dispatcher
         /\ Answered(e, ack, at).at = at /\ Answered(e, ack, at).ack = ack
         /\ Answered(e, ack, at).seq = e.seq /\ Answered(e, ack, at).epoch = e.epoch
<1>1. Answered(e, ack, at) \in Dispatcher
  BY Zenon DEF Dispatcher, Answered
<1>2. /\ Answered(e, ack, at).at = at /\ Answered(e, ack, at).ack = ack
      /\ Answered(e, ack, at).seq = e.seq /\ Answered(e, ack, at).epoch = e.epoch
  BY Zenon DEF Dispatcher, Answered
<1> QED BY Zenon, <1>1, <1>2

(* The supervisor that has got its answer.                                  *)
LEMMA SupervisorAnswered ==
  ASSUME NEW e \in Supervisor, NEW ack \in Ack
  PROVE  /\ Answered(e, ack, "bootstrapped") \in Supervisor
         /\ Answered(e, ack, "bootstrapped").at = "bootstrapped"
         /\ Answered(e, ack, "bootstrapped").ack = ack
         /\ Answered(e, ack, "bootstrapped").epoch = e.epoch
         /\ Answered(e, ack, "bootstrapped").finalized = e.finalized
<1>1. Answered(e, ack, "bootstrapped") \in Supervisor
  BY Zenon DEF Supervisor, Answered
<1>2. /\ Answered(e, ack, "bootstrapped").at = "bootstrapped"
      /\ Answered(e, ack, "bootstrapped").ack = ack
      /\ Answered(e, ack, "bootstrapped").epoch = e.epoch
      /\ Answered(e, ack, "bootstrapped").finalized = e.finalized
  BY Zenon DEF Supervisor, Answered
<1> QED BY Zenon, <1>1, <1>2

(* The answer goes to the worker that waits for it, if any.                 *)
LEMMA AnswerGoes ==
  ASSUME Inv, NEW b \in Backends, NEW r \in Request, RequestFits(b, r),
         NEW status, NEW v, Answer(b, r, status, v), AckOf(status, v) \in Ack
  PROVE  /\ UNCHANGED <<trip, rows, lease>> /\ versions' = v
         /\ wire' = [wire EXCEPT ![b] = Tail(@)]
         /\ \/ /\ UNCHANGED <<dispatcher, supervisor>>
               /\ ~r.awaited
            \/ /\ UNCHANGED supervisor
               /\ r.awaited /\ r.kind # "bootstrap"
               /\ dispatcher[b].at \in {"applying", "confirming"}
               /\ \E at \in {"applied", "confirmed"} :
                    /\ dispatcher' = [dispatcher EXCEPT ![b] =
                                        Answered(dispatcher[b], AckOf(status, v), at)]
                    /\ at = "applied" <=> dispatcher[b].at = "applying"
            \/ /\ UNCHANGED dispatcher
               /\ r.awaited /\ r.kind = "bootstrap"
               /\ supervisor[b].at = "bootstrapping"
               /\ supervisor' = [supervisor EXCEPT ![b] =
                                   Answered(supervisor[b], AckOf(status, v), "bootstrapped")]
<1>1. /\ UNCHANGED <<trip, rows, lease>> /\ versions' = v
      /\ wire' = [wire EXCEPT ![b] = Tail(@)]
  BY Zenon DEF Answer, database
<1>2. dispatcher \in [Backends -> Dispatcher] /\ supervisor \in [Backends -> Supervisor]
  BY Zenon DEF Inv, TypeOK
<1>3. CASE ~r.awaited
  BY Zenon, <1>1, <1>3 DEF Answer
<1>4. CASE r.awaited /\ r.kind = "bootstrap"
  <2>1. supervisor[b].at = "bootstrapping" /\ UNCHANGED dispatcher
    BY Zenon, <1>4 DEF RequestFits, Answer
  <2>2. supervisor' = [supervisor EXCEPT ![b] =
                                   Answered(supervisor[b], AckOf(status, v), "bootstrapped")]
    BY Zenon, <1>2, <1>4 DEF Answer, Answered, AckOf
  <2> QED BY Zenon, <1>1, <1>4, <2>1, <2>2
<1>5. CASE r.awaited /\ r.kind = "apply"
  <2>1. dispatcher[b].at = "applying" /\ UNCHANGED supervisor
    BY Zenon, <1>5 DEF RequestFits, Answer
  <2>2. dispatcher' = [dispatcher EXCEPT ![b] =
                         Answered(dispatcher[b], AckOf(status, v), "applied")]
    BY Zenon, <1>2, <1>5 DEF Answer, Answered, AckOf
  <2> QED BY Zenon, <1>1, <1>5, <2>1, <2>2
<1>6. CASE r.awaited /\ r.kind = "confirm"
  <2>1. dispatcher[b].at = "confirming" /\ UNCHANGED supervisor
    BY Zenon, <1>6 DEF RequestFits, Answer
  <2>2. dispatcher' = [dispatcher EXCEPT ![b] =
                         Answered(dispatcher[b], AckOf(status, v), "confirmed")]
    BY Zenon, <1>2, <1>6 DEF Answer, Answered, AckOf
  <2> QED BY Zenon, <1>1, <1>6, <2>1, <2>2
<1> QED BY Zenon, <1>3, <1>4, <1>5, <1>6 DEF Request

(* What the planner's version record may become.                            *)
LEMMA ApplyPreviews ==
  ASSUME NEW v \in Versions, NEW r \in Request
  PROVE  LET status == preview_durable(v, r.epoch, r.seq, r.revision, Unspecified)
         IN  /\ status \in Statuses
             /\ status = "accepted" =>
                  /\ IsActive(v) /\ r.epoch = v.epoch
                  /\ r.seq = v.accepted + 1 /\ r.revision = v.revision
                  /\ v.psv # MaxU64 /\ v.generation # MaxU64 /\ v.revision # MaxU64
             /\ status = "duplicate" => r.epoch = v.epoch /\ IsActive(v) /\ r.seq <= v.accepted
<1>1. validate_epoch(v, r.epoch) \in {"inactive", "stale_epoch", "accepted"}
  BY Zenon DEF validate_epoch
<1>2. validate_epoch(v, r.epoch) = "accepted" => IsActive(v) /\ r.epoch = v.epoch
  BY Zenon DEF validate_epoch
<1>3. PsvMatches(v, Unspecified)
  BY Zenon DEF PsvMatches
<1>4. PICK valid \in {"inactive", "stale_epoch", "accepted"} : valid = validate_epoch(v, r.epoch)
  BY Zenon, <1>1
<1>5. LET order == durable_order(v, r.epoch, r.seq, r.revision, Unspecified)
      IN  \/ order = valid /\ order # "accepted"
          \/ order = "duplicate" /\ valid = "accepted" /\ r.seq <= v.accepted
          \/ order \in {"stale_mutation_sequence", "stale_trip_revision"}
          \/ /\ order = "accepted" /\ valid = "accepted"
             /\ r.seq = v.accepted + 1 /\ r.revision = v.revision
  BY Zenon, <1>3, <1>4 DEF durable_order
<1>6. LET order == durable_order(v, r.epoch, r.seq, r.revision, Unspecified)
      IN  /\ order \in Statuses
          /\ order = "accepted" => /\ IsActive(v) /\ r.epoch = v.epoch
                                   /\ r.seq = v.accepted + 1 /\ r.revision = v.revision
          /\ order = "duplicate" => r.epoch = v.epoch /\ IsActive(v) /\ r.seq <= v.accepted
  BY Zenon, <1>2, <1>4, <1>5 DEF Statuses
<1> QED BY Zenon, <1>6 DEF preview_durable, can_increment, Statuses

(* confirm_finalized_status accepts under the epoch of the planner and up   *)
(* to what it has consumed.                                                 *)
LEMMA ConfirmPreviews ==
  ASSUME NEW v \in Versions, NEW r \in Request
  PROVE  LET status == confirm_finalized_status(v, r.epoch, r.seq)
         IN  /\ status \in Statuses
             /\ status = "accepted" => r.epoch = v.epoch /\ r.seq <= v.accepted
<1>1. validate_epoch(v, r.epoch) \in {"inactive", "stale_epoch", "accepted"}
  BY Zenon DEF validate_epoch
<1>2. validate_epoch(v, r.epoch) = "accepted" => IsActive(v) /\ r.epoch = v.epoch
  BY Zenon DEF validate_epoch
<1>3. v.accepted \in Int /\ r.seq \in Int
  BY DEF Versions, Counter, Request
<1> QED BY <1>1, <1>2, <1>3 DEF confirm_finalized_status, Statuses

(* bootstrap_status accepts a newer epoch only, and calls a bootstrap of    *)
(* its own epoch a duplicate.                                               *)
LEMMA BootstrapPreviews ==
  ASSUME NEW v \in Versions, NEW r \in Request
  PROVE  LET status == bootstrap_status(v, r.epoch, r.revision, r.seq, 0)
         IN  /\ status \in Statuses
             /\ status = "accepted" => v.epoch < r.epoch
             /\ status = "duplicate" => v.epoch = r.epoch /\ IsActive(v)
<1>1. v.epoch \in Int /\ r.epoch \in Int /\ r.epoch > 0
  BY DEF Versions, Counter, Request
<1> QED BY <1>1 DEF bootstrap_status, IsActive, Statuses

(* The version records that executing a request leaves.                     *)
LEMMA AppliedVersions ==
  ASSUME NEW v \in Versions, NEW seq \in 1 .. MaxSeq, v.revision <= MaxSeq,
         v.psv # MaxU64, v.generation # MaxU64, v.revision # MaxU64
  PROVE  /\ accept_durable(v, seq) \in Versions
         /\ accept_durable(v, seq).epoch = v.epoch
         /\ accept_durable(v, seq).accepted = seq
         /\ accept_durable(v, seq).finalized = v.finalized
         /\ accept_durable(v, seq).revision = v.revision + 1
         /\ resolve_terminal_durable(v, seq) \in Versions
         /\ resolve_terminal_durable(v, seq).epoch = v.epoch
         /\ resolve_terminal_durable(v, seq).accepted = seq
         /\ resolve_terminal_durable(v, seq).finalized = v.finalized
         /\ resolve_terminal_durable(v, seq).revision = v.revision
<1>1. /\ v.psv \in Counter /\ v.generation \in Counter /\ v.revision \in Counter
      /\ seq \in Counter
  BY DurableDeliveryAssumption, MaxU64Assumption DEF Versions, Counter
<1>2. v.psv + 1 \in Counter /\ v.generation + 1 \in Counter /\ v.revision + 1 \in Counter
  BY <1>1, MaxU64Assumption DEF Counter
<1>3. accept_durable(v, seq) \in Versions /\ resolve_terminal_durable(v, seq) \in Versions
  BY Zenon, <1>1, <1>2 DEF Versions, accept_durable, resolve_terminal_durable
<1>4. /\ accept_durable(v, seq).epoch = v.epoch
      /\ accept_durable(v, seq).accepted = seq
      /\ accept_durable(v, seq).finalized = v.finalized
      /\ accept_durable(v, seq).revision = v.revision + 1
  BY Zenon DEF Versions, accept_durable
<1>5. /\ resolve_terminal_durable(v, seq).epoch = v.epoch
      /\ resolve_terminal_durable(v, seq).accepted = seq
      /\ resolve_terminal_durable(v, seq).finalized = v.finalized
      /\ resolve_terminal_durable(v, seq).revision = v.revision
  BY Zenon DEF Versions, resolve_terminal_durable
<1> QED BY Zenon, <1>3, <1>4, <1>5

(* confirm_finalized moves the finalized watermark and nothing else.        *)
LEMMA ConfirmedVersions ==
  ASSUME NEW v \in Versions, NEW seq \in 1 .. MaxSeq
  PROVE  /\ confirm_finalized(v, seq) \in Versions
         /\ confirm_finalized(v, seq).epoch = v.epoch
         /\ confirm_finalized(v, seq).accepted = v.accepted
         /\ confirm_finalized(v, seq).finalized = seq
         /\ confirm_finalized(v, seq).revision = v.revision
<1>1. seq \in Counter
  BY DurableDeliveryAssumption, MaxU64Assumption DEF Counter
<1>2. confirm_finalized(v, seq) \in Versions
  BY Zenon, <1>1 DEF Versions, confirm_finalized
<1>3. /\ confirm_finalized(v, seq).epoch = v.epoch
      /\ confirm_finalized(v, seq).accepted = v.accepted
      /\ confirm_finalized(v, seq).finalized = seq
      /\ confirm_finalized(v, seq).revision = v.revision
  BY Zenon DEF Versions, confirm_finalized
<1> QED BY Zenon, <1>2, <1>3

(* A bootstrapped planner has the epoch, revision and sequence of the       *)
(* request.                                                                 *)
LEMMA BootstrappedVersions ==
  ASSUME NEW epoch \in 1 .. MaxEpoch, NEW revision \in 0 .. MaxSeq, NEW seq \in 1 .. MaxSeq
  PROVE  /\ Bootstrapped(epoch, revision, seq, 0) \in Versions
         /\ Bootstrapped(epoch, revision, seq, 0).epoch = epoch
         /\ Bootstrapped(epoch, revision, seq, 0).accepted = seq
         /\ Bootstrapped(epoch, revision, seq, 0).finalized = seq
         /\ Bootstrapped(epoch, revision, seq, 0).revision = revision
<1>1. epoch \in Counter /\ revision \in Counter /\ seq \in Counter /\ 0 \in Counter
  BY DurableDeliveryAssumption, MaxU64Assumption DEF Counter
<1>2. Bootstrapped(epoch, revision, seq, 0) \in Versions
  BY Zenon, <1>1 DEF Versions, Bootstrapped
<1> QED BY Zenon, <1>2 DEF Bootstrapped

(* The planner executes the first request of a stream: it answers with the  *)
(* versions v, which are at most those the request brings it to.            *)
InBounds(r, v) ==
  /\ v.epoch <= MaxEpoch /\ v.revision <= MaxSeq + 1 /\ v.accepted <= MaxSeq
  /\ v.finalized <= trip.finalized
  /\ v.accepted # versions.accepted =>
       \/ v.accepted <= trip.finalized
       \/ v.accepted = versions.accepted + 1 /\ v.accepted \in 2 .. trip.next - 1
  /\ \/ v.epoch = versions.epoch /\ v.accepted >= versions.accepted
     \/ r.kind = "bootstrap" /\ v.epoch = r.epoch /\ v.accepted = r.seq

Executes(b, r, status, v) ==
  /\ wire[b] # <<>> /\ r = Head(wire[b]) /\ RequestFits(b, r)
  /\ Answer(b, r, status, v)
  /\ InBounds(r, v)

(* Whatever request is at the head of a stream, the planner executes it in  *)
(* one of these ways.                                                       *)
LEMMA DeliverExecutes ==
  ASSUME Inv, NEW b \in Backends, Deliver(b)
  PROVE  \E r \in Request, status \in Statuses, v \in Versions : Executes(b, r, status, v)
<1> DEFINE Executed == \E r \in Request, status \in Statuses, v \in Versions :
                         Executes(b, r, status, v)
<1>1. wire[b] # <<>>
  BY Zenon DEF Deliver
<1>2. PICK r \in Request : r = Head(wire[b]) /\ RequestFits(b, r)
  <2>1. Head(wire[b]) \in Request /\ Head(wire[b]) = wire[b][1] /\ 1 \in DOMAIN wire[b]
    BY Zenon, <1>1, InWire, TailShape DEF Inv
  <2> QED BY Zenon, <2>1 DEF Inv, WireFits
<1>3. /\ versions \in Versions
      /\ versions.epoch <= MaxEpoch /\ versions.revision <= MaxSeq + 1
      /\ versions.accepted <= MaxSeq /\ versions.finalized <= trip.finalized
  BY Zenon DEF Inv, TypeOK, VersionsFit, PlannerIsAtMostOneAhead
<1>4. /\ r.epoch \in 1 .. MaxEpoch /\ r.seq \in 1 .. MaxSeq /\ r.revision \in 0 .. MaxSeq
      /\ MaxSeq \in Int /\ MaxEpoch \in Int
      /\ r.epoch <= MaxEpoch /\ r.seq <= MaxSeq /\ r.revision <= MaxSeq
      /\ r.revision <= MaxSeq + 1 /\ r.revision + 1 <= MaxSeq + 1
  BY DurableDeliveryAssumption DEF Request
<1>5. ASSUME NEW status \in Statuses, Answer(b, r, status, versions)
      PROVE  Executed
  <2>1. versions.accepted \in Int
    BY <1>3 DEF Versions, Counter
  <2>2. InBounds(r, versions)
    BY <1>3, <2>1 DEF InBounds
  <2> QED BY Zenon, <1>1, <1>2, <1>3, <1>5, <2>2 DEF Executes
<1>6. CASE r.kind = "apply" /\ DeliverApply(b, r)
  <2> DEFINE status == preview_durable(versions, r.epoch, r.seq, r.revision, Unspecified)
  <2>1. /\ status \in Statuses
        /\ status = "accepted" =>
             /\ r.seq = versions.accepted + 1 /\ r.revision = versions.revision
             /\ versions.psv # MaxU64 /\ versions.generation # MaxU64
             /\ versions.revision # MaxU64
    BY Zenon, <1>3, ApplyPreviews
  <2>2. r.seq \in 2 .. trip.next - 1
    BY Zenon, <1>2, <1>6 DEF RequestFits
  <2>3. "accepted" \in Statuses /\ "rejected" \in Statuses
    BY Zenon DEF Statuses
  <2>4. CASE status # "accepted"
    BY Zenon, <1>5, <1>6, <2>1, <2>4 DEF DeliverApply
  <2>5. CASE status = "accepted"
    <3>1. PICK v \in Versions, given \in Statuses :
            /\ Answer(b, r, given, v)
            /\ v.epoch = versions.epoch /\ v.accepted = r.seq
            /\ v.finalized = versions.finalized
            /\ v.revision \in {r.revision, r.revision + 1}
      <4>1. /\ accept_durable(versions, r.seq) \in Versions
            /\ accept_durable(versions, r.seq).epoch = versions.epoch
            /\ accept_durable(versions, r.seq).accepted = r.seq
            /\ accept_durable(versions, r.seq).finalized = versions.finalized
            /\ accept_durable(versions, r.seq).revision = r.revision + 1
            /\ resolve_terminal_durable(versions, r.seq) \in Versions
            /\ resolve_terminal_durable(versions, r.seq).epoch = versions.epoch
            /\ resolve_terminal_durable(versions, r.seq).accepted = r.seq
            /\ resolve_terminal_durable(versions, r.seq).finalized = versions.finalized
            /\ resolve_terminal_durable(versions, r.seq).revision = r.revision
        BY <1>3, <1>4, <2>1, <2>5, AppliedVersions
      <4>2. \/ Answer(b, r, "accepted", accept_durable(versions, r.seq))
            \/ Answer(b, r, "rejected", resolve_terminal_durable(versions, r.seq))
        BY Zenon, <1>6, <2>5 DEF DeliverApply
      <4> QED BY Zenon, <2>3, <4>1, <4>2
    <3>2. versions.accepted \in Int
      BY <1>3 DEF Versions, Counter
    <3>3. InBounds(r, v)
      BY <1>3, <1>4, <2>1, <2>2, <2>5, <3>1, <3>2 DEF InBounds
    <3>4. Executes(b, r, given, v)
      BY Zenon, <1>1, <1>2, <3>1, <3>3 DEF Executes
    <3> QED BY Zenon, <3>4
  <2> QED BY Zenon, <2>4, <2>5
<1>7. CASE r.kind = "confirm" /\ DeliverConfirm(b, r)
  <2> DEFINE status == confirm_finalized_status(versions, r.epoch, r.seq)
  <2>1. status \in Statuses
    BY Zenon, <1>3, ConfirmPreviews
  <2>2. CASE status # "accepted"
    BY Zenon, <1>5, <1>7, <2>1, <2>2 DEF DeliverConfirm
  <2>3. CASE status = "accepted"
    <3>1. Answer(b, r, status, confirm_finalized(versions, r.seq))
      BY Zenon, <1>7, <2>3 DEF DeliverConfirm
    <3>2. r.seq <= trip.finalized
      BY Zenon, <1>2, <1>7 DEF RequestFits
    <3>3. PICK v \in Versions :
            /\ v = confirm_finalized(versions, r.seq)
            /\ v.epoch = versions.epoch /\ v.accepted = versions.accepted
            /\ v.finalized = r.seq /\ v.revision = versions.revision
      BY Zenon, <1>3, <1>4, ConfirmedVersions
    <3>4. versions.accepted \in Int
      BY <1>3 DEF Versions, Counter
    <3>5. InBounds(r, v)
      BY <1>3, <3>2, <3>3, <3>4 DEF InBounds
    <3>6. Executes(b, r, status, v)
      BY Zenon, <1>1, <1>2, <3>1, <3>3, <3>5 DEF Executes
    <3> QED BY Zenon, <2>1, <3>6
  <2> QED BY Zenon, <2>2, <2>3
<1>8. CASE r.kind = "bootstrap" /\ DeliverBootstrap(b, r)
  <2> DEFINE status == bootstrap_status(versions, r.epoch, r.revision, r.seq, 0)
  <2>1. status \in Statuses
    BY Zenon, <1>3, BootstrapPreviews
  <2>2. CASE status # "accepted"
    BY Zenon, <1>5, <1>8, <2>1, <2>2 DEF DeliverBootstrap
  <2>3. CASE status = "accepted"
    <3>1. Answer(b, r, status, Bootstrapped(r.epoch, r.revision, r.seq, 0))
      BY Zenon, <1>8, <2>3 DEF DeliverBootstrap
    <3>2. r.seq <= trip.finalized
      BY Zenon, <1>2, <1>8 DEF RequestFits
    <3>3. PICK v \in Versions :
            /\ v = Bootstrapped(r.epoch, r.revision, r.seq, 0)
            /\ v.epoch = r.epoch /\ v.accepted = r.seq /\ v.finalized = r.seq
            /\ v.revision = r.revision
      BY <1>4, BootstrappedVersions
    <3>4. InBounds(r, v)
      BY Zenon, <1>4, <1>8, <3>2, <3>3 DEF InBounds
    <3>5. Executes(b, r, status, v)
      BY Zenon, <1>1, <1>2, <3>1, <3>3, <3>4 DEF Executes
    <3> QED BY Zenon, <2>1, <3>5
  <2> QED BY Zenon, <2>2, <2>3
<1> QED BY Zenon, <1>2, <1>6, <1>7, <1>8 DEF Deliver

-----------------------------------------------------------------------------
(* A command is recorded: of kind order, decided at once if it is an edit.  *)
Recording(order) ==
  /\ trip.next \in Seqs
  /\ \A s \in Recorded : rows[s].intent # "pending"
  /\ rows' = [rows EXCEPT ![trip.next] = NewRow(order)]
  /\ trip' = IF order = "runtime_first" THEN [trip EXCEPT !.next = @ + 1]
             ELSE [revision |-> trip.revision + 1, next |-> trip.next + 1,
                   finalized |-> trip.next]
  /\ UNCHANGED <<lease, versions, wire, dispatcher, supervisor>>

(* The row a command is recorded with.                                      *)
LEMMA NewRowShape ==
  ASSUME Inv, NEW order \in {"runtime_first", "canonical_first"}
  PROVE  /\ NewRow(order) \in Row
         /\ NewRow(order).order = order /\ NewRow(order).expected = trip.revision
         /\ NewRow(order).intent = IF order = "runtime_first" THEN "pending" ELSE "applied"
         /\ NewRow(order).sync = IF order = "runtime_first" THEN "not_required" ELSE "pending"
         /\ NewRow(order).delivery = "pending"
<1>1. trip.revision \in 0 .. MaxSeq
  BY DEF Inv, TypeOK
<1>2. NewRow(order) \in Row
  BY <1>1, Records DEF NewRow, Row
<1>3. /\ NewRow(order).order = order /\ NewRow(order).expected = trip.revision
      /\ NewRow(order).delivery = "pending"
  BY Zenon DEF NewRow
<1>4. /\ NewRow(order).intent = IF order = "runtime_first" THEN "pending" ELSE "applied"
      /\ NewRow(order).sync = IF order = "runtime_first" THEN "not_required" ELSE "pending"
  BY Zenon DEF NewRow
<1> QED BY Zenon, <1>2, <1>3, <1>4

-----------------------------------------------------------------------------
(* What a step may do to the database: leave the outcomes alone, record the *)
(* next command, or decide the open one.                                    *)
Deciding(s) ==
  /\ s \in Recorded
  /\ rows[s].intent = "pending"
  /\ s = trip.finalized + 1
  /\ \E intent \in {"applied", "rejected"}, delivery \in {"accepted", "terminal_rejected"} :
       /\ rows' = [rows EXCEPT ![s].intent = intent, ![s].delivery = delivery,
                               ![s].claim = NoOwner]
       /\ trip' = [trip EXCEPT !.finalized = s,
                               !.revision = IF intent = "applied" THEN @ + 1 ELSE @]

(* FinalizeRuntimeFirst decides the open command or changes nothing.        *)
LEMMA FinalizeRuntimeFirstChanges ==
  ASSUME Inv, NEW b \in Backends, FinalizeRuntimeFirst(b)
  PROVE  UNCHANGED database \/ \E s \in Seqs : Deciding(s)
<1> DEFINE s == dispatcher[b].seq
           applied == Succeeded(dispatcher[b].ack)
<1>1. s \in Seqs /\ s \in Recorded
  BY Zenon, RecordedRows DEF Inv, TypeOK, DispatchersFit, DispatcherFits, Recorded, FinalizeRuntimeFirst
<1>2. ASSUME rows[s].intent = "pending", trip.finalized + 1 = s,
             rows' = [rows EXCEPT
                    ![s].intent = IF applied THEN "applied" ELSE "rejected",
                    ![s].delivery = IF applied THEN "accepted" ELSE "terminal_rejected",
                    ![s].claim = NoOwner],
             trip' = [trip EXCEPT !.finalized = s,
                                  !.revision = IF applied THEN @ + 1 ELSE @]
      PROVE  Deciding(s)
  <2>1. PICK intent \in {"applied", "rejected"} :
          intent = IF applied THEN "applied" ELSE "rejected"
    BY Zenon
  <2>2. PICK delivery \in {"accepted", "terminal_rejected"} :
          delivery = IF applied THEN "accepted" ELSE "terminal_rejected"
    BY Zenon
  <2>3. rows' = [rows EXCEPT ![s].intent = intent, ![s].delivery = delivery,
                             ![s].claim = NoOwner]
    BY Zenon, <1>2, <2>1, <2>2
  <2>4. trip' = [trip EXCEPT !.finalized = s,
                             !.revision = IF intent = "applied" THEN @ + 1 ELSE @]
    BY Zenon, <1>2, <2>1
  <2> HIDE DEF s
  <2> QED BY Zenon, <1>1, <1>2, <2>3, <2>4 DEF Deciding
<1>3. UNCHANGED database \/ Deciding(s)
  BY Zenon, <1>2 DEF FinalizeRuntimeFirst
<1> QED BY Zenon, <1>1, <1>3

(* No step of the dispatcher does more to the rows than deciding one.       *)
LEMMA DispatchingChanges ==
  ASSUME Inv, NEW b \in Backends, Dispatching(b)
  PROVE  RowsKept \/ \E s \in Seqs : Deciding(s)
<1>1. CASE RecoverConfirmations(b) \/ SendConfirm(b)
  BY Zenon, <1>1, UnchangedRows DEF RecoverConfirmations, SendConfirm
<1>2. CASE ClaimDue(b)
  <2>1. trip' = trip
    BY Zenon, <1>2 DEF ClaimDue
  <2>2. CASE UNCHANGED rows
    BY Zenon, <2>1, <2>2, UnchangedRows DEF database
  <2>3. ASSUME NEW s \in Seqs, s \in Recorded, rows' = [rows EXCEPT ![s].claim = b]
        PROVE  RowsKept
    BY Zenon, <2>1, <2>3, ClaimChanges
  <2> QED BY Zenon, <1>2, <2>2, <2>3 DEF ClaimDue, Due
<1>3. CASE Dispatch(b)
  <2>1. trip' = trip /\ dispatcher[b].at = "claimed"
    BY Zenon, <1>3 DEF Dispatch
  <2>2. UNCHANGED rows \/ ReleaseForRetry(b)
    BY Zenon, <1>3 DEF Dispatch
  <2> QED BY Zenon, <2>1, <2>2, UnchangedRows, Released DEF database
<1>4. CASE Retry(b)
  BY Zenon, <1>4, Released DEF Retry
<1>5. CASE Pause(b)
  BY Zenon, <1>5, Paused DEF Pause
<1>6. CASE FinalizeRuntimeFirst(b)
  BY Zenon, <1>6, FinalizeRuntimeFirstChanges, UnchangedRows
<1>7. CASE FinalizeCanonicalMirror(b) \/ ConfirmFinalizedMutations(b)
  BY Zenon, <1>7, FinalizeCanonicalMirrorChanges, ConfirmFinalizedMutationsChanges
<1> QED BY Zenon, <1>1, <1>2, <1>3, <1>4, <1>5, <1>6, <1>7 DEF Dispatching

(* Every step keeps what the rows say, records the next command, or decides *)
(* one.                                                                     *)
LEMMA DatabaseChanges ==
  ASSUME Inv, [Next]_vars
  PROVE  \/ RowsKept
         \/ \E order \in {"runtime_first", "canonical_first"} : Recording(order)
         \/ \E s \in Seqs : Deciding(s)
<1>1. CASE RecordRuntimeFirst
  <2>1. Recording("runtime_first")
    BY Zenon, <1>1 DEF RecordRuntimeFirst, Recording
  <2> QED BY Zenon, <2>1
<1>2. CASE RecordCanonicalFirst
  <2>1. Recording("canonical_first")
    BY Zenon, <1>2 DEF RecordCanonicalFirst, Recording
  <2> QED BY Zenon, <2>1
<1>3. CASE LeaseExpires \/ PlannerRestart \/ UNCHANGED vars
  BY Zenon, <1>3, UnchangedRows DEF LeaseExpires, PlannerRestart, vars
<1>4. ASSUME NEW s \in Seqs, ClaimExpires(s) PROVE RowsKept
  BY Zenon, <1>4, ClaimChanges DEF ClaimExpires
<1>5. ASSUME NEW b \in Backends, Activating(b) PROVE RowsKept
  BY Zenon, <1>5, UnchangedRows, ResolveCanonicalBootstrapChanges
     DEF Activating, Acquire, SendBootstrap, LeaseLost, Release
<1>6. ASSUME NEW b \in Backends, Timeout(b) PROVE RowsKept
  BY Zenon, <1>6, UnchangedRows, Released DEF Timeout, ApplyTimeout, ConfirmTimeout, BootstrapTimeout
<1>7. ASSUME NEW b \in Backends, Deliver(b) \/ Drop(b) \/ BackendRestart(b) PROVE RowsKept
  <2>1. Deliver(b) => UNCHANGED database
    BY Zenon DEF Deliver, DeliverApply, DeliverConfirm, DeliverBootstrap, Answer
  <2> QED BY Zenon, <1>7, <2>1, UnchangedRows DEF Drop, BackendRestart
<1> QED BY Zenon, <1>1, <1>2, <1>3, <1>4, <1>5, <1>6, <1>7, DispatchingChanges DEF Next

-----------------------------------------------------------------------------
(* The lease of epoch 1 is held and renewed: nobody activates again.        *)
StableLease ==
  /\ lease.live /\ lease.epoch = 1
  /\ \E b \in Backends : lease.holder = b /\ supervisor[b].at = "active" /\ supervisor[b].epoch = 1
  /\ \A b \in Backends : supervisor[b].at \in {"inactive", "active"}

(* The planner has applied every command it consumed.                       *)
StablePlanner ==
  /\ versions.epoch = 1
  /\ versions.revision = versions.accepted
  /\ versions.psv = versions.accepted - 1 /\ versions.generation = versions.accepted - 1

(* Every row is on its way or accepted.  The planner has consumed what is   *)
(* accepted, and what it consumed is accepted but for the last command.     *)
StableRow(s) ==
  /\ rows[s].delivery \in {"pending", "accepted"}
  /\ rows[s].order # "none" => rows[s].expected = s - 1
  /\ rows[s].delivery = "accepted" => s <= versions.accepted
  /\ s < versions.accepted => rows[s].delivery = "accepted"

(* Every command before s is accepted.                                      *)
Settled(s) == \A t \in Seqs : t < s => rows[t].delivery = "accepted"

(* A request belongs to the one epoch there is, and an event is only sent   *)
(* when the commands before it are accepted.                                *)
StableRequest(r) ==
  /\ r.kind # "bootstrap" /\ r.epoch = 1
  /\ r.kind = "apply" => r.revision = r.seq - 1 /\ Settled(r.seq)

(* The answer to an event: it was applied, now or before.                   *)
StableAnswer(d) ==
  /\ d.ack.status \in {"accepted", "duplicate"} /\ d.ack.epoch = 1
  /\ d.ack.revision = d.ack.accepted
  /\ d.seq <= d.ack.accepted /\ d.ack.accepted <= versions.accepted
  /\ d.seq < d.ack.accepted => rows[d.seq].delivery = "accepted"

(* The worker holds a row whose predecessors are accepted.                  *)
StableDispatcher(d) ==
  /\ d.at \in {"claimed", "applying", "applied"} => Settled(d.seq)
  /\ d.at \in {"applying", "applied", "finalized"} => d.epoch = 1
  /\ d.at = "applied" => StableAnswer(d)

(* The dispatcher waits for the answer to its own row.                      *)
AsksForOwn(b, r) == r.kind = "apply" /\ r.awaited => r.seq = dispatcher[b].seq

(* Together: nothing is rejected, paused or left behind.                    *)
Stable ==
  /\ StableLease
  /\ StablePlanner
  /\ trip.revision = trip.finalized
  /\ \A s \in Seqs : StableRow(s)
  /\ \A b \in Backends :
       /\ StableDispatcher(dispatcher[b])
       /\ \A i \in DOMAIN wire[b] : StableRequest(wire[b][i]) /\ AsksForOwn(b, wire[b][i])

-----------------------------------------------------------------------------
(* What is accepted stays accepted, and the planner does not go back.       *)
DeliveriesKept ==
  /\ \A s \in Seqs : rows[s].delivery = "accepted" => rows'[s].delivery = "accepted"
  /\ versions'.accepted >= versions.accepted

(* The conjuncts of Stable about the planner and the database.              *)
DatabaseStable ==
  /\ StablePlanner
  /\ trip.revision = trip.finalized
  /\ \A s \in Seqs : StableRow(s)

(* No request is added to the stream of b.                                  *)
OnlyOld(b) ==
  \A i \in DOMAIN wire'[b] : \E j \in DOMAIN wire[b] :
    /\ wire'[b][i].kind = wire[b][j].kind /\ wire'[b][i].epoch = wire[b][j].epoch
    /\ wire'[b][i].seq = wire[b][j].seq /\ wire'[b][i].revision = wire[b][j].revision
    /\ wire'[b][i].awaited => wire[b][j].awaited

(* Most steps leave the deliveries, the planner and the lease alone.        *)
RowsSteady ==
  /\ UNCHANGED <<trip, versions>>
  /\ \A s \in Seqs : /\ rows'[s].delivery = rows[s].delivery
                     /\ rows'[s].order = rows[s].order
                     /\ rows'[s].expected = rows[s].expected

(* Every step of Next keeps what holds while nothing but a response is ever  *)
(* lost: facts about the parts of Stable first, then one step per action.    *)
LEMMA StableNext ==
  Faults \subseteq {"loss"} /\ Inv /\ Inv' /\ Stable /\ [Next]_vars => Stable'
<1>OldRequests.
    ASSUME Inv, NEW b \in Backends,
           \/ UNCHANGED wire
           \/ wire[b] # <<>> /\ wire' = [wire EXCEPT ![b] = Tail(@)]
           \/ \E kinds : wire' = Abandoned(b, kinds)
    PROVE  \A c \in Backends : OnlyOld(c)
  <2> USE <1>OldRequests
  <2>1. wire \in [Backends -> Seq(Request)]
    BY Zenon DEF Inv, TypeOK
  <2>2. CASE UNCHANGED wire
    BY Zenon, <2>2 DEF OnlyOld
  <2>3. CASE wire[b] # <<>> /\ wire' = [wire EXCEPT ![b] = Tail(@)]
    <3>1. wire'[b] = Tail(wire[b]) /\ \A c \in Backends \ {b} : wire'[c] = wire[c]
      BY Zenon, <2>1, <2>3
    <3>2. \A i \in DOMAIN Tail(wire[b]) :
            i + 1 \in DOMAIN wire[b] /\ Tail(wire[b])[i] = wire[b][i + 1]
      BY <2>1, <2>3, TailShape
    <3>3. OnlyOld(b)
      <4>1. \A i \in DOMAIN wire'[b] : \E j \in DOMAIN wire[b] : wire'[b][i] = wire[b][j]
        BY <3>1, <3>2
      <4> QED BY Zenon, <4>1 DEF OnlyOld
    <3>4. \A c \in Backends \ {b} : OnlyOld(c)
      BY Zenon, <3>1 DEF OnlyOld
    <3> QED BY Zenon, <3>3, <3>4
  <2>4. CASE \E kinds : wire' = Abandoned(b, kinds)
    <3>1. PICK kinds : wire' = Abandoned(b, kinds)
      BY Zenon, <2>4
    <3>2. ASSUME NEW c \in Backends PROVE OnlyOld(c)
      <4>1. /\ DOMAIN wire'[c] = DOMAIN wire[c]
            /\ \A i \in DOMAIN wire[c] :
                 /\ wire'[c][i].kind = wire[c][i].kind /\ wire'[c][i].epoch = wire[c][i].epoch
                 /\ wire'[c][i].seq = wire[c][i].seq /\ wire'[c][i].revision = wire[c][i].revision
                 /\ wire'[c][i].awaited => wire[c][i].awaited
        BY <2>1, <3>1, AbandonedShape
      <4> QED BY Zenon, <4>1 DEF OnlyOld
    <3> QED BY Zenon, <3>2
  <2> QED BY Zenon, <2>2, <2>3, <2>4
<1>SettledStays.
    ASSUME DeliveriesKept, NEW s, Settled(s)
    PROVE  Settled(s)'
  BY Zenon, <1>SettledStays DEF DeliveriesKept, Settled
<1>DispatcherStays.
    ASSUME Inv, Stable, DeliveriesKept, versions' \in Versions, NEW b \in Backends,
           dispatcher'[b] = dispatcher[b]
    PROVE  StableDispatcher(dispatcher[b])'
  <2> USE <1>DispatcherStays
  <2>0. PICK d : d = dispatcher[b]
    BY Zenon
  <2>1. StableDispatcher(d) /\ d \in Dispatcher
    BY Zenon, <2>0 DEF Stable, Inv, TypeOK
  <2>2. d.at = "applied" => d.seq \in Seqs
    <3>1. DispatcherFits(d, trip.next, trip.finalized) /\ trip.next \in 2 .. MaxSeq + 1
      BY Zenon, <2>0 DEF Inv, DispatchersFit, TypeOK
    <3> QED BY <3>1, DurableDeliveryAssumption DEF DispatcherFits, Seqs
  <2>3. d.ack.accepted \in Int /\ versions.accepted \in Int /\ versions'.accepted \in Int
    BY <2>1 DEF Inv, TypeOK, Dispatcher, Ack, Versions, Counter
  <2>4. d.at \in {"claimed", "applying", "applied"} => Settled(d.seq)'
    BY Zenon, <2>1, <1>SettledStays DEF StableDispatcher
  <2>5. d.at = "applied" => StableAnswer(d)'
    BY <2>1, <2>2, <2>3 DEF StableDispatcher, StableAnswer, DeliveriesKept
  <2>6. StableDispatcher(d)'
    BY Zenon, <2>1, <2>4, <2>5 DEF StableDispatcher
  <2> QED BY Zenon, <2>0, <2>6
<1>RequestsStay.
    ASSUME Inv', Stable, DeliveriesKept, NEW b \in Backends, OnlyOld(b),
           dispatcher'[b].at = "applying" => dispatcher'[b].seq = dispatcher[b].seq
    PROVE  (\A i \in DOMAIN wire[b] : StableRequest(wire[b][i]) /\ AsksForOwn(b, wire[b][i]))'
  <2> USE <1>RequestsStay
  <2> SUFFICES ASSUME NEW i \in DOMAIN wire'[b]
               PROVE  StableRequest(wire[b][i])' /\ AsksForOwn(b, wire[b][i])'
    BY Zenon
  <2>1. PICK j \in DOMAIN wire[b] :
           /\ wire'[b][i].kind = wire[b][j].kind /\ wire'[b][i].epoch = wire[b][j].epoch
           /\ wire'[b][i].seq = wire[b][j].seq /\ wire'[b][i].revision = wire[b][j].revision
           /\ wire'[b][i].awaited => wire[b][j].awaited
    BY Zenon DEF OnlyOld
  <2>2. StableRequest(wire[b][j]) /\ AsksForOwn(b, wire[b][j])
    BY Zenon DEF Stable
  <2>3. RequestFits(b, wire[b][i])'
    BY Zenon DEF Inv, WireFits
  <2>4. wire'[b][i].awaited /\ wire'[b][i].kind = "apply" => dispatcher'[b].at = "applying"
    BY Zenon, <2>3 DEF RequestFits
  <2>5. PICK q, r : q = wire'[b][i] /\ r = wire[b][j]
    BY Zenon
  <2>6. StableRequest(q)'
    <3>1. /\ q.kind = r.kind /\ q.epoch = r.epoch /\ q.seq = r.seq /\ q.revision = r.revision
          /\ StableRequest(r)
      BY Zenon, <2>1, <2>2, <2>5
    <3>2. r.kind = "apply" => Settled(r.seq)'
      BY Zenon, <3>1, <1>SettledStays DEF StableRequest
    <3> QED BY Zenon, <3>1, <3>2 DEF StableRequest
  <2>7. AsksForOwn(b, wire[b][i])'
    <3>1. wire'[b][i].kind = "apply" /\ wire'[b][i].awaited => wire'[b][i].seq = dispatcher'[b].seq
      BY Zenon, <2>1, <2>2, <2>4 DEF AsksForOwn
    <3> QED BY Zenon, <3>1 DEF AsksForOwn
  <2> QED BY Zenon, <2>5, <2>6, <2>7
(* A dispatcher moves, and sends nothing.                                   *)
<1>StableMoves.
    ASSUME Inv, Inv', Stable, NEW b \in Backends,
           DatabaseStable', DeliveriesKept, StableLease', \A c \in Backends : OnlyOld(c),
           \A c \in Backends \ {b} : dispatcher'[c] = dispatcher[c],
           StableDispatcher(dispatcher[b])',
           dispatcher'[b].at = "applying" => dispatcher'[b].seq = dispatcher[b].seq
    PROVE  Stable'
  <2> USE <1>StableMoves
  <2>1. versions' \in Versions
    BY Zenon DEF Inv, TypeOK
  <2>2. \A c \in Backends : StableDispatcher(dispatcher[c])'
    BY Zenon, <2>1, <1>DispatcherStays
  <2>3. \A c \in Backends :
          (\A i \in DOMAIN wire[c] : StableRequest(wire[c][i]) /\ AsksForOwn(c, wire[c][i]))'
    BY Zenon, <1>RequestsStay
  <2> QED BY Zenon, <2>2, <2>3 DEF Stable, DatabaseStable
<1>SteadyDatabase.
    ASSUME Inv, Stable, RowsSteady
    PROVE  DatabaseStable' /\ DeliveriesKept
  <2> USE <1>SteadyDatabase
  <2>1. versions.accepted \in Int
    BY DEF Inv, TypeOK, Versions, Counter
  <2>2. DeliveriesKept
    BY <2>1 DEF DeliveriesKept, RowsSteady
  <2>3. \A s \in Seqs : StableRow(s)'
    BY Zenon DEF Stable, StableRow, RowsSteady
  <2>4. StablePlanner' /\ trip'.revision = trip'.finalized
    BY Zenon DEF Stable, StablePlanner, RowsSteady
  <2> QED BY Zenon, <2>2, <2>3, <2>4 DEF DatabaseStable
<1>SameLease.
    ASSUME Stable, UNCHANGED <<lease, supervisor>>
    PROVE  StableLease'
  BY Zenon, <1>SameLease DEF Stable, StableLease
<1>SteadyMoves.
    ASSUME Inv, Inv', Stable, NEW b \in Backends, RowsSteady, UNCHANGED <<lease, supervisor>>,
           \A c \in Backends : OnlyOld(c),
           \A c \in Backends \ {b} : dispatcher'[c] = dispatcher[c],
           StableDispatcher(dispatcher[b])',
           dispatcher'[b].at = "applying" => dispatcher'[b].seq = dispatcher[b].seq
    PROVE  Stable'
  BY Zenon, <1>SteadyMoves, <1>SteadyDatabase, <1>SameLease, <1>StableMoves
(* A dispatcher starts over.                                                *)
<1>IdleIsStable.
    ASSUME Inv, NEW b \in Backends, Done(b)
    PROVE  /\ \A c \in Backends \ {b} : dispatcher'[c] = dispatcher[c]
           /\ StableDispatcher(dispatcher[b])'
           /\ dispatcher'[b].at = "idle"
  <2> USE <1>IdleIsStable
  <2>1. dispatcher'[b] = Idle /\ \A c \in Backends \ {b} : dispatcher'[c] = dispatcher[c]
    BY Zenon DEF Inv, TypeOK, Done
  <2>2. dispatcher'[b].at = "idle"
    BY Zenon, <2>1, Records
  <2> QED BY Zenon, <2>1, <2>2 DEF StableDispatcher
(* Claims and confirmations.                                                *)
<1>ClaimsAreSteady.
    ASSUME Inv, NEW s, NEW claim, UNCHANGED <<trip, versions>>,
           rows' = [rows EXCEPT ![s].claim = claim] \/ UNCHANGED rows
    PROVE  RowsSteady
  <2> USE <1>ClaimsAreSteady
  <2>1. rows \in [Seqs -> Row]
    BY Zenon DEF Inv, TypeOK
  <2> QED BY <2>1 DEF Row, RowsSteady
<1>ReleaseIsSteady.
    ASSUME Inv, NEW b \in Backends, UNCHANGED <<trip, versions>>, ReleaseForRetry(b)
    PROVE  RowsSteady
  BY Zenon, <1>ReleaseIsSteady, <1>ClaimsAreSteady DEF ReleaseForRetry
<1>StableClaimExpires.
    ASSUME Inv, Inv', Stable, NEW s \in Seqs, ClaimExpires(s)
    PROVE  Stable'
  <2> USE <1>StableClaimExpires
  <2>1. UNCHANGED <<trip, lease, versions, wire, dispatcher, supervisor>>
    BY Zenon DEF ClaimExpires
  <2>2. RowsSteady
    BY Zenon, <2>1, <1>ClaimsAreSteady DEF ClaimExpires
  <2>3. PICK b \in Backends : lease.holder = b
    BY Zenon DEF Stable, StableLease
  <2>4. \A c \in Backends : OnlyOld(c)
    BY Zenon, <2>1, <2>3, <1>OldRequests
  <2>5. StableDispatcher(dispatcher[b])'
    BY Zenon, <2>1, <2>2, <1>SteadyDatabase, <1>DispatcherStays DEF Inv, TypeOK
  <2> QED BY Zenon, <2>1, <2>2, <2>4, <2>5, <1>SteadyMoves
<1>StableRetry.
    ASSUME Inv, Inv', Stable, NEW b \in Backends,
           Retry(b) \/ ApplyTimeout(b) \/ ConfirmTimeout(b)
    PROVE  Stable'
  <2> USE <1>StableRetry
  <2>1. UNCHANGED <<trip, lease, versions, supervisor>> /\ Done(b)
    BY Zenon DEF Retry, ApplyTimeout, ConfirmTimeout, database
  <2>2. RowsSteady
    <3>1. ReleaseForRetry(b) \/ UNCHANGED rows
      BY Zenon DEF Retry, ApplyTimeout, ConfirmTimeout, database
    <3> QED BY Zenon, <2>1, <3>1, <1>ReleaseIsSteady, <1>ClaimsAreSteady
  <2>3. \A c \in Backends : OnlyOld(c)
    BY Zenon, <1>OldRequests DEF Retry, ApplyTimeout, ConfirmTimeout
  <2>4. /\ \A c \in Backends \ {b} : dispatcher'[c] = dispatcher[c]
        /\ StableDispatcher(dispatcher[b])'
        /\ dispatcher'[b].at # "applying"
    BY Zenon, <2>1, <1>IdleIsStable
  <2> QED BY Zenon, <2>1, <2>2, <2>3, <2>4, <1>SteadyMoves
(* The answer to an event always resolves its row.                          *)
<1>NothingToPause.
    ASSUME Inv, Stable, NEW b \in Backends, dispatcher[b].at = "applied"
    PROVE  Resolves(b) /\ Succeeded(dispatcher[b].ack) /\ ~Retryable(dispatcher[b].ack)
  <2> USE <1>NothingToPause
  <2>1. /\ StableAnswer(dispatcher[b]) /\ dispatcher[b].epoch = 1
        /\ dispatcher[b] \in Dispatcher
    BY Zenon DEF Stable, StableDispatcher, Inv, TypeOK
  <2>2. dispatcher[b].seq \in Int /\ dispatcher[b].ack.accepted \in Int
    BY <2>1 DEF Dispatcher, Ack
  <2> QED BY Zenon, <2>1, <2>2 DEF StableAnswer, Resolves, Succeeded, Retryable
<1>StableClaimDue.
    ASSUME Inv, Inv', Stable, NEW b \in Backends, ClaimDue(b)
    PROVE  Stable'
  <2> USE <1>StableClaimDue
  <2>1. UNCHANGED <<trip, lease, versions, wire, supervisor>>
    BY Zenon DEF ClaimDue
  <2>2. \A c \in Backends : OnlyOld(c)
    BY Zenon, <2>1, <1>OldRequests
  <2>3. CASE UNCHANGED rows /\ Done(b)
    <3>1. /\ \A c \in Backends \ {b} : dispatcher'[c] = dispatcher[c]
          /\ StableDispatcher(dispatcher[b])'
          /\ dispatcher'[b].at # "applying"
      BY Zenon, <2>3, <1>IdleIsStable
    <3> QED BY Zenon, <2>1, <2>2, <2>3, <3>1, <1>ClaimsAreSteady, <1>SteadyMoves
  <2>4. ASSUME NEW s \in Seqs, Due(s), rows' = [rows EXCEPT ![s].claim = b],
               dispatcher' = [dispatcher EXCEPT ![b] = [Idle EXCEPT !.at = "claimed", !.seq = s]]
        PROVE  Stable'
    <3>1. RowsSteady
      BY Zenon, <2>1, <2>4, <1>ClaimsAreSteady
    <3>2. PICK d : d = [Idle EXCEPT !.at = "claimed", !.seq = s]
      BY Zenon
    <3>3. d.at = "claimed" /\ d.seq = s
      BY Zenon, <3>2 DEF Idle
    <3>4. dispatcher'[b] = d /\ \A c \in Backends \ {b} : dispatcher'[c] = dispatcher[c]
      BY Zenon, <2>4, <3>2 DEF Inv, TypeOK
    <3>5. Settled(s)
      <4> SUFFICES ASSUME NEW t \in Seqs, t < s PROVE rows[t].delivery = "accepted"
        BY Zenon DEF Settled
      <4>1. t \in Recorded
        BY <2>4, RecordedRows, SeqsFit DEF Due, Inv, TypeOK
      <4>2. rows[t].delivery \in {"pending", "accepted"}
        BY Zenon DEF Stable, StableRow
      <4> QED BY Zenon, <2>4, <4>1, <4>2 DEF Due, Unresolved
    <3>6. Settled(s)'
      BY Zenon, <3>1, <3>5, <1>SteadyDatabase, <1>SettledStays
    <3>7. StableDispatcher(d)'
      BY Zenon, <3>3, <3>6 DEF StableDispatcher
    <3> QED BY Zenon, <2>1, <2>2, <3>1, <3>3, <3>4, <3>7, <1>SteadyMoves
  <2> QED BY Zenon, <2>3, <2>4 DEF ClaimDue, Done
<1>StableConfirmFinalizedMutations.
    ASSUME Inv, Inv', Stable, NEW b \in Backends, ConfirmFinalizedMutations(b)
    PROVE  Stable'
  <2> USE <1>StableConfirmFinalizedMutations
  <2>1. UNCHANGED <<trip, lease, versions, wire, supervisor>>
    BY Zenon DEF ConfirmFinalizedMutations
  <2>2. RowsSteady
    <3>1. rows \in [Seqs -> Row]
      BY DEF Inv, TypeOK
    <3> QED BY <2>1, <3>1 DEF ConfirmFinalizedMutations, Row, RowsSteady
  <2>3. \A c \in Backends : OnlyOld(c)
    BY Zenon, <2>1, <1>OldRequests
  <2>4. /\ dispatcher'[b].at \in {"idle", "recovered"}
        /\ \A c \in Backends \ {b} : dispatcher'[c] = dispatcher[c]
    <3>1. dispatcher \in [Backends -> Dispatcher]
      BY Zenon DEF Inv, TypeOK
    <3> QED BY <3>1 DEF ConfirmFinalizedMutations, Done, Idle
  <2>5. StableDispatcher(dispatcher[b])'
    BY Zenon, <2>4 DEF StableDispatcher
  <2> QED BY Zenon, <2>1, <2>2, <2>3, <2>4, <2>5, <1>SteadyMoves
(* A dispatcher that was not waiting sends a request and waits.             *)
<1>StableSent.
    ASSUME Inv, Inv', Stable, NEW b \in Backends, NEW r \in Request, StableRequest(r),
           wire' = [wire EXCEPT ![b] = Append(@, r)],
           UNCHANGED <<trip, rows, lease, versions, supervisor>>,
           \A c \in Backends \ {b} : dispatcher'[c] = dispatcher[c],
           StableDispatcher(dispatcher[b])', dispatcher[b].at # "applying",
           r.kind = "apply" => r.seq = dispatcher'[b].seq
    PROVE  Stable'
  <2> USE <1>StableSent
  <2>1. RowsSteady
    BY Zenon DEF RowsSteady
  <2>2. DatabaseStable' /\ DeliveriesKept /\ StableLease'
    BY Zenon, <2>1, <1>SteadyDatabase, <1>SameLease
  <2>3. \A c \in Backends : StableDispatcher(dispatcher[c])'
    BY Zenon, <2>2, <1>DispatcherStays DEF Inv, TypeOK
  <2>4. wire \in [Backends -> Seq(Request)] /\ wire[b] \in Seq(Request)
    BY Zenon DEF Inv, TypeOK
  <2>5. wire'[b] = Append(wire[b], r) /\ \A c \in Backends \ {b} : wire'[c] = wire[c]
    BY Zenon, <2>4
  <2>6. ASSUME NEW c \in Backends \ {b}
        PROVE  (\A i \in DOMAIN wire[c] : StableRequest(wire[c][i]) /\ AsksForOwn(c, wire[c][i]))'
    <3>1. OnlyOld(c)
      BY Zenon, <2>5 DEF OnlyOld
    <3> QED BY Zenon, <2>2, <3>1, <1>RequestsStay
  <2>7. ASSUME NEW i \in DOMAIN wire'[b]
        PROVE  StableRequest(wire[b][i])' /\ AsksForOwn(b, wire[b][i])'
    <3>1. PICK q : q = wire'[b][i]
      BY Zenon
    <3>2. q = r \/ (i \in DOMAIN wire[b] /\ q = wire[b][i])
      BY <2>4, <2>5, <3>1, AppendShape
    <3>3. CASE q = r
      <4>1. StableRequest(q)'
        BY Zenon, <2>2, <3>3, <1>SettledStays DEF StableRequest
      <4> QED BY <3>1, <3>3, <4>1 DEF AsksForOwn
    <3>4. CASE i \in DOMAIN wire[b] /\ q = wire[b][i]
      <4>1. StableRequest(q) /\ RequestFits(b, q)
        BY Zenon, <3>4 DEF Stable, Inv, WireFits
      <4>2. StableRequest(q)'
        BY Zenon, <2>2, <4>1, <1>SettledStays DEF StableRequest
      <4>3. ~(q.kind = "apply" /\ q.awaited)
        BY Zenon, <4>1 DEF RequestFits
      <4> QED BY Zenon, <3>1, <4>2, <4>3 DEF AsksForOwn
    <3> QED BY Zenon, <3>2, <3>3, <3>4
  <2> QED BY Zenon, <2>2, <2>3, <2>6, <2>7 DEF Stable, DatabaseStable
<1>StableDispatch.
    ASSUME Inv, Inv', Stable, NEW b \in Backends, Dispatch(b)
    PROVE  Stable'
  <2> USE <1>StableDispatch
  <2> DEFINE s == dispatcher[b].seq
  <2>1. UNCHANGED <<trip, lease, versions, supervisor>> /\ dispatcher[b].at = "claimed"
    BY Zenon DEF Dispatch
  <2>2. CASE ReleaseForRetry(b) /\ Done(b) /\ UNCHANGED wire
    <3>1. RowsSteady
      BY Zenon, <2>1, <2>2, <1>ReleaseIsSteady
    <3>2. /\ \A c \in Backends \ {b} : dispatcher'[c] = dispatcher[c]
          /\ StableDispatcher(dispatcher[b])'
          /\ dispatcher'[b].at # "applying"
      BY Zenon, <2>2, <1>IdleIsStable
    <3> QED BY Zenon, <2>1, <2>2, <3>1, <3>2, <1>OldRequests, <1>SteadyMoves
  <2>3. ASSUME Send(b, "apply", lease.epoch, s, rows[s].expected),
               dispatcher' = [dispatcher EXCEPT ![b].at = "applying", ![b].epoch = lease.epoch],
               UNCHANGED rows
        PROVE  Stable'
    <3>1. lease.epoch = 1 /\ Settled(s) /\ 1 \in 1 .. MaxEpoch
      <4>1. lease.epoch = 1 /\ Settled(s)
        BY Zenon, <2>1 DEF Stable, StableLease, StableDispatcher
      <4>2. 1 \in 1 .. MaxEpoch
        BY DurableDeliveryAssumption
      <4> QED BY Zenon, <4>1, <4>2
    <3>2. s \in Seqs /\ s \in Recorded
      <4>1. s \in 2 .. trip.next - 1 /\ trip.next \in 2 .. MaxSeq + 1
        BY Zenon, <2>1 DEF Inv, DispatchersFit, DispatcherFits, TypeOK
      <4> QED BY Zenon, <4>1, RecordedRows, DurableDeliveryAssumption DEF Seqs
    <3>3. rows[s].expected = s - 1 /\ rows[s].expected \in 0 .. MaxSeq
      <4>1. rows[s] \in Row /\ rows[s].order # "none"
        BY Zenon, <3>2, RecordedRows DEF Inv, TypeOK
      <4>2. StableRow(s)
        BY Zenon, <3>2 DEF Stable
      <4> QED BY Zenon, <4>1, <4>2 DEF StableRow, Row
    <3>4. PICK r \in Request :
            /\ r = [kind |-> "apply", epoch |-> 1, seq |-> s, revision |-> rows[s].expected,
                    awaited |-> TRUE]
            /\ r.kind = "apply" /\ r.epoch = 1 /\ r.seq = s /\ r.revision = rows[s].expected
      BY <3>1, <3>2, <3>3, SeqsFit, Requests
    <3>5. StableRequest(r)
      BY <3>1, <3>3, <3>4 DEF StableRequest
    <3>6. wire' = [wire EXCEPT ![b] = Append(@, r)]
      BY Zenon, <2>3, <3>1, <3>4 DEF Send
    <3>7. dispatcher \in [Backends -> Dispatcher] /\ dispatcher[b] \in Dispatcher
      BY Zenon DEF Inv, TypeOK
    <3>8. /\ dispatcher'[b] = Applying(dispatcher[b], 1)
          /\ \A c \in Backends \ {b} : dispatcher'[c] = dispatcher[c]
      BY Zenon, <2>3, <3>1, <3>7 DEF Applying
    <3>9. /\ dispatcher'[b].at = "applying" /\ dispatcher'[b].seq = s /\ dispatcher'[b].epoch = 1
      <4>1. 1 \in 0 .. MaxEpoch
        BY <3>1
      <4> QED BY <3>7, <3>8, <4>1, ApplyingShape
    <3>10. StableDispatcher(dispatcher[b])'
      <4>1. PICK t : t = s /\ Settled(t)
        BY Zenon, <3>1
      <4>2. Settled(t)'
        BY Zenon, <2>3, <4>1 DEF Settled
      <4> QED BY Zenon, <3>9, <4>1, <4>2 DEF StableDispatcher
    <3> QED BY Zenon, <2>1, <2>3, <3>4, <3>5, <3>6, <3>8, <3>9, <3>10, <1>StableSent
  <2> QED BY Zenon, <2>2, <2>3 DEF Dispatch
<1>StableSendConfirm.
    ASSUME Inv, Inv', Stable, NEW b \in Backends, SendConfirm(b)
    PROVE  Stable'
  <2> USE <1>StableSendConfirm
  <2>1. /\ UNCHANGED <<trip, rows, lease, versions, supervisor>>
        /\ dispatcher[b].at = "finalized"
        /\ dispatcher' = [dispatcher EXCEPT ![b].at = "confirming"]
        /\ Send(b, "confirm", dispatcher[b].epoch, dispatcher[b].seq, 0)
    BY Zenon DEF SendConfirm, database
  <2>2. dispatcher[b].epoch = 1 /\ 1 \in 1 .. MaxEpoch /\ 0 \in 0 .. MaxSeq
    <3>1. dispatcher[b].epoch = 1
      BY Zenon, <2>1 DEF Stable, StableDispatcher
    <3>2. 1 \in 1 .. MaxEpoch /\ 0 \in 0 .. MaxSeq
      BY DurableDeliveryAssumption
    <3> QED BY Zenon, <3>1, <3>2
  <2>3. dispatcher[b].seq \in 1 .. MaxSeq
    <3>1. dispatcher[b].seq \in 2 .. trip.next - 1 /\ trip.next \in 2 .. MaxSeq + 1
      BY Zenon, <2>1 DEF Inv, DispatchersFit, DispatcherFits, TypeOK
    <3> QED BY <3>1, DurableDeliveryAssumption
  <2>4. PICK r \in Request :
          /\ r = [kind |-> "confirm", epoch |-> 1, seq |-> dispatcher[b].seq, revision |-> 0,
                  awaited |-> TRUE]
          /\ r.kind = "confirm" /\ r.epoch = 1
    BY <2>2, <2>3, Requests
  <2>5. StableRequest(r)
    BY Zenon, <2>4 DEF StableRequest
  <2>6. wire' = [wire EXCEPT ![b] = Append(@, r)]
    BY Zenon, <2>1, <2>2, <2>4 DEF Send
  <2>7. dispatcher'[b].at = "confirming" /\ \A c \in Backends \ {b} : dispatcher'[c] = dispatcher[c]
    BY <2>1 DEF Inv, TypeOK, Dispatcher
  <2>8. StableDispatcher(dispatcher[b])'
    BY Zenon, <2>7 DEF StableDispatcher
  <2> QED BY Zenon, <2>1, <2>4, <2>5, <2>6, <2>7, <2>8, <1>StableSent
<1>StableRecoverConfirmations.
    ASSUME Inv, Inv', Stable, NEW b \in Backends, RecoverConfirmations(b)
    PROVE  Stable'
  <2> USE <1>StableRecoverConfirmations
  <2>1. UNCHANGED <<trip, rows, lease, versions, supervisor>> /\ dispatcher[b].at = "idle"
    BY Zenon DEF RecoverConfirmations, database
  <2>2. dispatcher \in [Backends -> Dispatcher] /\ dispatcher[b] \in Dispatcher
    BY Zenon DEF Inv, TypeOK
  <2>3. CASE dispatcher' = [dispatcher EXCEPT ![b].at = "recovered"] /\ UNCHANGED wire
    <3>1. /\ dispatcher'[b].at = "recovered"
          /\ \A c \in Backends \ {b} : dispatcher'[c] = dispatcher[c]
      BY Zenon, <2>2, <2>3 DEF Dispatcher
    <3>2. StableDispatcher(dispatcher[b])'
      BY Zenon, <3>1 DEF StableDispatcher
    <3>3. RowsSteady
      BY Zenon, <2>1 DEF RowsSteady
    <3>4. \A c \in Backends : OnlyOld(c)
      BY Zenon, <2>3, <1>OldRequests
    <3> QED BY Zenon, <2>1, <3>1, <3>2, <3>3, <3>4, <1>SteadyMoves
  <2>4. ASSUME NEW s \in Unconfirmed, Send(b, "confirm", lease.epoch, s, 0),
               dispatcher' = [dispatcher EXCEPT ![b] =
                      [Idle EXCEPT !.at = "confirming", !.seq = s, !.epoch = lease.epoch,
                                   !.recovery = TRUE]]
        PROVE  Stable'
    <3>1. lease.epoch = 1 /\ 1 \in 1 .. MaxEpoch /\ 0 \in 0 .. MaxSeq
      BY DurableDeliveryAssumption DEF Stable, StableLease
    <3>2. s \in 1 .. MaxSeq
      BY Zenon, SeqsFit DEF Unconfirmed
    <3>3. PICK r \in Request :
            /\ r = [kind |-> "confirm", epoch |-> 1, seq |-> s, revision |-> 0, awaited |-> TRUE]
            /\ r.kind = "confirm" /\ r.epoch = 1
      BY <3>1, <3>2, Requests
    <3>4. StableRequest(r)
      BY Zenon, <3>3 DEF StableRequest
    <3>5. wire' = [wire EXCEPT ![b] = Append(@, r)]
      BY <2>4, <3>1, <3>3 DEF Send
    <3>6. /\ dispatcher'[b].at = "confirming"
          /\ \A c \in Backends \ {b} : dispatcher'[c] = dispatcher[c]
      BY Zenon, <2>2, <2>4 DEF Idle
    <3>7. StableDispatcher(dispatcher[b])'
      BY Zenon, <3>6 DEF StableDispatcher
    <3> QED BY Zenon, <2>1, <3>3, <3>4, <3>5, <3>6, <3>7, <1>StableSent
  <2> QED BY Zenon, <2>3, <2>4 DEF RecoverConfirmations
(* A row becomes accepted that the planner has consumed.                    *)
<1>AcceptedRow.
    ASSUME Inv, Stable, NEW s \in Seqs, s <= versions.accepted, rows'[s].delivery = "accepted",
           versions' = versions, trip'.revision = trip'.finalized,
           \A t \in Seqs : rows'[t].order = rows[t].order /\ rows'[t].expected = rows[t].expected,
           \A t \in Seqs \ {s} : rows'[t].delivery = rows[t].delivery
    PROVE  DatabaseStable' /\ DeliveriesKept
  <2> USE <1>AcceptedRow
  <2>1. versions.accepted \in Int
    BY DEF Inv, TypeOK, Versions, Counter
  <2>2. DeliveriesKept
    BY <2>1 DEF DeliveriesKept
  <2>3. \A t \in Seqs \ {s} : StableRow(t)'
    BY Zenon DEF Stable, StableRow
  <2>4. StableRow(s)'
    BY Zenon DEF Stable, StableRow
  <2>5. StablePlanner'
    BY Zenon DEF Stable, StablePlanner
  <2> QED BY Zenon, <2>2, <2>3, <2>4, <2>5 DEF DatabaseStable
<1>OnToConfirm.
    ASSUME Inv, Stable, NEW b \in Backends, dispatcher[b].at = "applied", ToConfirm(b) \/ Done(b)
    PROVE  /\ \A c \in Backends \ {b} : dispatcher'[c] = dispatcher[c]
           /\ StableDispatcher(dispatcher[b])'
           /\ dispatcher'[b].at # "applying"
  <2> USE <1>OnToConfirm
  <2>1. CASE Done(b)
    BY Zenon, <2>1, <1>IdleIsStable
  <2>2. CASE ToConfirm(b)
    <3>1. /\ dispatcher'[b].at = "finalized" /\ dispatcher'[b].epoch = dispatcher[b].epoch
          /\ \A c \in Backends \ {b} : dispatcher'[c] = dispatcher[c]
      BY <2>2 DEF ToConfirm, Inv, TypeOK, Dispatcher
    <3>2. dispatcher[b].epoch = 1
      BY Zenon DEF Stable, StableDispatcher
    <3> QED BY <3>1, <3>2 DEF StableDispatcher
  <2> QED BY Zenon, <2>1, <2>2
(* What a finalization knows of its row.                                    *)
<1>AppliedRow.
    ASSUME Inv, Stable, NEW b \in Backends, dispatcher[b].at = "applied"
    PROVE  LET s == dispatcher[b].seq
           IN  /\ s \in Seqs /\ rows \in [Seqs -> Row] /\ rows[s] \in Row
               /\ s <= versions.accepted
               /\ rows[s].order # "none" => rows[s].expected = s - 1
               /\ rows[s].delivery # "accepted" => dispatcher[b].ack.revision = s
  <2> USE <1>AppliedRow
  <2> DEFINE s == dispatcher[b].seq
  <2>1. s \in Seqs
    <3>1. s \in 2 .. trip.next - 1 /\ trip.next \in 2 .. MaxSeq + 1
      BY DEF Inv, DispatchersFit, DispatcherFits, TypeOK
    <3> QED BY <3>1, DurableDeliveryAssumption DEF Seqs
  <2>2. rows \in [Seqs -> Row] /\ rows[s] \in Row
    BY Zenon, <2>1 DEF Inv, TypeOK
  <2>3. StableAnswer(dispatcher[b]) /\ StableRow(s)
    BY Zenon, <2>1 DEF Stable, StableDispatcher
  <2>4. /\ dispatcher[b].ack.accepted \in Int /\ s \in Int /\ versions.accepted \in Int
    <3>1. dispatcher[b] \in Dispatcher /\ versions \in Versions
      BY Zenon DEF Inv, TypeOK
    <3> QED BY <2>1, <3>1, SeqsFit DEF Dispatcher, Ack, Versions, Counter
  <2>5. s <= versions.accepted /\ (rows[s].delivery # "accepted" => dispatcher[b].ack.revision = s)
    BY <2>3, <2>4 DEF StableAnswer
  <2> QED BY <2>1, <2>2, <2>3, <2>5 DEF StableRow
<1>StableFinalizeRuntimeFirst.
    ASSUME Inv, Inv', Stable, NEW b \in Backends, FinalizeRuntimeFirst(b)
    PROVE  Stable'
  <2> USE <1>StableFinalizeRuntimeFirst
  <2> DEFINE s == dispatcher[b].seq
  <2>1. UNCHANGED <<lease, versions, wire, supervisor>> /\ dispatcher[b].at = "applied"
    BY Zenon DEF FinalizeRuntimeFirst
  <2>2. ToConfirm(b) \/ Done(b)
    BY Zenon DEF FinalizeRuntimeFirst, SameOutcome
  <2>3. /\ \A c \in Backends \ {b} : dispatcher'[c] = dispatcher[c]
        /\ StableDispatcher(dispatcher[b])'
        /\ dispatcher'[b].at # "applying"
    BY Zenon, <2>1, <2>2, <1>OnToConfirm
  <2>4. \A c \in Backends : OnlyOld(c)
    BY Zenon, <2>1, <1>OldRequests
  <2>5. /\ s \in Seqs /\ rows \in [Seqs -> Row] /\ rows[s] \in Row
        /\ s <= versions.accepted
    BY Zenon, <2>1, <1>AppliedRow
  <2>6. CASE UNCHANGED database
    <3>1. RowsSteady
      BY Zenon, <2>1, <2>6 DEF RowsSteady, database
    <3> QED BY Zenon, <2>1, <2>3, <2>4, <3>1, <1>SteadyMoves
  <2>7. CASE /\ trip.revision = rows[s].expected /\ trip.finalized + 1 = s
             /\ rows' = [rows EXCEPT ![s].intent = "applied", ![s].delivery = "accepted",
                                     ![s].claim = NoOwner]
             /\ trip' = [trip EXCEPT !.finalized = s, !.revision = @ + 1]
    <3>1. trip'.revision = trip'.finalized
      BY Zenon, <2>7 DEF Inv, TypeOK, Stable
    <3>2. /\ rows'[s].delivery = "accepted"
          /\ \A t \in Seqs : rows'[t].order = rows[t].order /\ rows'[t].expected = rows[t].expected
          /\ \A t \in Seqs \ {s} : rows'[t].delivery = rows[t].delivery
      BY Zenon, <2>5, <2>7 DEF Row
    <3>3. DatabaseStable' /\ DeliveriesKept
      BY Zenon, <2>1, <2>5, <3>1, <3>2, <1>AcceptedRow
    <3>4. StableLease'
      BY Zenon, <2>1, <1>SameLease
    <3> QED BY Zenon, <2>3, <2>4, <3>3, <3>4, <1>StableMoves
  <2>8. Succeeded(dispatcher[b].ack)
    BY Zenon, <2>1, <1>NothingToPause
  <2> QED BY Zenon, <2>6, <2>7, <2>8 DEF FinalizeRuntimeFirst
<1>StableFinalizeCanonicalMirror.
    ASSUME Inv, Inv', Stable, NEW b \in Backends, FinalizeCanonicalMirror(b)
    PROVE  Stable'
  <2> USE <1>StableFinalizeCanonicalMirror
  <2> DEFINE s == dispatcher[b].seq
  <2>1. /\ UNCHANGED <<trip, lease, versions, wire, supervisor>> /\ dispatcher[b].at = "applied"
        /\ rows[s].order = "canonical_first"
    BY Zenon DEF FinalizeCanonicalMirror
  <2>2. ToConfirm(b) \/ Done(b)
    BY Zenon DEF FinalizeCanonicalMirror
  <2>3. /\ \A c \in Backends \ {b} : dispatcher'[c] = dispatcher[c]
        /\ StableDispatcher(dispatcher[b])'
        /\ dispatcher'[b].at # "applying"
    BY Zenon, <2>1, <2>2, <1>OnToConfirm
  <2>4. \A c \in Backends : OnlyOld(c)
    BY Zenon, <2>1, <1>OldRequests
  <2>5. /\ s \in Seqs /\ rows \in [Seqs -> Row] /\ rows[s] \in Row
        /\ s <= versions.accepted /\ rows[s].expected = s - 1
        /\ rows[s].delivery = "pending" => dispatcher[b].ack.revision = s
    BY Zenon, <2>1, <1>AppliedRow
  <2>6. CASE UNCHANGED rows
    <3>1. RowsSteady
      BY Zenon, <2>1, <2>6 DEF RowsSteady
    <3> QED BY Zenon, <2>1, <2>3, <2>4, <3>1, <1>SteadyMoves
  <2>7. CASE /\ rows' = [rows EXCEPT ![s].sync = "synced", ![s].delivery = "accepted",
                                     ![s].claim = NoOwner]
    <3>1. trip'.revision = trip'.finalized
      BY Zenon, <2>1 DEF Stable
    <3>2. /\ rows'[s].delivery = "accepted"
          /\ \A t \in Seqs : rows'[t].order = rows[t].order /\ rows'[t].expected = rows[t].expected
          /\ \A t \in Seqs \ {s} : rows'[t].delivery = rows[t].delivery
      BY Zenon, <2>5, <2>7 DEF Row
    <3>3. DatabaseStable' /\ DeliveriesKept
      BY Zenon, <2>1, <2>5, <3>1, <3>2, <1>AcceptedRow
    <3>4. StableLease'
      BY Zenon, <2>1, <1>SameLease
    <3> QED BY Zenon, <2>3, <2>4, <3>3, <3>4, <1>StableMoves
  <2>8. rows[s].delivery = "pending" => dispatcher[b].ack.revision = rows[s].expected + 1
    BY <2>5, SeqsFit
  <2> QED BY Zenon, <2>6, <2>7, <2>8 DEF FinalizeCanonicalMirror
(* The planner answers a request.                                           *)
<1>StableExecuted.
    ASSUME Inv, Inv', Stable, NEW b \in Backends, wire[b] # <<>>,
           NEW r \in Request, r = Head(wire[b]), StableRequest(r),
           NEW status, NEW v, Answer(b, r, status, v), v \in Versions,
           DatabaseStable', DeliveriesKept,
           r.kind = "apply" =>
             /\ AsksForOwn(b, r)
             /\ status \in {"accepted", "duplicate"}
             /\ r.seq <= v.accepted
             /\ r.seq < v.accepted => rows[r.seq].delivery = "accepted"
    PROVE  Stable'
  <2> USE <1>StableExecuted
  <2>1. /\ UNCHANGED <<trip, rows, lease, supervisor>> /\ versions' = v
        /\ wire' = [wire EXCEPT ![b] = Tail(@)]
    BY Zenon DEF Answer, StableRequest, database
  <2>2. \A c \in Backends : OnlyOld(c)
    BY Zenon, <2>1, <1>OldRequests
  <2>3. StableLease'
    BY Zenon, <2>1, <1>SameLease
  <2>4. CASE UNCHANGED dispatcher
    <3>1. StableDispatcher(dispatcher[b])'
      BY Zenon, <2>1, <2>4, <1>DispatcherStays
    <3> QED BY Zenon, <2>2, <2>3, <2>4, <3>1, <1>StableMoves
  <2>5. CASE r.awaited /\ r.kind # "bootstrap"
    <3> DEFINE at == IF r.kind = "apply" THEN "applied" ELSE "confirmed"
               ack == AckOf(status, v)
    <3>1. dispatcher' = [dispatcher EXCEPT ![b].ack = ack, ![b].at = at]
      BY Zenon, <2>5 DEF Answer, AckOf
    <3>2. dispatcher \in [Backends -> Dispatcher] /\ dispatcher[b] \in Dispatcher
      BY DEF Inv, TypeOK
    <3>3. /\ \A c \in Backends \ {b} : dispatcher'[c] = dispatcher[c]
          /\ dispatcher'[b].at = at /\ dispatcher'[b].ack = ack
          /\ dispatcher'[b].seq = dispatcher[b].seq /\ dispatcher'[b].epoch = dispatcher[b].epoch
      BY Zenon, <3>1, <3>2 DEF Dispatcher
    <3>4. /\ ack.status = status /\ ack.epoch = v.epoch /\ ack.revision = v.revision
          /\ ack.accepted = v.accepted
      BY Zenon DEF AckOf
    <3>5. v.epoch = 1 /\ v.revision = v.accepted /\ v.accepted \in Int
      BY <2>1 DEF DatabaseStable, StablePlanner, Versions, Counter
    <3>6. CASE r.kind # "apply"
      <4>1. dispatcher'[b].at = "confirmed"
        BY Zenon, <3>3, <3>6
      <4>2. StableDispatcher(dispatcher[b])'
        BY Zenon, <4>1 DEF StableDispatcher
      <4> QED BY Zenon, <2>2, <2>3, <3>3, <4>1, <4>2, <1>StableMoves
    <3>7. CASE r.kind = "apply"
      <4>1. RequestFits(b, r)
        <5>1. Head(wire[b]) = wire[b][1] /\ 1 \in DOMAIN wire[b]
          BY Zenon, InWire, TailShape DEF Inv
        <5> QED BY Zenon, <5>1 DEF Inv, WireFits
      <4>2. dispatcher[b].at = "applying" /\ dispatcher[b].seq = r.seq
        BY Zenon, <2>5, <3>7, <4>1 DEF RequestFits, AsksForOwn
      <4>3. dispatcher[b].epoch = 1
        BY Zenon, <4>2 DEF Stable, StableDispatcher
      <4>4. PICK d : d = dispatcher'[b]
        BY Zenon
      <4> HIDE DEF ack
      <4>5. d.at = "applied" /\ d.seq = r.seq /\ d.epoch = 1 /\ d.ack = ack
        BY Zenon, <3>3, <3>7, <4>2, <4>3, <4>4
      <4>6. StableAnswer(d)'
        <5>1. v.accepted <= versions'.accepted
          BY <2>1, <3>5
        <5> QED BY Zenon, <2>1, <3>4, <3>5, <3>7, <4>5, <5>1 DEF StableAnswer
      <4>7. Settled(r.seq)'
        BY Zenon, <3>7, <1>SettledStays DEF StableRequest
      <4>8. StableDispatcher(d)'
        BY Zenon, <4>5, <4>6, <4>7 DEF StableDispatcher
      <4> QED BY Zenon, <2>2, <2>3, <3>3, <4>2, <4>4, <4>5, <4>8, <1>StableMoves
    <3> QED BY <3>6, <3>7
  <2> QED BY Zenon, <2>4, <2>5 DEF Answer
(* The planner's versions do not change, or only in what is finalized.      *)
<1>SameVersions.
    ASSUME Inv, Stable, NEW v, versions' = v, UNCHANGED <<trip, rows>>,
           v.epoch = versions.epoch, v.revision = versions.revision,
           v.accepted = versions.accepted, v.psv = versions.psv,
           v.generation = versions.generation
    PROVE  DatabaseStable' /\ DeliveriesKept
  <2> USE <1>SameVersions
  <2>1. versions.accepted \in Int
    BY DEF Inv, TypeOK, Versions, Counter
  <2>2. DeliveriesKept
    BY <2>1 DEF DeliveriesKept
  <2>3. StablePlanner' /\ \A s \in Seqs : StableRow(s)'
    BY Zenon DEF Stable, StablePlanner, StableRow
  <2> QED BY Zenon, <2>2, <2>3 DEF DatabaseStable, Stable
(* The planner applies the next command.                                    *)
<1>NextVersions.
    ASSUME Inv, Stable, NEW s \in Seqs, s = versions.accepted + 1, Settled(s),
           NEW v, v = accept_durable(versions, s), versions' = v, UNCHANGED <<trip, rows>>
    PROVE  v \in Versions /\ v.accepted = s /\ DatabaseStable' /\ DeliveriesKept
  <2> USE <1>NextVersions
  <2>1. /\ versions \in Versions /\ s \in Int /\ versions.accepted \in Int
        /\ versions.accepted <= MaxSeq /\ MaxSeq < MaxU64 /\ MaxSeq \in Int
        /\ s \in 1 .. MaxSeq
    <3>1. versions \in Versions /\ versions.accepted <= MaxSeq
      BY Zenon DEF Inv, TypeOK, VersionsFit
    <3>2. versions.accepted \in Int
      BY <3>1 DEF Versions, Counter
    <3> QED BY <3>1, <3>2, SeqsFit, DurableDeliveryAssumption
  <2>2. StablePlanner
    BY Zenon DEF Stable
  <2>3. versions.psv # MaxU64 /\ versions.generation # MaxU64 /\ versions.revision # MaxU64
    <3>1. versions.accepted < MaxU64 /\ versions.accepted - 1 < MaxU64 /\ MaxU64 \in Int
      BY <2>1, MaxU64Assumption
    <3> QED BY <2>2, <3>1 DEF StablePlanner
  <2>4. /\ v \in Versions /\ v.accepted = s /\ v.epoch = versions.epoch
        /\ v.revision = versions.revision + 1
    <3>1. versions.revision <= MaxSeq
      BY Zenon, <2>1, <2>2 DEF StablePlanner
    <3> QED BY Zenon, <2>1, <2>3, <3>1, AppliedVersions
  <2>5. v.psv = versions.psv + 1 /\ v.generation = versions.generation + 1
    BY Zenon, <2>1 DEF accept_durable, Versions
  <2>6. StablePlanner'
    BY <2>1, <2>2, <2>4, <2>5 DEF StablePlanner
  <2>7. DeliveriesKept
    BY <2>1, <2>4 DEF DeliveriesKept
  <2>8. ASSUME NEW t \in Seqs PROVE StableRow(t)'
    <3>1. StableRow(t) /\ t \in Int
      BY Zenon, SeqsFit DEF Stable
    <3>2. t < s => rows[t].delivery = "accepted"
      BY Zenon DEF Settled
    <3>3. t <= versions.accepted => t <= s
      BY <2>1, <3>1
    <3> QED BY Zenon, <2>4, <3>1, <3>2, <3>3 DEF StableRow
  <2> QED BY Zenon, <2>4, <2>6, <2>7, <2>8 DEF DatabaseStable, Stable
<1>StableDeliver.
    ASSUME "rejection" \notin Faults, Inv, Inv', Stable, NEW b \in Backends, Deliver(b)
    PROVE  Stable'
  <2> USE <1>StableDeliver
  <2>1. wire[b] # <<>> /\ versions \in Versions
    BY Zenon DEF Deliver, Inv, TypeOK
  <2>2. PICK r \in Request :
          /\ r = Head(wire[b]) /\ StableRequest(r) /\ AsksForOwn(b, r) /\ RequestFits(b, r)
    <3>1. Head(wire[b]) \in Request /\ Head(wire[b]) = wire[b][1] /\ 1 \in DOMAIN wire[b]
      BY Zenon, <2>1, InWire, TailShape DEF Inv
    <3> QED BY Zenon, <3>1 DEF Stable, Inv, WireFits
  <2>3. r.kind # "bootstrap" /\ r.epoch = 1 /\ r.seq \in 1 .. MaxSeq
    BY Zenon, <2>2 DEF StableRequest, Request
  <2>4. ASSUME NEW status, NEW v, Answer(b, r, status, v)
        PROVE  versions' = v /\ UNCHANGED <<trip, rows>>
    BY Zenon, <2>4 DEF Answer, database
  <2>5. CASE r.kind = "confirm" /\ DeliverConfirm(b, r)
    <3> DEFINE status == confirm_finalized_status(versions, r.epoch, r.seq)
               v == IF status = "accepted" THEN confirm_finalized(versions, r.seq) ELSE versions
    <3>1. Answer(b, r, status, v)
      BY Zenon, <2>5 DEF DeliverConfirm
    <3>2. /\ v \in Versions /\ v.epoch = versions.epoch /\ v.revision = versions.revision
          /\ v.accepted = versions.accepted /\ v.psv = versions.psv
          /\ v.generation = versions.generation
      <4>1. /\ confirm_finalized(versions, r.seq).psv = versions.psv
            /\ confirm_finalized(versions, r.seq).generation = versions.generation
        BY Zenon, <2>1 DEF confirm_finalized, Versions
      <4> QED BY Zenon, <2>1, <2>3, <4>1, ConfirmedVersions
    <3> HIDE DEF status, v
    <3>3. DatabaseStable' /\ DeliveriesKept
      BY Zenon, <2>4, <3>1, <3>2, <1>SameVersions
    <3> QED BY Zenon, <2>1, <2>2, <2>5, <3>1, <3>2, <3>3, <1>StableExecuted
  <2>6. CASE r.kind = "apply" /\ DeliverApply(b, r)
    <3> DEFINE status == preview_durable(versions, r.epoch, r.seq, r.revision, Unspecified)
               v == accept_durable(versions, r.seq)
    <3>1. r.revision = r.seq - 1 /\ Settled(r.seq) /\ r.seq \in Seqs
      <4>1. r.seq \in 2 .. trip.next - 1 /\ trip.next \in 2 .. MaxSeq + 1
        BY <2>2, <2>6 DEF RequestFits, Inv, TypeOK
      <4>2. r.seq \in Seqs
        BY <4>1, DurableDeliveryAssumption DEF Seqs
      <4> QED BY Zenon, <2>2, <2>6, <4>2 DEF StableRequest
    <3>2. /\ versions.epoch = 1 /\ versions.revision = versions.accepted
          /\ versions.accepted \in Int /\ r.seq \in Int /\ r.seq >= 2
          /\ versions.psv = versions.accepted - 1 /\ versions.generation = versions.accepted - 1
          /\ versions.accepted <= MaxSeq /\ MaxSeq < MaxU64 /\ MaxSeq \in Int
          /\ versions.psv >= 0
      <4>1. versions.accepted \in Int /\ versions.psv >= 0
        BY <2>1 DEF Versions, Counter
      <4>2. StablePlanner /\ versions.accepted <= MaxSeq
        BY Zenon DEF Stable, Inv, VersionsFit
      <4> QED BY <3>1, <4>1, <4>2, SeqsFit, DurableDeliveryAssumption DEF StablePlanner
    <3>3. r.seq <= versions.accepted + 1
      <4> SUFFICES ASSUME r.seq > versions.accepted + 1 PROVE FALSE
        BY <3>2
      <4>1. versions.accepted + 1 \in Seqs
        BY <3>1, <3>2 DEF Seqs
      <4>2. rows[versions.accepted + 1].delivery = "accepted"
        BY Zenon, <3>1, <3>2, <4>1 DEF Settled
      <4>3. versions.accepted + 1 <= versions.accepted
        BY Zenon, <4>1, <4>2 DEF Stable, StableRow
      <4> QED BY <3>2, <4>3
    <3>4. CASE r.seq <= versions.accepted
      <4>1. status = "duplicate"
        BY <2>3, <3>2, <3>4 DEF preview_durable, durable_order, validate_epoch, IsActive
      <4>2. Answer(b, r, "duplicate", versions)
        BY Zenon, <2>6, <4>1 DEF DeliverApply
      <4>3. DatabaseStable' /\ DeliveriesKept
        BY Zenon, <2>4, <4>2, <1>SameVersions
      <4>4. r.seq < versions.accepted => rows[r.seq].delivery = "accepted"
        BY Zenon, <3>1 DEF Stable, StableRow
      <4> QED BY Zenon, <2>1, <2>2, <3>4, <4>2, <4>3, <4>4, <1>StableExecuted
    <3>5. CASE r.seq = versions.accepted + 1
      <4>1. status = "accepted"
        <5>1. durable_order(versions, r.epoch, r.seq, r.revision, Unspecified) = "accepted"
          BY <2>3, <3>1, <3>2, <3>5 DEF durable_order, validate_epoch, IsActive, PsvMatches
        <5>2. versions.psv # MaxU64 /\ versions.generation # MaxU64 /\ versions.revision # MaxU64
          BY <3>2, MaxU64Assumption
        <5> QED BY Zenon, <5>1, <5>2 DEF preview_durable, can_increment
      <4>2. Answer(b, r, "accepted", v)
        BY Zenon, <2>6, <4>1 DEF DeliverApply
      <4>3. versions' = v /\ UNCHANGED <<trip, rows>>
        BY Zenon, <2>4, <4>2
      <4>4. v \in Versions /\ v.accepted = r.seq /\ DatabaseStable' /\ DeliveriesKept
        BY Zenon, <3>1, <3>5, <4>3, <1>NextVersions
      <4> HIDE DEF v
      <4>5. r.seq <= v.accepted /\ ~(r.seq < v.accepted)
        BY <3>2, <4>4
      <4> QED BY Zenon, <2>1, <2>2, <4>2, <4>4, <4>5, <1>StableExecuted
    <3> QED BY <3>2, <3>3, <3>4, <3>5
  <2> QED BY Zenon, <2>2, <2>3, <2>5, <2>6 DEF Deliver
<1>StableDrop.
    ASSUME Inv, Inv', Stable, NEW b \in Backends, Drop(b)
    PROVE  Stable'
  <2> USE <1>StableDrop
  <2>1. UNCHANGED <<trip, rows, lease, versions, dispatcher, supervisor>>
    BY Zenon DEF Drop, database
  <2>2. RowsSteady
    BY Zenon, <2>1 DEF RowsSteady
  <2>3. \A c \in Backends : OnlyOld(c)
    BY Zenon, <1>OldRequests DEF Drop
  <2>4. StableDispatcher(dispatcher[b])'
    BY Zenon, <2>1, <2>2, <1>SteadyDatabase, <1>DispatcherStays DEF Inv, TypeOK
  <2> QED BY Zenon, <2>1, <2>2, <2>3, <2>4, <1>SteadyMoves
(* A command is recorded when all before it are decided.                    *)
<1>StableRecording.
    ASSUME Inv, Inv', Stable, NEW order \in {"runtime_first", "canonical_first"}, Recording(order)
    PROVE  Stable'
  <2> USE <1>StableRecording
  <2>0. PICK n : n = trip.next
    OBVIOUS
  <2>1. /\ n \in Seqs /\ UNCHANGED <<lease, versions, wire, dispatcher, supervisor>>
        /\ rows' = [rows EXCEPT ![n] = NewRow(order)]
    BY Zenon, <2>0 DEF Recording
  <2>2. /\ trip.finalized \in Int /\ trip.revision \in Int /\ n \in Int /\ n >= 2
        /\ trip.finalized >= 1 /\ trip.finalized < n /\ trip.revision = trip.finalized
        /\ versions.accepted \in Int
    BY <2>0 DEF Inv, TypeOK, Ordered, Stable, Versions, Counter
  <2>3. trip.finalized = n - 1
    <3> SUFFICES ASSUME trip.finalized < n - 1 PROVE FALSE
      BY <2>2
    <3>1. n - 1 \in Recorded
      BY <2>0, <2>2, RecordedRows
    <3>2. ~(n - 1 <= trip.finalized) => rows[n - 1].intent = "pending"
      <4>1. \A s \in Recorded : ~(s <= trip.finalized) => rows[s].intent = "pending"
        BY Zenon DEF Inv, DecidedPrefix
      <4> QED BY Zenon, <3>1, <4>1
    <3>3. rows[n - 1].intent # "pending"
      BY Zenon, <3>1 DEF Recording
    <3> QED BY <2>2, <3>2, <3>3
  <2>4. versions.accepted < n
    <3>1. n \notin Recorded
      BY <2>0, <2>1, <2>2, RecordedRows
    <3>2. versions.accepted > trip.finalized =>
            versions.accepted = trip.finalized + 1 /\ versions.accepted \in Recorded
      BY Zenon DEF Inv, PlannerIsAtMostOneAhead
    <3> QED BY <2>2, <2>3, <3>1, <3>2
  <2>5. /\ rows'[n] = NewRow(order) /\ \A s \in Seqs \ {n} : rows'[s] = rows[s]
    BY Zenon, <2>1 DEF Inv, TypeOK
  <2>6. /\ rows'[n].delivery = "pending" /\ rows'[n].expected = n - 1
        /\ rows[n].delivery = "pending"
    <3>1. rows[n] = NoRow
      BY <2>0, <2>1, <2>2, RecordedRows DEF Recorded
    <3> QED BY <2>2, <2>3, <2>5, <3>1, NewRowShape DEF NoRow
  <2>7. trip'.revision = trip'.finalized
    <3>1. CASE order = "runtime_first"
      BY <2>2, <3>1 DEF Recording, Inv, TypeOK
    <3>2. CASE order = "canonical_first"
      BY <2>0, <2>2, <2>3, <3>2 DEF Recording
    <3> QED BY <3>1, <3>2
  <2>8. \A s \in Seqs \ {n} : StableRow(s)'
    BY Zenon, <2>1, <2>5 DEF Stable, StableRow
  <2>9. StableRow(n)'
    BY <2>1, <2>2, <2>4, <2>6 DEF StableRow
  <2>10. StablePlanner'
    BY Zenon, <2>1 DEF Stable, StablePlanner
  <2>11. DatabaseStable'
    BY Zenon, <2>7, <2>8, <2>9, <2>10 DEF DatabaseStable
  <2>12. DeliveriesKept
    BY <2>1, <2>2, <2>5, <2>6 DEF DeliveriesKept
  <2>13. PICK b \in Backends : lease.holder = b
    BY Zenon DEF Stable, StableLease
  <2>14. \A c \in Backends : OnlyOld(c)
    BY Zenon, <2>1, <2>13, <1>OldRequests
  <2>15. StableDispatcher(dispatcher[b])'
    BY Zenon, <2>1, <2>12, <1>DispatcherStays DEF Inv, TypeOK
  <2>16. StableLease'
    BY Zenon, <2>1, <1>SameLease
  <2> QED BY Zenon, <2>1, <2>11, <2>12, <2>14, <2>15, <2>16, <1>StableMoves
(* Nobody activates the trip again, and the holder keeps it.                *)
<1>StableActivating.
    ASSUME "release" \notin Faults, Inv, Inv', Stable, NEW b \in Backends,
           Activating(b) \/ BootstrapTimeout(b)
    PROVE  Stable'
  <2> USE <1>StableActivating
  <2>1. supervisor[b].at \in {"inactive", "active"} /\ lease.live
    BY Zenon DEF Stable, StableLease
  <2>2. LeaseLost(b)
    BY Zenon, <2>1
    DEF Activating, BootstrapTimeout, Acquire, SendBootstrap, ResolveCanonicalBootstrap, Release
  <2>3. /\ UNCHANGED <<trip, rows, lease, versions, wire, dispatcher>>
        /\ supervisor' = [supervisor EXCEPT ![b] = Unheld]
        /\ supervisor[b].at = "active" /\ ~(Current(b) /\ lease.epoch = supervisor[b].epoch)
    BY Zenon, <2>2 DEF LeaseLost, database
  <2>4. PICK h \in Backends :
          lease.holder = h /\ supervisor[h].at = "active" /\ supervisor[h].epoch = 1
    BY Zenon DEF Stable, StableLease
  <2>5. h # b
    BY Zenon, <2>3, <2>4 DEF Stable, StableLease, Current
  <2>6. supervisor'[b] = Unheld /\ \A c \in Backends \ {b} : supervisor'[c] = supervisor[c]
    BY Zenon, <2>3 DEF Inv, TypeOK
  <2>7. StableLease'
    <3>1. supervisor'[b].at = "inactive"
      BY <2>6, Records
    <3> QED BY <2>3, <2>4, <2>5, <2>6, <3>1 DEF Stable, StableLease
  <2>8. DatabaseStable' /\ DeliveriesKept
    <3>1. RowsSteady
      BY Zenon, <2>3 DEF RowsSteady
    <3> QED BY Zenon, <3>1, <1>SteadyDatabase
  <2>9. \A c \in Backends : OnlyOld(c)
    BY Zenon, <2>3, <1>OldRequests
  <2>10. StableDispatcher(dispatcher[b])'
    BY Zenon, <2>3, <2>8, <1>DispatcherStays DEF Inv, TypeOK
  <2> QED BY Zenon, <2>3, <2>7, <2>8, <2>9, <2>10, <1>StableMoves
<1>NoExpiry.
    ASSUME Stable, "expiry" \notin Faults
    PROVE  ~LeaseExpires
  BY Zenon, <1>NoExpiry DEF Stable, StableLease, LeaseExpires, Renewed, Current
<1>StableUnchanged.
    ASSUME Inv, Inv', Stable, UNCHANGED vars
    PROVE  Stable'
  <2> USE <1>StableUnchanged
  <2>1. UNCHANGED <<trip, rows, lease, versions, wire, dispatcher, supervisor>>
    BY DEF vars, database
  <2>2. RowsSteady
    BY Zenon, <2>1 DEF RowsSteady
  <2>3. PICK b \in Backends : lease.holder = b
    BY Zenon DEF Stable, StableLease
  <2>4. StableDispatcher(dispatcher[b])'
    BY Zenon, <2>1, <2>2, <1>SteadyDatabase, <1>DispatcherStays DEF Inv, TypeOK
  <2> QED BY Zenon, <2>1, <2>2, <2>4, <1>OldRequests, <1>SteadyMoves
<1> SUFFICES ASSUME Faults \subseteq {"loss"}, Inv, Inv', Stable, [Next]_vars
             PROVE  Stable'
  BY Zenon
<1>1. /\ "rejection" \notin Faults /\ "expiry" \notin Faults /\ "release" \notin Faults
      /\ "planner_restart" \notin Faults /\ "backend_restart" \notin Faults
  BY Zenon
<1>2. CASE RecordRuntimeFirst \/ RecordCanonicalFirst
  <2>1. \E order \in {"runtime_first", "canonical_first"} : Recording(order)
    BY Zenon, <1>2 DEF RecordRuntimeFirst, RecordCanonicalFirst, Recording
  <2> QED BY Zenon, <2>1, <1>StableRecording
<1>3. CASE LeaseExpires \/ PlannerRestart \/ \E s \in Seqs : ClaimExpires(s)
  BY Zenon, <1>1, <1>3, <1>NoExpiry, <1>StableClaimExpires DEF PlannerRestart
<1>4. ASSUME NEW b \in Backends, Dispatching(b)
      PROVE  Stable'
  <2>1. ~Pause(b)
    BY Zenon, <1>NothingToPause DEF Pause
  <2> QED BY Zenon, <1>4, <2>1, <1>StableRecoverConfirmations, <1>StableClaimDue, <1>StableDispatch,
             <1>StableRetry, <1>StableFinalizeRuntimeFirst, <1>StableFinalizeCanonicalMirror,
             <1>StableSendConfirm, <1>StableConfirmFinalizedMutations DEF Dispatching
<1>5. ASSUME NEW b \in Backends,
             \/ Activating(b) \/ Timeout(b) \/ Deliver(b) \/ Drop(b) \/ BackendRestart(b)
      PROVE  Stable'
  BY Zenon, <1>1, <1>5, <1>StableActivating, <1>StableRetry, <1>StableDeliver, <1>StableDrop
  DEF Timeout, BackendRestart
<1>6. CASE UNCHANGED vars
  BY Zenon, <1>6, <1>StableUnchanged
<1> QED BY Zenon, <1>2, <1>3, <1>4, <1>5, <1>6 DEF Next

(* The trip that ActiveInit starts from is held and bootstrapped.           *)
LEMMA StableStart == ActiveInit => Stable
<1> SUFFICES ASSUME ActiveInit PROVE Stable
  BY Zenon
<1>1. PICK b \in Backends :
        /\ lease = [holder |-> b, epoch |-> 1, live |-> TRUE]
        /\ supervisor = [c \in Backends |->
             IF c = b THEN [Unheld EXCEPT !.at = "active", !.epoch = 1] ELSE Unheld]
  BY Zenon DEF ActiveInit
<1>2. StableLease
  BY Zenon, <1>1 DEF StableLease, Unheld
<1>3. versions.accepted = 1 /\ StablePlanner /\ trip.revision = trip.finalized
  BY DEF ActiveInit, Bootstrapped, StablePlanner
<1>4. \A s \in Seqs : StableRow(s)
  BY <1>3, SeqsFit DEF ActiveInit, StableRow, NoRow
<1>5. \A c \in Backends : dispatcher[c].at = "idle" /\ wire[c] = <<>>
  BY Zenon, Records DEF ActiveInit
<1>6. \A c \in Backends : StableDispatcher(dispatcher[c])
  BY Zenon, <1>5 DEF StableDispatcher
<1> QED BY <1>2, <1>3, <1>4, <1>5, <1>6 DEF Stable

(* Stable gives the three properties of an undisturbed delivery.            *)
LEMMA StableShows == Stable => ResolvedIsInPlanner /\ PlannerAgrees /\ NothingIsPaused
<1> SUFFICES ASSUME Stable PROVE ResolvedIsInPlanner /\ PlannerAgrees /\ NothingIsPaused
  BY Zenon
<1>1. \A s \in Seqs : Resolved(s) => s <= versions.accepted
  BY Zenon DEF Stable, StableRow, Resolved
<1>2. \A s \in Recorded : rows[s].delivery # "paused_internal"
  BY Zenon DEF Stable, StableRow, Recorded
<1>3. PlannerAgrees
  BY Zenon DEF Stable, StablePlanner, PlannerAgrees
<1> QED BY Zenon, <1>1, <1>2, <1>3 DEF ResolvedIsInPlanner, NothingIsPaused
=============================================================================
