---------------------- MODULE DurableDeliveryTheorems ------------------------
(***************************************************************************)
(* What follows from the invariants of DurableDelivery together: the       *)
(* revision of the trips row counts the applied commands, an edit that is  *)
(* shown as synced is in the planner, and a delivery that only loses       *)
(* messages pauses nothing.                                                *)
(***************************************************************************)
EXTENDS DurableDeliveryProofs, DurableSyncInvariant, FiniteSetTheorems

-----------------------------------------------------------------------------
(* A step leaves the outcomes alone, records the next command, or decides   *)
(* the open one (DatabaseChanges).  In each case the revision grows with    *)
(* the set of applied commands.                                             *)
AppliedRows == {s \in Recorded : rows[s].intent = "applied"}
Counted == trip.revision = 1 + Cardinality(AppliedRows)

(* Finitely many commands are recorded.                                     *)
LEMMA AppliedFinite ==
  ASSUME Inv
  PROVE  IsFiniteSet(AppliedRows)
<1>1. trip.next - 1 \in Int
  BY DEF Inv, TypeOK
<1>2. IsFiniteSet(Recorded)
  BY <1>1, RecordedRows, FS_Interval
<1> QED BY Zenon, <1>2, FS_Subset DEF AppliedRows

(* One more applied command is one more revision.                           *)
LEMMA OneMore ==
  ASSUME Inv, Counted, NEW s, s \notin AppliedRows, AppliedRows' = AppliedRows \cup {s},
         trip'.revision = trip.revision + 1
  PROVE  Counted'
<1>1. Cardinality(AppliedRows \cup {s}) = Cardinality(AppliedRows) + 1 /\ Cardinality(AppliedRows) \in Nat
  BY Zenon, AppliedFinite, FS_AddElement, FS_CardinalityType
<1>2. trip'.revision = 1 + (Cardinality(AppliedRows) + 1)
  BY <1>1 DEF Counted
<1> QED BY Zenon, <1>1, <1>2 DEF Counted

(* As many applied commands, the same revision.                             *)
LEMMA NoMore ==
  ASSUME Counted, AppliedRows' = AppliedRows, trip'.revision = trip.revision
  PROVE  Counted'
BY DEF Counted

(* An edit is applied, and counted, when it is recorded.                    *)
LEMMA RecordingCounts ==
  ASSUME Inv, Counted, NEW order \in {"runtime_first", "canonical_first"}, Recording(order)
  PROVE  Counted'
<1> DEFINE n == trip.next
<1>1. n \in Seqs /\ n \notin Recorded /\ Recorded \subseteq Seqs
  BY RecordedRows DEF Recording, Recorded
<1>2. /\ rows'[n] = NewRow(order) /\ \A s \in Seqs \ {n} : rows'[s] = rows[s]
  BY <1>1 DEF Recording, Inv, TypeOK
<1>3. /\ NewRow(order).order = order /\ NoRow.order = "none"
      /\ NewRow(order).intent = IF order = "runtime_first" THEN "pending" ELSE "applied"
  BY NewRowShape DEF NoRow
<1>4. Recorded' = Recorded \cup {n}
  BY <1>1, <1>2, <1>3 DEF Recorded
<1>5. n \notin AppliedRows
  BY <1>1 DEF AppliedRows
<1>6. CASE order = "canonical_first"
  <2>1. AppliedRows' = AppliedRows \cup {n}
    BY <1>1, <1>2, <1>3, <1>4, <1>6 DEF AppliedRows
  <2>2. trip'.revision = trip.revision + 1
    BY <1>6 DEF Recording
  <2> QED BY Zenon, <1>5, <2>1, <2>2, OneMore
<1>7. CASE order = "runtime_first"
  <2>1. AppliedRows' = AppliedRows
    BY <1>1, <1>2, <1>3, <1>4, <1>7 DEF AppliedRows
  <2>2. trip'.revision = trip.revision
    BY <1>7 DEF Recording, Inv, TypeOK
  <2> QED BY Zenon, <2>1, <2>2, NoMore
<1> QED BY <1>6, <1>7

(* A runtime-first command is counted when it is decided as applied.        *)
LEMMA DecidingCounts ==
  ASSUME Inv, Counted, NEW s \in Seqs, Deciding(s)
  PROVE  Counted'
<1>1. s \in Recorded /\ rows[s].intent = "pending" /\ s \notin AppliedRows /\ Recorded \subseteq Seqs
  BY DEF Deciding, AppliedRows, Recorded
<1>2. PICK intent \in {"applied", "rejected"} :
        \E delivery \in {"accepted", "terminal_rejected"} :
          /\ rows' = [rows EXCEPT ![s].intent = intent, ![s].delivery = delivery,
                                  ![s].claim = NoOwner]
          /\ trip' = [trip EXCEPT !.finalized = s,
                                  !.revision = IF intent = "applied" THEN @ + 1 ELSE @]
  BY Zenon DEF Deciding
<1>3. /\ rows'[s].intent = intent /\ rows'[s].order = rows[s].order
      /\ \A t \in Seqs \ {s} : rows'[t] = rows[t]
  BY <1>2 DEF Inv, TypeOK, Row
<1>4. trip'.revision = IF intent = "applied" THEN trip.revision + 1 ELSE trip.revision
  BY <1>2 DEF Inv, TypeOK
<1>5. Recorded' = Recorded
  <2>1. rows'[s] # NoRow
    BY <1>1, <1>3, RecordedRows DEF NoRow
  <2> QED BY Zenon, <1>1, <1>3, <2>1 DEF Recorded
<1>6. CASE intent = "applied"
  <2>1. AppliedRows' = AppliedRows \cup {s}
    BY <1>1, <1>3, <1>5, <1>6 DEF AppliedRows
  <2> QED BY <1>1, <1>4, <1>6, <2>1, OneMore
<1>7. CASE intent = "rejected"
  <2>1. AppliedRows' = AppliedRows
    BY <1>1, <1>3, <1>5, <1>7 DEF AppliedRows
  <2> QED BY <1>4, <1>7, <2>1, NoMore
<1> QED BY <1>6, <1>7

(* Every step keeps the count.                                              *)
LEMMA CountedStep == Inv /\ Counted /\ [Next]_vars => Counted'
<1> SUFFICES ASSUME Inv, Counted, [Next]_vars PROVE Counted'
  OBVIOUS
<1>1. CASE RowsKept
  <2>1. Recorded' = Recorded /\ trip' = trip /\ Recorded \subseteq Seqs
    BY <1>1, KeptRows DEF Recorded
  <2>2. AppliedRows' = AppliedRows
    BY <1>1, <2>1 DEF AppliedRows, RowsKept, RowKept
  <2> QED BY <2>1, <2>2, NoMore
<1> QED BY <1>1, RecordingCounts, DecidingCounts, DatabaseChanges

(* PostgreSQL decides the commands of a trip one after the other, and the   *)
(* revision counts the applied ones (MutationStore's finalizations).        *)
THEOREM DecidedInOrder == Spec => []FinalizedPrefix
<1>1. Init => Counted
  <2> SUFFICES ASSUME Init PROVE Counted
    OBVIOUS
  <2>1. AppliedRows = {} /\ trip.revision = 1
    BY DEF AppliedRows, Recorded, Init
  <2> QED BY <2>1, FS_EmptySet DEF Counted
<1>2. Inv /\ Counted => FinalizedPrefix
  BY Zenon DEF Inv, DecidedPrefix, Counted, AppliedRows, FinalizedPrefix
<1>3. Spec => []Inv
  BY DeliveryInvariance
<1> QED BY <1>1, <1>2, <1>3, CountedStep, PTL DEF Spec

-----------------------------------------------------------------------------
(* SyncedMirrorIsInPlanner, for every number of backends, commands, epochs  *)
(* and requests on their way: what FinalizeCanonicalMirror and              *)
(* ResolveCanonicalBootstrap mark as synced is in the planner of the lease  *)
(* that is current now, whatever is lost, late, expired or restarted.  The  *)
(* lease row must not be deleted: Release starts its epochs again at 1, and *)
(* then a bootstrap of the earlier lease can pass for one of the new.       *)
THEOREM SyncedEditsAreInPlanner ==
  ASSUME "release" \notin Faults
  PROVE  (Spec => []SyncedMirrorIsInPlanner) /\ (ActiveSpec => []SyncedMirrorIsInPlanner)
<1>1. Init \/ ActiveInit => SyncInv
  BY InitInv, ActiveInitInv, SyncStart
<1>2. SyncInv /\ [Next]_vars => SyncInv'
  <2>1. SyncInv => Inv
    BY DEF SyncInv
  <2> QED BY <2>1, NextInv, SyncNext
<1>3. SyncInv => SyncedMirrorIsInPlanner
  BY DEF SyncInv, LateFits, Reached, SyncedMirrorIsInPlanner, Recorded
<1> QED BY <1>1, <1>2, <1>3, PTL DEF Spec, ActiveSpec

-----------------------------------------------------------------------------
(* While one backend keeps the lease and the planner runs, losing messages  *)
(* does no harm, for every number of backends, commands and requests: a     *)
(* retried event is answered as a duplicate, and both answers finalize.     *)
LEMMA StableInvariance ==
  ASSUME Faults \subseteq {"loss"}
  PROVE  ActiveSpec => [](Inv /\ Stable)
<1>1. ActiveInit => Inv /\ Stable
  BY ActiveInitInv, StableStart
<1>2. Inv /\ Stable /\ [Next]_vars => (Inv /\ Stable)'
  BY Zenon, NextInv, StableNext
<1> QED BY <1>1, <1>2, PTL DEF ActiveSpec

(* ResolvedIsInPlanner: what the database shows as accepted or rejected has *)
(* been consumed by the planner of the current lease: FinalizeRuntimeFirst  *)
(* and FinalizeCanonicalMirror only act on the planner's answer.            *)
THEOREM ResolvedIsApplied ==
  ASSUME Faults \subseteq {"loss"}
  PROVE  ActiveSpec => []ResolvedIsInPlanner
BY StableInvariance, StableShows, PTL

(* PlannerAgrees: a planner that has consumed the same commands as          *)
(* PostgreSQL has the same trip revision, whatever was sent twice           *)
(* (preview_durable answers the second event as a duplicate).               *)
THEOREM VersionsAgree ==
  ASSUME Faults \subseteq {"loss"}
  PROVE  ActiveSpec => []PlannerAgrees
BY StableInvariance, StableShows, PTL

(* NothingIsPaused: the dispatcher never gives a trip up as paused_internal *)
(* (Pause), since no answer it can get is one it does not expect.           *)
THEOREM NeverPaused ==
  ASSUME Faults \subseteq {"loss"}
  PROVE  ActiveSpec => []NothingIsPaused
BY StableInvariance, StableShows, PTL
=============================================================================
