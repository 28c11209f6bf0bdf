------------------------- MODULE TripLifecycleProofs -------------------------
(***************************************************************************)
(* Proofs about SavedTrips and TripLifecycle, for every set of trips and   *)
(* activities and every number of flights, teardowns and faults.           *)
(*                                                                         *)
(* SavedTrips keeps its type, executes one trip at most, and the shifts of *)
(* an edit keep the ordinals of a saved plan 0 .. n-1.  TripLifecycle      *)
(* implements SavedTrips and, through the mapping of Execution,            *)
(* TripExecution.  Its supervisor renews one lease of a trip at most, and  *)
(* a trip becomes active only on a planner that was bootstrapped for it.   *)
(* The step lemmas come first, the theorems last.                          *)
(***************************************************************************)
EXTENDS TripSupervisorProofs, FiniteSetTheorems

-----------------------------------------------------------------------------
(* TripLifecycle: the lease beside the store                                *)

(* The ways a step changes the lease of t.                                  *)
LeaseStep(t) ==
  \/ /\ Exists(t) /\ ~lease[t].live /\ lease[t].epoch < MaxEpoch
     /\ lease' = [lease EXCEPT ![t] = [epoch |-> @.epoch + 1, live |-> TRUE]]
  \/ /\ lease[t].live
     /\ lease' = [lease EXCEPT ![t].live = FALSE]
  \/ lease' = [lease EXCEPT ![t] = NoLease]

(* The ways a step changes the row of t, with what the caller has checked.  *)
StoreStep(t) ==
  \/ Activate(t)
  \/ /\ CanCompleteActivation(t, trips[t].op) /\ lease[t].live
     /\ CompleteActivation(t)
  \/ Deactivate(t)
  \/ /\ CanCompleteDeactivation(t, trips[t].op) /\ IsReleased(t)
     /\ CompleteDeactivation(t)
  \/ RecordCommand(t)
  \/ \E applied \in BOOLEAN : CanFinalize(t, applied) /\ Finalize(t, applied)
  \/ trips[t].cmd # NoCommand /\ PauseCommand(t)

(* Every step is an edit, a step of the store with the lease left alone, a  *)
(* step of the lease with the store left alone, or neither.                 *)
LEMMA StepShape ==
  ASSUME Next
  PROVE  \/ UNCHANGED <<trips, saved, lease>>
         \/ \E t \in Trips :
              \/ EditTrip(t)
              \/ StoreStep(t) /\ UNCHANGED lease
              \/ LeaseStep(t) /\ UNCHANGED <<trips, saved>>
<1>1. CASE RecoveryLists \/ Crash
  BY <1>1 DEF RecoveryLists, Crash
<1>2. ASSUME NEW t \in Trips, ActivateTrip(t) \/ DeactivateTrip(t) \/ MessageRecords(t)
      PROVE  StoreStep(t) /\ UNCHANGED lease
  <2>1. CASE ActivateTrip(t)
    BY <2>1 DEF ActivateTrip, StoreStep
  <2>2. CASE DeactivateTrip(t)
    BY <2>2 DEF DeactivateTrip, StoreStep
  <2>3. CASE MessageRecords(t)
    BY <2>3 DEF MessageRecords, StoreStep
  <2> QED
    BY <1>2, <2>1, <2>2, <2>3
<1>3. ASSUME NEW t \in Trips, \/ ActivationRuns(t) \/ ActivationReadsState(t)
             \/ RecoverActivation(t) \/ RecoverDeactivation(t) \/ RecoverLease(t)
             \/ MessageArrives(t) \/ MessageEnds(t)
      PROVE  UNCHANGED <<trips, saved, lease>>
  BY Zenon, <1>3 DEF ActivationRuns, ActivationReadsState, RecoverActivation,
              RecoverDeactivation, RecoverLease, MessageArrives, MessageEnds
<1>4. ASSUME NEW t \in Trips, ActivationCompletes(t)
      PROVE  UNCHANGED <<trips, saved, lease>> \/ (StoreStep(t) /\ UNCHANGED lease)
  BY <1>4 DEF ActivationCompletes, CanCompleteActivation, HoldsLease, StoreStep, savedVars
<1>5. ASSUME NEW t \in Trips, Dispatch(t)
      PROVE  UNCHANGED <<trips, saved, lease>> \/ (StoreStep(t) /\ UNCHANGED lease)
  BY Zenon, <1>5 DEF Dispatch, Finalized, StoreStep, savedVars
<1>6. ASSUME NEW t \in Trips, NEW i \in Flights,
             FlightStep(t, i) \/ BootstrapIsLost(t, i) \/ RenewalEnds(t, i)
             \/ RenewalFails(t, i)
      PROVE  \/ UNCHANGED <<trips, saved, lease>>
             \/ LeaseStep(t) /\ UNCHANGED <<trips, saved>>
  BY Zenon, <1>6 DEF FlightStep, FlightGivesUp, FlightAcquires, FlightLoads, FlightBootstraps,
              FlightInstalls, BootstrapIsLost, RenewalEnds, RenewalFails, LeaseStep
<1>7. ASSUME NEW t \in Trips, NEW k \in Teardowns, TeardownStep(t, k)
      PROVE  \/ UNCHANGED <<trips, saved, lease>>
             \/ StoreStep(t) /\ UNCHANGED lease
             \/ LeaseStep(t) /\ UNCHANGED <<trips, saved>>
  BY <1>7 DEF TeardownStep, TeardownReads, TeardownReleases, TeardownDrops,
              TeardownCompletes, CanCompleteDeactivation, StoreStep, LeaseStep, savedVars
<1>8. ASSUME NEW t \in Trips, LeaseExpires(t)
      PROVE  LeaseStep(t) /\ UNCHANGED <<trips, saved>>
  BY <1>8 DEF LeaseExpires, LeaseStep
<1> QED
  BY <1>1, <1>2, <1>3, <1>4, <1>5, <1>6, <1>7, <1>8 DEF Next

(* The lease keeps its shape.                                               *)
LEMMA LeaseInvStep ==
  ASSUME LeaseInv, [Next]_vars
  PROVE  LeaseInv'
<1>1. ASSUME NEW t \in Trips, LeaseStep(t)
      PROVE  LeaseInv'
  <2>1. ASSUME NEW row \in [epoch : 0 .. MaxEpoch, live : BOOLEAN], row.live => row.epoch # 0,
               lease' = [lease EXCEPT ![t] = row]
        PROVE  LeaseInv'
    BY <2>1 DEF LeaseInv
  <2>2. CASE /\ lease[t].epoch < MaxEpoch
             /\ lease' = [lease EXCEPT ![t] = [epoch |-> @.epoch + 1, live |-> TRUE]]
    <3>1. lease[t].epoch + 1 \in 0 .. MaxEpoch /\ lease[t].epoch + 1 # 0
      BY <2>2, TripLifecycleAssumption DEF LeaseInv
    <3> QED
      BY <2>1, <2>2, <3>1 DEF LeaseInv
  <2>3. CASE lease' = [lease EXCEPT ![t].live = FALSE]
    BY Zenon, <2>3 DEF LeaseInv
  <2>4. CASE lease' = [lease EXCEPT ![t] = NoLease]
    <3>1. NoLease \in [epoch : 0 .. MaxEpoch, live : BOOLEAN] /\ ~NoLease.live
      BY TripLifecycleAssumption DEF NoLease
    <3> QED
      BY Zenon, <2>1, <2>4, <3>1
  <2> QED
    BY <1>1, <2>2, <2>3, <2>4 DEF LeaseStep
<1>2. ASSUME NEW t \in Trips, EditTrip(t)
      PROVE  LeaseInv'
  BY <1>2, TripLifecycleAssumption DEF LeaseInv, EditTrip, NoLease
<1>3. ASSUME UNCHANGED lease
      PROVE  LeaseInv'
  BY <1>3 DEF LeaseInv
<1> QED
  BY <1>1, <1>2, <1>3, StepShape DEF vars

(* What the goroutines do to the rows is what the store allows.             *)
LEMMA StepIsSaved ==
  ASSUME [Next]_vars
  PROVE  [SavedNext]_savedVars
<1>1. ASSUME NEW t \in Trips, EditTrip(t)
      PROVE  SavedNext
  BY <1>1 DEF EditTrip, SavedNext
<1>2. ASSUME NEW t \in Trips, StoreStep(t)
      PROVE  SavedNext
  BY <1>2 DEF StoreStep, SavedNext
<1> QED
  BY <1>1, <1>2, StepShape DEF vars, savedVars

-----------------------------------------------------------------------------
(* The steps of the mapping, one lemma for each way a row may change.       *)
LEMMA EditMaps ==
  ASSUME SavedInv, LeaseInv, NEW t \in Trips, EditTrip(t)
  PROVE  [Execution!Next]_(Execution!execution)
<1>1. trips \in [Trips -> TripRow]
  BY DEF SavedInv
<1>2. CASE Create(t)
  <2>1. trips' = [trips EXCEPT ![t] = [Absent EXCEPT !.state = "inactive",
                                                     !.revision = 1, !.next = 1]]
        /\ trips[t].state = "absent"
    BY <1>2 DEF Create
  <2>2. trips'[t].state = "inactive"
    BY <1>1, <2>1 DEF Absent
  <2>3. lease' = lease
    BY <2>2 DEF EditTrip
  <2>4. Execution!Save(t)
    BY Zenon, <1>1, <2>1, <2>3 DEF Execution!Save, Execution!Moves, Absent, AuthorityOf
  <2> QED
    BY <2>4 DEF Execution!Next
<1>3. CASE Delete(t)
  <2>1. trips' = [trips EXCEPT ![t] = [Absent EXCEPT !.state = "deleted"]]
        /\ trips[t].state = "inactive"
    BY <1>3 DEF Delete
  <2>2. trips'[t].state = "deleted"
    BY <1>1, <2>1 DEF Absent
  <2>3. lease' = [lease EXCEPT ![t] = NoLease]
    BY <2>2 DEF EditTrip
  <2>4. Execution!Remove(t)
    BY Zenon, <1>1, <2>1, <2>3
       DEF Execution!Remove, Execution!Moves, Absent, AuthorityOf, LeaseInv, NoLease
  <2> QED
    BY <2>4 DEF Execution!Next
<1>4. CASE Update(t) \/ AddActivity(t) \/ ReplaceActivity(t) \/ DeleteActivity(t)
  <2>1. trips' = [trips EXCEPT ![t].revision = @ + 1] /\ trips[t].state = "inactive"
    BY Zenon, <1>4 DEF Update, AddActivity, ReplaceActivity, DeleteActivity, CanEdit, Edited
  <2>2. trips'[t].state # "deleted"
    BY <1>1, <2>1 DEF TripRow
  <2>3. lease' = lease
    BY <2>2 DEF EditTrip
  <2>4. UNCHANGED Execution!execution
    BY <1>1, <2>1, <2>3 DEF Execution!execution, AuthorityOf, TripRow
  <2> QED
    BY <2>4
<1> QED
  BY <1>2, <1>3, <1>4 DEF EditTrip, Edit

(* The steps of the store.                                                  *)
LEMMA StoreMaps ==
  ASSUME SavedInv, LeaseInv, NEW t \in Trips, StoreStep(t), UNCHANGED lease
  PROVE  [Execution!Next]_(Execution!execution)
<1>1. trips \in [Trips -> TripRow] /\ Consistent(trips[t])
  BY DEF SavedInv
<1>2. CASE Activate(t)
  <2>1. Execution!Begin(t)
    BY Zenon, <1>1, <1>2 DEF Activate, CanActivate, Execution!Begin, Execution!Moves,
                      Execution!Busy, Executing, AuthorityOf, TripRow
  <2> QED
    BY <2>1 DEF Execution!Next
<1>3. CASE CanCompleteActivation(t, trips[t].op) /\ lease[t].live /\ CompleteActivation(t)
  <2>1. Execution!Publish(t)
    BY Zenon, <1>1, <1>3 DEF CanCompleteActivation, CompleteActivation, Execution!Publish,
                      Execution!Moves, AuthorityOf, LeaseInv, TripRow
  <2> QED
    BY <2>1 DEF Execution!Next
<1>4. CASE Deactivate(t)
  <2>1. Execution!End(t)
    BY Zenon, <1>1, <1>4 DEF Deactivate, Execution!End, Execution!Moves, AuthorityOf, TripRow
  <2> QED
    BY <2>1 DEF Execution!Next
<1>5. CASE /\ CanCompleteDeactivation(t, trips[t].op) /\ IsReleased(t)
           /\ CompleteDeactivation(t)
  <2>1. Execution!Over(t)
    BY Zenon, <1>1, <1>5 DEF CanCompleteDeactivation, CompleteDeactivation, IsReleased,
                      Execution!Over, Execution!Moves, AuthorityOf, TripRow
  <2> QED
    BY <2>1 DEF Execution!Next
<1>6. CASE RecordCommand(t)
  <2>1. Execution!Command(t)
    BY Zenon, <1>1, <1>6 DEF RecordCommand, Exists, Execution!Command, Execution!Known,
                      AuthorityOf, TripRow
  <2> QED
    BY <2>1 DEF Execution!Next
<1>7. ASSUME NEW applied \in BOOLEAN, CanFinalize(t, applied), Finalize(t, applied)
      PROVE  Execution!Next
  <2>1. /\ trips[t].state \notin {"absent", "deleted"}
        /\ trips[t].finalized + 1 = trips[t].cmd.seq
        /\ trips[t].cmd.seq < trips[t].next
    BY <1>1, <1>7 DEF CanFinalize, Consistent
  <2>2. Execution!Resolve(t)
    BY Zenon, <1>1, <1>7, <2>1 DEF Finalize, Execution!Resolve, Execution!Known, AuthorityOf,
                            TripRow
  <2> QED
    BY <2>2 DEF Execution!Next
<1>8. CASE PauseCommand(t)
  BY <1>1, <1>8 DEF PauseCommand, Execution!execution, AuthorityOf, TripRow
<1> QED
  BY <1>2, <1>3, <1>4, <1>5, <1>6, <1>7, <1>8 DEF StoreStep

(* The steps of the lease.                                                  *)
LEMMA LeaseMaps ==
  ASSUME LeaseInv, NEW t \in Trips, LeaseStep(t), UNCHANGED <<trips, saved>>
  PROVE  [Execution!Next]_(Execution!execution)
<1>1. lease[t].epoch \in Nat /\ lease[t].epoch + 1 # 0
  BY DEF LeaseInv
<1> SUFFICES Execution!Authority(t)
  BY Zenon DEF Execution!Next
<1> DEFINE au == [u \in Trips |-> AuthorityOf(u)]
<1>2. CASE /\ Exists(t) /\ ~lease[t].live
           /\ lease' = [lease EXCEPT ![t] = [epoch |-> @.epoch + 1, live |-> TRUE]]
  <2>1. au[t] # "held" /\ au' = [au EXCEPT ![t] = "held"]
    BY Zenon, <1>1, <1>2 DEF LeaseInv, AuthorityOf
  <2> QED
    BY <1>2, <2>1 DEF Execution!Authority, Execution!Known, Exists
<1>3. CASE lease[t].live /\ lease' = [lease EXCEPT ![t].live = FALSE]
  <2>1. au[t] = "held" /\ au' = [au EXCEPT ![t] = "lapsed"]
    BY Zenon, <1>1, <1>3 DEF LeaseInv, AuthorityOf
  <2> QED
    BY <1>3, <2>1 DEF Execution!Authority
<1>4. CASE lease' = [lease EXCEPT ![t] = NoLease]
  <2>1. au' = [au EXCEPT ![t] = "none"]
    BY Zenon, <1>4 DEF LeaseInv, AuthorityOf, NoLease
  <2> QED
    BY <1>4, <2>1 DEF Execution!Authority
<1> QED
  BY <1>2, <1>3, <1>4 DEF LeaseStep

(* A step of the goroutines, the recovery worker, a message or a fault is a *)
(* step of the execution or does not show in it.                            *)
LEMMA StepMaps ==
  ASSUME SavedInv, LeaseInv, [Next]_vars
  PROVE  [Execution!Next]_(Execution!execution)
<1>1. CASE UNCHANGED <<trips, saved, lease>>
  BY <1>1 DEF Execution!execution, AuthorityOf
<1> QED
  BY <1>1, StepShape, EditMaps, StoreMaps, LeaseMaps DEF vars

-----------------------------------------------------------------------------
(* The counters of the rows                                                 *)

(* A step of the store keeps the counters of the rows.                      *)
LEMMA RowsFitStep ==
  ASSUME SavedInv, RowsFit, [SavedNext]_savedVars
  PROVE  RowsFit'
<1>1. ASSUME NEW t \in Trips, NEW r, trips' = [trips EXCEPT ![t] = r], RowFits(r)
      PROVE  RowsFit'
  BY Zenon, <1>1 DEF RowsFit, SavedInv
<1>2. \A n \in Counter : n < MaxRevision \/ n < MaxSeq => n + 1 \in Counter
  BY TripLifecycleAssumption, SavedTripsAssumption, MaxU64Assumption DEF Counter
<1>3. 0 \in Counter /\ 1 \in Counter
  BY MaxU64Assumption DEF Counter
<1>4. ASSUME NEW t \in Trips, NEW r,
             trips' = [trips EXCEPT ![t] = r],
             /\ r.revision = trips[t].revision /\ r.next = trips[t].next
             /\ r.finalized = trips[t].finalized /\ r.cmd.seq = trips[t].cmd.seq
             /\ r.cmd.revision = trips[t].cmd.revision
             /\ r.cmd # NoCommand => trips[t].cmd # NoCommand
      PROVE  RowsFit'
  BY Zenon, <1>1, <1>4 DEF RowsFit, RowFits
<1>5. ASSUME NEW t \in Trips PROVE trips[t] \in TripRow /\ RowFits(trips[t])
  BY DEF SavedInv, RowsFit
<1>6. ASSUME NEW t \in Trips, Edit(t) PROVE RowsFit'
  <2>1. CASE Create(t)
    <3> DEFINE r == [Absent EXCEPT !.state = "inactive", !.revision = 1, !.next = 1]
    <3>1. trips' = [trips EXCEPT ![t] = r]
      BY Zenon, <2>1 DEF Create
    <3>2. RowFits(r)
      BY <1>3 DEF RowFits, Absent, NoCommand
    <3> HIDE DEF r
    <3> QED BY Zenon, <1>1, <3>1, <3>2
  <2>2. CASE Delete(t)
    <3> DEFINE r == [Absent EXCEPT !.state = "deleted"]
    <3>1. trips' = [trips EXCEPT ![t] = r]
      BY Zenon, <2>2 DEF Delete
    <3>2. RowFits(r)
      BY <1>3 DEF RowFits, Absent, NoCommand
    <3> HIDE DEF r
    <3> QED BY Zenon, <1>1, <3>1, <3>2
  <2>3. CASE Update(t) \/ AddActivity(t) \/ ReplaceActivity(t) \/ DeleteActivity(t)
    <3>1. trips' = [trips EXCEPT ![t].revision = @ + 1] /\ trips[t].revision < MaxRevision
      BY Zenon, <2>3 DEF Update, AddActivity, ReplaceActivity, DeleteActivity, CanEdit, Edited
    <3> DEFINE r == [trips[t] EXCEPT !.revision = @ + 1]
    <3>2. RowFits(r)
      BY <1>2, <1>5, <3>1 DEF RowFits, TripRow
    <3>3. trips' = [trips EXCEPT ![t] = r]
      BY Zenon, <3>1
    <3> HIDE DEF r
    <3> QED BY Zenon, <1>1, <3>2, <3>3
  <2> QED BY <1>6, <2>1, <2>2, <2>3 DEF Edit
<1>7. ASSUME NEW t \in Trips, Activate(t) PROVE RowsFit'
  <2> DEFINE r == [trips[t] EXCEPT !.state = "activating", !.plan = trips[t].next,
                        !.next = @ + 1, !.finalized = trips[t].next,
                        !.op = [kind |-> "activate", id |-> trips[t].next,
                                source |-> trips[t].revision]]
  <2>1. trips' = [trips EXCEPT ![t] = r] /\ trips[t].next < MaxSeq
    BY Zenon, <1>7 DEF Activate, CanActivate
  <2>2. RowFits(r)
    BY <1>2, <1>5, <2>1 DEF RowFits, TripRow
  <2> HIDE DEF r
  <2> QED BY Zenon, <1>1, <2>1, <2>2
<1>8. ASSUME NEW t \in Trips, CompleteActivation(t) \/ Deactivate(t) \/ CompleteDeactivation(t)
      PROVE  RowsFit'
  <2>1. CASE CompleteActivation(t)
    <3>1. trips' = [trips EXCEPT ![t] = [trips[t] EXCEPT !.state = "active", !.op = NoOperation]]
      BY Zenon, <1>5, <2>1 DEF CompleteActivation, SavedInv
    <3> QED BY Zenon, <1>4, <1>5, <3>1 DEF TripRow
  <2>2. CASE Deactivate(t)
    <3>1. PICK op : trips' = [trips EXCEPT ![t] =
                                [trips[t] EXCEPT !.state = "deactivating", !.op = op]]
      BY Zenon, <1>5, <2>2 DEF Deactivate, SavedInv
    <3> QED BY Zenon, <1>4, <1>5, <3>1 DEF TripRow
  <2>3. CASE CompleteDeactivation(t)
    <3>1. trips' = [trips EXCEPT ![t] = [trips[t] EXCEPT !.state = "inactive", !.plan = 0,
                                                         !.op = NoOperation]]
      BY Zenon, <1>5, <2>3 DEF CompleteDeactivation, SavedInv
    <3> QED BY Zenon, <1>4, <1>5, <3>1 DEF TripRow
  <2> QED BY <1>8, <2>1, <2>2, <2>3
<1>9. ASSUME NEW t \in Trips, RecordCommand(t) PROVE RowsFit'
  <2> DEFINE c == [seq |-> trips[t].next, paused |-> FALSE, revision |-> trips[t].revision]
             r == [trips[t] EXCEPT !.next = @ + 1, !.cmd = c]
  <2>1. /\ trips' = [trips EXCEPT ![t] = r]
        /\ trips[t].next < MaxSeq /\ trips[t].revision < MaxRevision
    BY Zenon, <1>9 DEF RecordCommand, SavedInv
  <2>2. RowFits(r)
    BY <1>2, <1>5, <2>1 DEF RowFits, TripRow
  <2> HIDE DEF r
  <2> QED BY Zenon, <1>1, <2>1, <2>2
<1>10. ASSUME NEW t \in Trips, NEW applied \in BOOLEAN,
              CanFinalize(t, applied), Finalize(t, applied)
       PROVE  RowsFit'
  <2> DEFINE r == [trips[t] EXCEPT !.finalized = trips[t].cmd.seq, !.cmd = NoCommand,
                                   !.revision = IF applied THEN @ + 1 ELSE @]
  <2>1. trips' = [trips EXCEPT ![t] = r]
    BY Zenon, <1>10 DEF Finalize, SavedInv
  <2>2. trips[t].revision < MaxRevision
    BY Zenon, <1>5, <1>10 DEF CanFinalize, RowFits
  <2>3. RowFits(r)
    BY <1>2, <1>3, <1>5, <2>2 DEF RowFits, TripRow, NoCommand
  <2> HIDE DEF r
  <2> QED BY Zenon, <1>1, <2>1, <2>3
<1>11. ASSUME NEW t \in Trips, trips[t].cmd # NoCommand, PauseCommand(t) PROVE RowsFit'
  <2>1. trips' = [trips EXCEPT ![t] = [trips[t] EXCEPT !.cmd =
                                         [trips[t].cmd EXCEPT !.paused = TRUE]]]
    BY Zenon, <1>11 DEF PauseCommand, SavedInv
  <2> QED BY Zenon, <1>4, <1>5, <1>11, <2>1 DEF TripRow
<1>12. CASE UNCHANGED savedVars
  BY <1>12 DEF savedVars, RowsFit
<1> QED BY Zenon, <1>6, <1>7, <1>8, <1>9, <1>10, <1>11, <1>12 DEF SavedNext

-----------------------------------------------------------------------------
(* The invariant of the goroutines                                          *)

(* Every step keeps the invariant.                                          *)
LEMMA LifecycleInvStep ==
  ASSUME LifecycleInv, SavedInv', [Next]_vars
  PROVE  LifecycleInv'
<1>1. LeaseInv' /\ RowsFit'
  BY LeaseInvStep, StepIsSaved, RowsFitStep DEF LifecycleInv
<1>2. CASE RecoveryLists \/ UNCHANGED vars
  <2>1. UNCHANGED <<supervisor, flights, planner>>
    BY Zenon, <1>2 DEF RecoveryLists, vars
  <2> QED BY <1>1, <2>1 DEF LifecycleInv, FlightsFit, OneLiveFlight, PlannerFits
<1>3. CASE Crash
  <2>1. /\ supervisor' = [t \in Trips |-> Dormant] /\ UNCHANGED planner
        /\ flights' = [t \in Trips |-> [i \in Flights |-> NoFlight]]
    BY Zenon, <1>3 DEF Crash
  <2>2. PlannerFits'
    BY <2>1 DEF LifecycleInv, PlannerFits
  <2>3. FlightsFit'
    BY <2>1, NoFlightFits DEF FlightsFit, OneLiveFlight, IsLive, Named, Dormant
  <2> QED BY <1>1, <2>2, <2>3 DEF LifecycleInv
<1>4. ASSUME NEW t \in Trips, NEW i \in Flights,
             FlightStep(t, i) \/ BootstrapIsLost(t, i) \/ RenewalEnds(t, i) \/ RenewalFails(t, i)
      PROVE  FlightsFit' /\ PlannerFits'
  BY Zenon, <1>4, FlightGoesOn, FlightAnswered, FlightOver DEF FlightStep
<1>5. CASE Next /\ ~RecoveryLists /\ ~Crash
  <2>1. FlightsFit' /\ PlannerFits'
    BY Zenon, <1>4, <1>5, OtherSteps DEF Next
  <2> QED BY <1>1, <2>1 DEF LifecycleInv
<1> QED BY <1>2, <1>3, <1>5

-----------------------------------------------------------------------------
(* The store                                                                *)

(* What an operation does to the row of its trip is all that happens to the *)
(* rows.                                                                    *)
LEMMA RowStep ==
  ASSUME SavedInv, NEW t \in Trips, NEW r \in TripRow, Consistent(r),
         r.state \in Executing =>
           \A u \in Trips \ {t} : trips[u].state \notin Executing,
         trips' = [trips EXCEPT ![t] = r]
  PROVE  /\ trips' \in [Trips -> TripRow]
         /\ \A u \in Trips : Consistent(trips'[u])
         /\ OneExecutingTrip'
<1>1. \A u \in Trips : trips'[u] = IF u = t THEN r ELSE trips[u]
  BY DEF SavedInv
<1>2. trips' \in [Trips -> TripRow]
  BY DEF SavedInv
<1>3. \A u \in Trips : Consistent(trips'[u])
  BY <1>1 DEF SavedInv
<1>4. OneExecutingTrip'
  BY <1>1 DEF SavedInv, OneExecutingTrip
<1> QED
  BY <1>2, <1>3, <1>4

(* An ordered plan in the place of another.                                 *)
LEMMA PlanStep ==
  ASSUME SavedInv, NEW t \in Trips, NEW plan, Ordered(plan),
         saved' = [saved EXCEPT ![t] = plan]
  PROVE  /\ DOMAIN saved' = Trips
         /\ \A u \in Trips : Ordered(saved'[u])
BY DEF SavedInv

(* A trip that executes is the only one.                                    *)
LEMMA OthersAreIdle ==
  ASSUME SavedInv, NEW t \in Trips, trips[t].state \in Executing
  PROVE  \A u \in Trips \ {t} : trips[u].state \notin Executing
BY DEF SavedInv, OneExecutingTrip

(* The transitions of the execution and the commands, which leave the saved *)
(* plans alone.                                                             *)
LEMMA ExecutionStep ==
  ASSUME SavedInv, NEW t \in Trips, NEW r \in TripRow, Consistent(r),
         r.state \in Executing =>
           \A u \in Trips \ {t} : trips[u].state \notin Executing,
         trips' = [trips EXCEPT ![t] = r], UNCHANGED saved
  PROVE  SavedInv'
BY Zenon, RowStep DEF SavedInv

(* The operations on the execution of a trip.                               *)
Executes(t) ==
  \/ Activate(t)
  \/ CanCompleteActivation(t, trips[t].op) /\ CompleteActivation(t)
  \/ Deactivate(t)
  \/ CanCompleteDeactivation(t, trips[t].op) /\ CompleteDeactivation(t)
  \/ RecordCommand(t)
  \/ \E applied \in BOOLEAN : CanFinalize(t, applied) /\ Finalize(t, applied)
  \/ trips[t].cmd # NoCommand /\ PauseCommand(t)

(* They preserve the invariant: they leave the plans alone.                 *)
LEMMA ExecutesStep ==
  ASSUME SavedInv, NEW t \in Trips, Executes(t)
  PROVE  SavedInv'
<1>1. trips[t] \in TripRow /\ Consistent(trips[t])
  BY DEF SavedInv
<1>2. /\ trips[t].revision \in Nat /\ trips[t].next \in Nat /\ trips[t].finalized \in Nat
      /\ trips[t].plan \in Nat /\ trips[t].cmd.seq \in Nat
  BY <1>1 DEF TripRow
<1>3. CASE Activate(t)
  <2> DEFINE r == [trips[t] EXCEPT !.state = "activating", !.plan = trips[t].next,
                     !.next = @ + 1, !.finalized = trips[t].next,
                     !.op = [kind |-> "activate", id |-> trips[t].next,
                             source |-> trips[t].revision]]
  <2>1. r \in TripRow
    <3>1. /\ [kind |-> "activate", id |-> trips[t].next, source |-> trips[t].revision]
               \in Operation
          /\ trips[t].next + 1 \in Nat
      BY <1>2 DEF Operation
    <3> QED
      BY Zenon, <1>1, <1>2, <3>1 DEF TripRow, ExecutionState
  <2>2. /\ r.state = "activating" /\ r.plan = trips[t].next /\ r.next = trips[t].next + 1
        /\ r.finalized = trips[t].next /\ r.op.kind = "activate" /\ r.cmd = trips[t].cmd
    BY <1>1 DEF TripRow
  <2>3. trips[t].finalized < trips[t].next /\ trips[t].cmd.seq < trips[t].next
    BY <1>1, <1>3 DEF Activate, CanActivate, Consistent
  <2>4. Consistent(r)
    BY <1>2, <2>2, <2>3 DEF Consistent, Executing
  <2>5. trips' = [trips EXCEPT ![t] = r] /\ UNCHANGED saved
    BY <1>3 DEF Activate
  <2>6. \A u \in Trips \ {t} : trips[u].state \notin Executing
    BY <1>3 DEF Activate, CanActivate
  <2> HIDE DEF r
  <2> QED
    BY Zenon, <2>1, <2>4, <2>5, <2>6, ExecutionStep
<1>4. CASE CanCompleteActivation(t, trips[t].op) /\ CompleteActivation(t)
  <2> DEFINE r == [trips[t] EXCEPT !.state = "active", !.op = NoOperation]
  <2>1. r \in TripRow
    BY Zenon, <1>1 DEF TripRow, Operation, NoOperation, ExecutionState
  <2>2. trips[t].state \in Executing
    BY <1>4 DEF CanCompleteActivation, Executing
  <2>3. /\ r.state = "active" /\ r.op.kind = "none" /\ r.plan = trips[t].plan
        /\ r.next = trips[t].next /\ r.finalized = trips[t].finalized
        /\ r.cmd = trips[t].cmd
    BY <1>1 DEF TripRow, NoOperation
  <2>4. Consistent(r)
    BY <1>1, <2>2, <2>3 DEF Consistent, Executing
  <2>5. trips' = [trips EXCEPT ![t] = r] /\ UNCHANGED saved
    BY Zenon, <1>4 DEF CompleteActivation, SavedInv
  <2> HIDE DEF r
  <2> QED
    BY Zenon, <2>1, <2>2, <2>4, <2>5, ExecutionStep, OthersAreIdle
<1>5. CASE Deactivate(t)
  <2> DEFINE r == [trips[t] EXCEPT !.state = "deactivating",
                     !.op = [kind |-> "deactivate", id |-> trips[t].plan,
                             source |-> trips[t].revision]]
  <2>1. r \in TripRow
    BY Zenon, <1>1, <1>2 DEF TripRow, Operation, ExecutionState
  <2>2. trips[t].state \in Executing
    BY <1>5 DEF Deactivate, Executing
  <2>3. /\ r.state = "deactivating" /\ r.op.kind = "deactivate" /\ r.plan = trips[t].plan
        /\ r.next = trips[t].next /\ r.finalized = trips[t].finalized
        /\ r.cmd = trips[t].cmd
    BY <1>1 DEF TripRow
  <2>4. Consistent(r)
    BY <1>1, <2>2, <2>3 DEF Consistent, Executing
  <2>5. trips' = [trips EXCEPT ![t] = r] /\ UNCHANGED saved
    BY Zenon, <1>5 DEF Deactivate, SavedInv
  <2> HIDE DEF r
  <2> QED
    BY Zenon, <2>1, <2>2, <2>4, <2>5, ExecutionStep, OthersAreIdle
<1>6. CASE CanCompleteDeactivation(t, trips[t].op) /\ CompleteDeactivation(t)
  <2> DEFINE r == [trips[t] EXCEPT !.state = "inactive", !.plan = 0, !.op = NoOperation]
  <2>1. r \in TripRow
    BY Zenon, <1>1 DEF TripRow, Operation, NoOperation, ExecutionState
  <2>2. trips[t].state \in Executing
    BY <1>6 DEF CanCompleteDeactivation, Executing
  <2>3. /\ r.state = "inactive" /\ r.op.kind = "none" /\ r.plan = 0
        /\ r.next = trips[t].next /\ r.finalized = trips[t].finalized
        /\ r.cmd = trips[t].cmd
    BY Zenon, <1>1 DEF TripRow, NoOperation
  <2>4. Consistent(r)
    BY <1>1, <2>2, <2>3 DEF Consistent, Executing
  <2>5. trips' = [trips EXCEPT ![t] = r] /\ UNCHANGED saved
    BY Zenon, <1>6 DEF CompleteDeactivation, SavedInv
  <2> HIDE DEF r
  <2> QED
    BY Zenon, <2>1, <2>2, <2>4, <2>5, ExecutionStep, OthersAreIdle
<1>7. CASE RecordCommand(t)
  <2> DEFINE r == [trips[t] EXCEPT !.next = @ + 1,
                     !.cmd = [seq |-> trips[t].next, paused |-> FALSE,
                              revision |-> trips[t].revision]]
  <2>1. r \in TripRow
    <3>1. trips[t].next + 1 \in Nat
      BY <1>2
    <3> QED
      BY Zenon, <1>1, <1>2, <3>1 DEF TripRow
  <2>2. /\ r.state = trips[t].state /\ r.op = trips[t].op /\ r.plan = trips[t].plan
        /\ r.next = trips[t].next + 1 /\ r.finalized = trips[t].finalized
        /\ r.cmd.seq = trips[t].next
    BY <1>1 DEF TripRow
  <2>3. trips[t].state \notin {"absent", "deleted"}
    BY Zenon, <1>7 DEF RecordCommand, Exists
  <2>4. Consistent(r)
    BY <1>1, <1>2, <2>2, <2>3 DEF Consistent, Executing
  <2>5. trips' = [trips EXCEPT ![t] = r] /\ UNCHANGED saved
    BY Zenon, <1>7 DEF RecordCommand, SavedInv
  <2> HIDE DEF r
  <2> QED
    BY Zenon, <2>1, <2>2, <2>4, <2>5, ExecutionStep, OthersAreIdle
<1>8. CASE \E applied \in BOOLEAN : CanFinalize(t, applied) /\ Finalize(t, applied)
  <2>1. PICK applied \in BOOLEAN : CanFinalize(t, applied) /\ Finalize(t, applied)
    BY <1>8
  <2> DEFINE r == [trips[t] EXCEPT !.finalized = trips[t].cmd.seq, !.cmd = NoCommand,
                     !.revision = IF applied THEN @ + 1 ELSE @]
  <2>2. r \in TripRow
    <3>1. (IF applied THEN trips[t].revision + 1 ELSE trips[t].revision) \in Nat
      BY <1>2
    <3> QED
      BY Zenon, <1>1, <1>2, <3>1 DEF TripRow, NoCommand
  <2>3. /\ r.state = trips[t].state /\ r.op = trips[t].op /\ r.plan = trips[t].plan
        /\ r.next = trips[t].next /\ r.finalized = trips[t].cmd.seq /\ r.cmd = NoCommand
    BY Zenon, <1>1 DEF TripRow
  <2>4. trips[t].state \notin {"absent", "deleted"}
    BY Zenon, <1>1, <2>1 DEF CanFinalize, Consistent
  <2>5. Consistent(r)
    BY <1>1, <1>2, <2>3, <2>4 DEF Consistent, NoCommand
  <2>6. trips' = [trips EXCEPT ![t] = r] /\ UNCHANGED saved
    BY Zenon, <2>1 DEF Finalize, SavedInv
  <2> HIDE DEF r
  <2> QED
    BY Zenon, <2>2, <2>3, <2>5, <2>6, ExecutionStep, OthersAreIdle
<1>9. CASE trips[t].cmd # NoCommand /\ PauseCommand(t)
  <2> DEFINE r == [trips[t] EXCEPT !.cmd = [@ EXCEPT !.paused = TRUE]]
  <2>1. r \in TripRow
    BY Zenon, <1>1 DEF TripRow
  <2>2. /\ r.state = trips[t].state /\ r.op = trips[t].op /\ r.plan = trips[t].plan
        /\ r.next = trips[t].next /\ r.finalized = trips[t].finalized
        /\ r.cmd.seq = trips[t].cmd.seq
    BY Zenon, <1>1 DEF TripRow
  <2>3. trips[t].state \notin {"absent", "deleted"}
    BY Zenon, <1>1, <1>9 DEF Consistent
  <2>4. Consistent(r)
    BY <1>1, <2>2, <2>3 DEF Consistent
  <2>5. trips' = [trips EXCEPT ![t] = r] /\ UNCHANGED saved
    BY <1>9 DEF PauseCommand, SavedInv
  <2> HIDE DEF r
  <2> QED
    BY Zenon, <2>1, <2>2, <2>4, <2>5, ExecutionStep, OthersAreIdle
<1> QED
  BY <1>3, <1>4, <1>5, <1>6, <1>7, <1>8, <1>9 DEF Executes

(* No operation of the store takes a durable sequence back.                 *)
LEMMA SequenceStep ==
  ASSUME SavedInv, SavedNext, NEW u \in Trips
  PROVE  SequenceAdvances(u)
<1>1. PICK t \in Trips :
        \/ Edit(t)
        \/ Activate(t)
        \/ CanCompleteActivation(t, trips[t].op) /\ CompleteActivation(t)
        \/ Deactivate(t)
        \/ CanCompleteDeactivation(t, trips[t].op) /\ CompleteDeactivation(t)
        \/ RecordCommand(t)
        \/ \E applied \in BOOLEAN : CanFinalize(t, applied) /\ Finalize(t, applied)
        \/ trips[t].cmd # NoCommand /\ PauseCommand(t)
  BY DEF SavedNext
<1>2. trips \in [Trips -> TripRow] /\ trips[t] \in TripRow /\ Consistent(trips[t])
  BY DEF SavedInv
<1>3. CASE u # t
  <2>1. UNCHANGED trips[u]
    BY Zenon, <1>1, <1>2, <1>3
       DEF Edit, Create, Update, Delete, AddActivity, ReplaceActivity, DeleteActivity,
           Edited, Activate, CompleteActivation, Deactivate, CompleteDeactivation,
           RecordCommand, Finalize, PauseCommand
  <2> QED
    BY <2>1 DEF SequenceAdvances, SavedInv, TripRow
<1>4. CASE u = t
  <2>1. CASE Edit(t)
    <3>1. CASE Create(t)
      BY <1>4, <3>1 DEF Create, SequenceAdvances, Exists
    <3>2. CASE Delete(t)
      BY <1>2, <1>4, <3>2 DEF Delete, SequenceAdvances, Absent
    <3>3. CASE trips' = [trips EXCEPT ![t].revision = @ + 1]
      BY <1>2, <1>4, <3>3 DEF SequenceAdvances, TripRow
    <3> QED
      BY Zenon, <2>1, <3>1, <3>2, <3>3
         DEF Edit, Update, AddActivity, ReplaceActivity, DeleteActivity, Edited
  <2>2. CASE Activate(t)
    BY <1>2, <1>4, <2>2
       DEF Activate, CanActivate, SequenceAdvances, Consistent, Exists, TripRow
  <2>3. CASE CompleteActivation(t) \/ CompleteDeactivation(t)
    BY <1>2, <1>4, <2>3
       DEF CompleteActivation, CompleteDeactivation, SequenceAdvances, NoOperation,
           TripRow
  <2>4. CASE Deactivate(t)
    BY <1>2, <1>4, <2>4 DEF Deactivate, SequenceAdvances, TripRow
  <2>5. CASE RecordCommand(t)
    BY <1>2, <1>4, <2>5 DEF RecordCommand, SequenceAdvances, TripRow
  <2>6. ASSUME NEW applied \in BOOLEAN, CanFinalize(t, applied), Finalize(t, applied)
        PROVE  SequenceAdvances(t)
    BY <1>2, <2>6 DEF CanFinalize, Finalize, SequenceAdvances, TripRow
  <2>7. CASE PauseCommand(t)
    BY <1>2, <1>4, <2>7 DEF PauseCommand, SequenceAdvances, TripRow
  <2> QED
    BY <1>1, <1>4, <2>1, <2>2, <2>3, <2>4, <2>5, <2>6, <2>7
<1> QED
  BY <1>3, <1>4

-----------------------------------------------------------------------------
(* The plans                                                                *)

(* The plan's ordinals, element by element.                                 *)
Covers(plan, n) ==
  /\ \A x \in DOMAIN plan : plan[x].ordinal \in 0 .. n - 1
  /\ \A k \in 0 .. n - 1 : \E x \in DOMAIN plan : plan[x].ordinal = k

(* A saved plan has finitely many activities.                               *)
LEMMA PlanIsFinite ==
  ASSUME NEW plan, IsSavedPlan(plan)
  PROVE  IsFiniteSet(DOMAIN plan) /\ Cardinality(DOMAIN plan) \in Nat
<1>1. IsFiniteSet(DOMAIN plan)
  BY FS_Subset, SavedTripsAssumption DEF IsSavedPlan
<1> QED
  BY <1>1, FS_CardinalityType

(* Contiguous, said of each ordinal.                                        *)
LEMMA CoversIsContiguous ==
  ASSUME NEW plan
  PROVE  Contiguous(plan) <=> Covers(plan, Cardinality(DOMAIN plan))
BY DEF Contiguous, Covers

(* A new trip's plan: as many ordinals as activities, so none is used twice.*)
LEMMA NewPlanIsOrdered ==
  ASSUME NEW ids \in SUBSET Items, NEW plan \in Plans(ids)
  PROVE  Ordered(plan)
<1> DEFINE n == Cardinality(ids)
           f == [x \in ids |-> plan[x].ordinal]
<1>1. IsFiniteSet(ids) /\ n \in Nat
  BY FS_Subset, FS_CardinalityType, SavedTripsAssumption
<1>2. /\ plan \in [ids -> [ordinal : 0 .. n - 1, scheduled : BOOLEAN]]
      /\ Contiguous(plan)
  BY DEF Plans
<1>3. DOMAIN plan = ids
  BY <1>2
<1>4. IsSavedPlan(plan)
  BY <1>1, <1>2, <1>3 DEF IsSavedPlan, PlanRow
<1>5. f \in Surjection(ids, 0 .. n - 1)
  BY <1>1, <1>2, <1>3, CoversIsContiguous DEF Surjection, Covers
<1>6. Cardinality(0 .. n - 1) = n
  BY <1>1, FS_Interval
<1>7. f \in Injection(ids, 0 .. n - 1)
  BY <1>1, <1>5, <1>6, FS_SurjSameCardinalityImpliesInj
<1>8. Distinct(plan)
  BY Zenon, <1>3, <1>7 DEF Distinct, Injection, IsInjective
<1> QED
  BY <1>2, <1>4, <1>8 DEF Ordered

(* An activity is added at target: the rows from there on move up.          *)
LEMMA AddKeepsOrder ==
  ASSUME NEW plan, Ordered(plan),
         NEW x \in Items \ DOMAIN plan,
         NEW target \in 0 .. Cardinality(DOMAIN plan),
         NEW s \in BOOLEAN
  PROVE  Ordered([y \in DOMAIN plan \cup {x} |->
                    IF y = x THEN Row(target, s)
                    ELSE [plan[y] EXCEPT !.ordinal = AddShift(@, target)]])
<1> DEFINE D == DOMAIN plan
           n == Cardinality(D)
           new == [y \in D \cup {x} |->
                     IF y = x THEN Row(target, s)
                     ELSE [plan[y] EXCEPT !.ordinal = AddShift(@, target)]]
<1>1. IsFiniteSet(D) /\ n \in Nat
  BY PlanIsFinite DEF Ordered
<1>2. DOMAIN new = D \cup {x} /\ Cardinality(D \cup {x}) = n + 1
  BY Zenon, <1>1, FS_AddElement
<1>3. D \subseteq Items /\ plan \in [D -> PlanRow]
  BY DEF Ordered, IsSavedPlan
<1>4. Covers(plan, n) /\ Distinct(plan)
  BY CoversIsContiguous DEF Ordered
<1>5. /\ new[x].ordinal = target
      /\ \A y \in D : new[y].ordinal = IF plan[y].ordinal >= target
                                       THEN plan[y].ordinal + 1 ELSE plan[y].ordinal
  BY <1>1, <1>3 DEF Row, AddShift, PlanRow
<1>6. IsSavedPlan(new)
  BY <1>1, <1>2, <1>3 DEF IsSavedPlan, PlanRow, Row, AddShift
<1> HIDE DEF new
<1>7. Covers(new, n + 1)
  <2>1. \A y \in D \cup {x} : new[y].ordinal \in 0 .. n
    BY <1>1, <1>4, <1>5 DEF Covers
  <2>2. ASSUME NEW k \in 0 .. n
        PROVE  \E y \in D \cup {x} : new[y].ordinal = k
    <3>1. CASE k = target
      BY <1>5, <3>1
    <3>2. CASE k < target
      <4>1. PICK y \in D : plan[y].ordinal = k
        BY <1>1, <1>4, <3>2 DEF Covers
      <4> QED
        BY <1>5, <3>2, <4>1
    <3>3. CASE k > target
      <4>1. PICK y \in D : plan[y].ordinal = k - 1
        BY <1>1, <1>4, <3>3 DEF Covers
      <4> QED
        BY <1>1, <1>5, <3>3, <4>1
    <3>4. k = target \/ k < target \/ k > target
      BY <1>1
    <3> QED
      BY Zenon, <3>1, <3>2, <3>3, <3>4
  <2> QED
    <3>1. (n + 1) - 1 = n
      BY <1>1
    <3> HIDE DEF n, D
    <3> QED
      BY <1>2, <2>1, <2>2, <3>1 DEF Covers
<1>8. Distinct(new)
  <2>1. \A y \in D : plan[y].ordinal \in Nat
    BY <1>3 DEF PlanRow
  <2> QED
    BY <1>1, <1>2, <1>4, <1>5, <2>1 DEF Distinct
<1>20. Ordered(new)
  BY <1>2, <1>6, <1>7, <1>8, CoversIsContiguous DEF Ordered
<1> QED
  BY <1>20 DEF new

(* An activity moves to target: the rows between the two places move over.  *)
LEMMA ReplaceKeepsOrder ==
  ASSUME NEW plan, Ordered(plan),
         NEW x \in DOMAIN plan,
         NEW target \in 0 .. Cardinality(DOMAIN plan) - 1,
         NEW s \in BOOLEAN
  PROVE  Ordered([y \in DOMAIN plan |->
                    IF y = x THEN Row(target, s)
                    ELSE [plan[y] EXCEPT !.ordinal =
                            ReplaceShift(@, plan[x].ordinal, target)]])
<1> DEFINE D == DOMAIN plan
           n == Cardinality(D)
           old == plan[x].ordinal
           new == [y \in D |->
                     IF y = x THEN Row(target, s)
                     ELSE [plan[y] EXCEPT !.ordinal = ReplaceShift(@, old, target)]]
<1>1. n \in Nat
  BY PlanIsFinite DEF Ordered
<1>2. D \subseteq Items /\ plan \in [D -> PlanRow]
  BY DEF Ordered, IsSavedPlan
<1>3. Covers(plan, n) /\ Distinct(plan)
  BY CoversIsContiguous DEF Ordered
<1>4. \A y \in D : plan[y].ordinal \in Nat
  BY <1>2 DEF PlanRow
<1>5. /\ new[x].ordinal = target
      /\ \A y \in D \ {x} : new[y].ordinal = ReplaceShift(plan[y].ordinal, old, target)
  BY Zenon, <1>2 DEF Row, PlanRow
<1>6. \A y \in D \ {x} :
        new[y].ordinal =
          IF target < old /\ target <= plan[y].ordinal /\ plan[y].ordinal < old
          THEN plan[y].ordinal + 1
          ELSE IF target > old /\ old < plan[y].ordinal /\ plan[y].ordinal <= target
          THEN plan[y].ordinal - 1 ELSE plan[y].ordinal
  BY <1>1, <1>4, <1>5 DEF ReplaceShift
<1>7. \A y \in D \ {x} : plan[y].ordinal # old
  BY <1>3 DEF Distinct
<1>8. \A y \in D \ {x} : ReplaceShift(plan[y].ordinal, old, target) \in Nat
  BY <1>1, <1>4 DEF ReplaceShift
<1>9. DOMAIN new = D
  OBVIOUS
<1>14. new \in [D -> PlanRow]
  BY <1>2, <1>8 DEF PlanRow, Row
<1> HIDE DEF new
<1>10. \A y \in D : new[y].ordinal \in 0 .. n - 1
  <2>1. /\ target \in 0 .. n - 1 /\ old \in 0 .. n - 1
        /\ \A y \in D : plan[y].ordinal \in 0 .. n - 1
    BY Zenon, <1>3 DEF Covers
  <2>2. ASSUME NEW y \in D \ {x}
        PROVE  new[y].ordinal \in 0 .. n - 1
    BY <1>1, <1>6, <2>1
  <2> QED
    BY Zenon, <1>5, <2>1, <2>2
<1>11. IsSavedPlan(new)
  BY Zenon, <1>2, <1>9, <1>14 DEF IsSavedPlan
<1>12. Covers(new, n)
  <2>1. ASSUME NEW k \in 0 .. n - 1
        PROVE  \E y \in D : new[y].ordinal = k
    <3> DEFINE from == IF target < old /\ target < k /\ k <= old THEN k - 1
                       ELSE IF target > old /\ old <= k /\ k < target THEN k + 1 ELSE k
    <3>1. CASE k = target
      BY Zenon, <1>5, <3>1
    <3>2. CASE k # target
      <4>1. from \in 0 .. n - 1 /\ from # old
        BY <1>1, <1>3, <1>4, <3>2 DEF Covers
      <4>2. PICK y \in D : plan[y].ordinal = from
        BY Zenon, <1>3, <4>1 DEF Covers
      <4>3. y \in D \ {x}
        BY Zenon, <4>1, <4>2
      <4>4. new[y].ordinal = k
        BY <1>1, <1>4, <1>6, <3>2, <4>2, <4>3
      <4> QED
        BY Zenon, <4>4
    <3> QED
      BY <3>1, <3>2
  <2> QED
    BY Zenon, <1>9, <1>10, <2>1 DEF Covers
<1>13. Distinct(new)
  <2>1. \A y \in D \ {x} : new[y].ordinal # target
    BY <1>1, <1>4, <1>6, <1>7
  <2>2. \A y, z \in D \ {x} : new[y].ordinal = new[z].ordinal =>
          plan[y].ordinal = plan[z].ordinal
    BY <1>1, <1>4, <1>6, <1>7
  <2> QED
    BY <1>3, <1>5, <1>9, <2>1, <2>2 DEF Distinct
<1>20. Ordered(new)
  BY <1>9, <1>11, <1>12, <1>13, CoversIsContiguous DEF Ordered
<1> QED
  BY <1>20 DEF new

(* An activity is deleted: the rows after it move down.                     *)
LEMMA DeleteKeepsOrder ==
  ASSUME NEW plan, Ordered(plan), NEW x \in DOMAIN plan
  PROVE  Ordered([y \in DOMAIN plan \ {x} |->
                    [plan[y] EXCEPT !.ordinal = DeleteShift(@, plan[x].ordinal)]])
<1> DEFINE D == DOMAIN plan
           n == Cardinality(D)
           old == plan[x].ordinal
           new == [y \in D \ {x} |->
                     [plan[y] EXCEPT !.ordinal = DeleteShift(@, old)]]
<1>1. IsFiniteSet(D) /\ n \in Nat
  BY PlanIsFinite DEF Ordered
<1>2. DOMAIN new = D \ {x} /\ Cardinality(D \ {x}) = n - 1
  BY <1>1, FS_RemoveElement
<1>3. D \subseteq Items /\ plan \in [D -> PlanRow]
  BY DEF Ordered, IsSavedPlan
<1>4. Covers(plan, n) /\ Distinct(plan)
  BY CoversIsContiguous DEF Ordered
<1>5. \A y \in D : plan[y].ordinal \in Nat
  BY <1>3 DEF PlanRow
<1>6. \A y \in D \ {x} : /\ plan[y].ordinal # old
                         /\ new[y].ordinal = IF plan[y].ordinal > old
                                             THEN plan[y].ordinal - 1 ELSE plan[y].ordinal
  BY <1>3, <1>4, <1>5 DEF DeleteShift, PlanRow, Distinct
<1>7. IsSavedPlan(new)
  <2>1. \A y \in D \ {x} : DeleteShift(plan[y].ordinal, old) \in Nat
    BY <1>5 DEF DeleteShift
  <2> QED
    BY <1>2, <1>3, <2>1 DEF IsSavedPlan, PlanRow
<1> HIDE DEF new
<1>8. Covers(new, n - 1)
  <2>1. \A y \in D \ {x} : new[y].ordinal \in 0 .. n - 2
    BY <1>1, <1>4, <1>5, <1>6 DEF Covers
  <2>2. ASSUME NEW k \in 0 .. n - 2
        PROVE  \E y \in D \ {x} : new[y].ordinal = k
    <3> DEFINE from == IF k >= old THEN k + 1 ELSE k
    <3>1. from \in 0 .. n - 1 /\ from # old
      BY <1>1, <1>5
    <3>2. PICK y \in D : plan[y].ordinal = from
      BY <1>4, <3>1 DEF Covers
    <3>3. y \in D \ {x}
      BY Zenon, <3>1, <3>2
    <3> QED
      BY <1>1, <1>5, <1>6, <3>2, <3>3
  <2> QED
    <3>1. (n - 1) - 1 = n - 2
      BY <1>1
    <3> HIDE DEF n, D
    <3> QED
      BY <1>2, <2>1, <2>2, <3>1 DEF Covers
<1>9. Distinct(new)
  BY <1>2, <1>4, <1>5, <1>6 DEF Distinct
<1>20. Ordered(new)
  BY <1>2, <1>7, <1>8, <1>9, CoversIsContiguous DEF Ordered
<1> QED
  BY <1>20 DEF new

(* The edits of an inactive trip.                                           *)
LEMMA EditStep ==
  ASSUME SavedInv, NEW t \in Trips, Edit(t)
  PROVE  SavedInv'
<1>1. trips[t] \in TripRow /\ Consistent(trips[t]) /\ Ordered(saved[t])
  BY DEF SavedInv
<1>2. ASSUME NEW plan, Ordered(plan), CanEdit(t), Edited(t, plan)
      PROVE  SavedInv'
  <2> DEFINE r == [trips[t] EXCEPT !.revision = @ + 1]
  <2>1. r \in TripRow /\ r.state = "inactive" /\ Consistent(r)
    BY <1>1, <1>2 DEF TripRow, CanEdit, Consistent, Executing
  <2>2. trips' = [trips EXCEPT ![t] = r]
    BY <1>2 DEF Edited
  <2>3. r.state \notin Executing
    BY <2>1 DEF Executing
  <2> HIDE DEF r
  <2> QED
    BY Zenon, <1>2, <2>1, <2>2, <2>3, RowStep, PlanStep DEF SavedInv, Edited
<1>3. CASE Create(t)
  <2> DEFINE r == [Absent EXCEPT !.state = "inactive", !.revision = 1, !.next = 1]
  <2>1. r \in TripRow /\ Consistent(r) /\ r.state \notin Executing
    <3>1. r \in TripRow
      BY Zenon DEF Absent, TripRow, Operation, NoOperation, NoCommand, ExecutionState
    <3>2. /\ r.state = "inactive" /\ r.plan = 0 /\ r.op.kind = "none"
          /\ r.finalized = 0 /\ r.next = 1 /\ r.cmd.seq = 0
      BY DEF Absent, NoOperation, NoCommand
    <3> QED
      BY <3>1, <3>2 DEF Consistent, Executing
  <2>2. trips' = [trips EXCEPT ![t] = r]
    BY <1>3 DEF Create
  <2>3. PICK ids \in SUBSET Items :
          \E plan \in Plans(ids) : saved' = [saved EXCEPT ![t] = plan]
    BY Zenon, <1>3 DEF Create
  <2>4. PICK plan \in Plans(ids) : saved' = [saved EXCEPT ![t] = plan]
    BY Zenon, <2>3
  <2>5. Ordered(plan)
    BY NewPlanIsOrdered
  <2> HIDE DEF r
  <2> QED
    BY Zenon, <2>1, <2>2, <2>4, <2>5, RowStep, PlanStep DEF SavedInv
<1>4. CASE Update(t)
  BY <1>1, <1>2, <1>4 DEF Update
<1>5. CASE Delete(t)
  <2> DEFINE r == [Absent EXCEPT !.state = "deleted"]
  <2>1. r \in TripRow /\ Consistent(r) /\ r.state \notin Executing
    BY Zenon DEF Absent, TripRow, Operation, NoOperation, NoCommand, ExecutionState,
           Consistent, Executing
  <2>2. trips' = [trips EXCEPT ![t] = r]
    BY <1>5 DEF Delete
  <2>3. Ordered(NoPlan)
    <3>1. DOMAIN NoPlan = {}
      BY DEF NoPlan
    <3>2. Cardinality(DOMAIN NoPlan) = 0
      BY <3>1, FS_EmptySet
    <3>3. IsSavedPlan(NoPlan)
      BY DEF IsSavedPlan, NoPlan
    <3> QED
      BY <3>1, <3>2, <3>3, CoversIsContiguous DEF Ordered, Covers, Distinct
  <2> HIDE DEF r
  <2> QED
    BY Zenon, <1>5, <2>1, <2>2, <2>3, RowStep, PlanStep DEF SavedInv, Delete
<1>6. CASE AddActivity(t)
  <2> DEFINE New(x, target, s) ==
        [y \in DOMAIN saved[t] \cup {x} |->
           IF y = x THEN Row(target, s)
           ELSE [saved[t][y] EXCEPT !.ordinal = AddShift(@, target)]]
  <2>1. PICK x \in Items \ DOMAIN saved[t],
             target \in 0 .. Cardinality(DOMAIN saved[t]), s \in BOOLEAN :
          Edited(t, New(x, target, s))
    BY <1>6 DEF AddActivity
  <2>2. Ordered(New(x, target, s))
    BY <1>1, AddKeepsOrder
  <2> HIDE DEF New
  <2> QED
    BY <1>2, <1>6, <2>1, <2>2 DEF AddActivity
<1>7. CASE ReplaceActivity(t)
  <2> DEFINE New(x, target, s) ==
        [y \in DOMAIN saved[t] |->
           IF y = x THEN Row(target, s)
           ELSE [saved[t][y] EXCEPT !.ordinal =
                   ReplaceShift(@, saved[t][x].ordinal, target)]]
  <2>1. PICK x \in DOMAIN saved[t],
             target \in 0 .. Cardinality(DOMAIN saved[t]) - 1, s \in BOOLEAN :
          Edited(t, New(x, target, s))
    BY <1>7 DEF ReplaceActivity
  <2>2. Ordered(New(x, target, s))
    BY <1>1, ReplaceKeepsOrder
  <2> HIDE DEF New
  <2> QED
    BY <1>2, <1>7, <2>1, <2>2 DEF ReplaceActivity
<1>8. CASE DeleteActivity(t)
  <2> DEFINE New(x) ==
        [y \in DOMAIN saved[t] \ {x} |->
           [saved[t][y] EXCEPT !.ordinal = DeleteShift(@, saved[t][x].ordinal)]]
  <2>1. PICK x \in DOMAIN saved[t] : Edited(t, New(x))
    BY <1>8 DEF DeleteActivity
  <2>2. Ordered(New(x))
    BY Zenon, <1>1, DeleteKeepsOrder
  <2> HIDE DEF New
  <2> QED
    BY Zenon, <1>2, <1>8, <2>1, <2>2 DEF DeleteActivity
<1> QED
  BY <1>3, <1>4, <1>5, <1>6, <1>7, <1>8 DEF Edit

(* Every step of the store preserves the invariant.                         *)
LEMMA SavedInvStep ==
  ASSUME SavedInv, SavedNext
  PROVE  SavedInv'
<1>1. PICK t \in Trips : Edit(t) \/ Executes(t)
  BY DEF SavedNext, Executes
<1> QED BY Zenon, <1>1, EditStep, ExecutesStep

(* No trip exists at first.                                                 *)
LEMMA SavedInvInit == Init => SavedInv
<1> SUFFICES ASSUME Init PROVE SavedInv
  BY Zenon
<1>1. Absent \in TripRow
  BY Zenon DEF Absent, TripRow, Operation, NoOperation, NoCommand, ExecutionState
<1>2. Consistent(Absent) /\ Absent.state \notin Executing
  BY Zenon DEF Absent, Consistent, NoOperation, NoCommand, Executing
<1>3. Ordered(NoPlan)
  <2>1. DOMAIN NoPlan = {} /\ Cardinality(DOMAIN NoPlan) = 0
    BY Zenon, FS_EmptySet DEF NoPlan
  <2>2. IsSavedPlan(NoPlan)
    BY DEF IsSavedPlan, NoPlan
  <2> QED
    BY <2>1, <2>2, CoversIsContiguous DEF Ordered, Covers, Distinct
<1> QED
  BY <1>1, <1>2, <1>3 DEF Init, SavedInv, OneExecutingTrip

-----------------------------------------------------------------------------
(* The theorems                                                             *)

(* The store keeps its invariant whoever calls it and in whatever order.    *)
THEOREM SavedInvariance == SavedSpec => []SavedInv
<1>1. SavedInv /\ [SavedNext]_savedVars => SavedInv'
  <2>1. ASSUME SavedInv, UNCHANGED savedVars PROVE SavedInv'
    BY <2>1 DEF SavedInv, savedVars, OneExecutingTrip
  <2> QED
    BY Zenon, <2>1, SavedInvStep
<1> QED
  BY <1>1, SavedInvInit, PTL DEF SavedSpec

(* The rows keep their types and stay consistent (the CHECKs of the table). *)
THEOREM SavedTypeCorrectness == SavedSpec => []SavedTypeOK
<1>1. SavedInv => SavedTypeOK
  BY DEF SavedInv, SavedTypeOK, Ordered
<1> QED
  BY <1>1, SavedInvariance, PTL

(* At most one trip of a user executes: SavedTripStore.Activate's check of  *)
(* the other trips is enough for every later transition.                    *)
THEOREM ExecutesOneTrip == SavedSpec => []OneExecutingTrip
<1>1. SavedInv => OneExecutingTrip
  BY DEF SavedInv
<1> QED
  BY <1>1, SavedInvariance, PTL

(* The ordinals of every saved plan are 0 .. n-1, each of them once, after  *)
(* any sequence of edits (copySavedActivitiesForMutation).                  *)
THEOREM OrdinalsStayContiguous == SavedSpec => []OrdinalsAreContiguous
<1>1. SavedInv => OrdinalsAreContiguous
  BY DEF SavedInv, OrdinalsAreContiguous, Ordered, Distinct
<1> QED
  BY <1>1, SavedInvariance, PTL

(* The durable sequence of a trip is neither reset nor reused by any        *)
(* operation of the store, and the finalized sequence never goes back.      *)
THEOREM SequenceIsMonotonic == SavedSpec => SequenceNeverReused
<1>1. SavedInv /\ [SavedNext]_savedVars
        => [\A t \in Trips : SequenceAdvances(t)]_savedVars
  BY SequenceStep
<1> QED
  BY <1>1, SavedInvariance, PTL DEF SavedSpec, SequenceNeverReused

(* TripLifecycle implements SavedTrips: whatever is proved of the store     *)
(* holds of the goroutines that use it.                                     *)
THEOREM ImplementsSavedTrips == Spec => SavedSpec
<1>1. LifecycleInit => Init
  BY DEF LifecycleInit
<1>2. [Next]_vars => [SavedNext]_savedVars
  BY StepIsSaved
<1> QED
  BY <1>1, <1>2, PTL DEF Spec, SavedSpec

(* The invariant of the store holds of the goroutines that use it, beside   *)
(* that of the lease rows.                                                  *)
THEOREM LifecycleInvariance == Spec => [](SavedInv /\ LeaseInv)
<1>1. Spec => []SavedInv
  BY ImplementsSavedTrips, SavedInvariance, PTL
<1>2. LifecycleInit => LeaseInv
  BY TripLifecycleAssumption DEF LifecycleInit, LeaseInv, NoLease
<1>3. LeaseInv /\ [Next]_vars => LeaseInv'
  BY LeaseInvStep
<1> QED
  BY <1>1, <1>2, <1>3, PTL DEF Spec

(* One trip of the user executes at a time, however the goroutines, the     *)
(* recovery worker and crashes interleave.                                  *)
THEOREM LifecycleExecutesOneTrip == Spec => []OneExecutingTrip
  BY ImplementsSavedTrips, ExecutesOneTrip, PTL

(* TripLifecycle implements TripExecution: a trip is published as active    *)
(* only under a held lease, is over only when its lease row is gone, begins *)
(* only beside idle trips, and resolves its commands in order.              *)
THEOREM Refinement == Spec => ImplementsExecution
<1>1. LifecycleInit => Execution!Init
  BY DEF LifecycleInit, Init, Execution!Init, Absent, NoLease, AuthorityOf
<1>2. SavedInv /\ LeaseInv /\ [Next]_vars => [Execution!Next]_(Execution!execution)
  BY StepMaps
<1> QED
  BY <1>1, <1>2, LifecycleInvariance, PTL DEF Spec, ImplementsExecution, Execution!Spec

(* The invariant holds in every reachable state.                            *)
LEMMA GoroutinesInvariance == Spec => []LifecycleInv
<1>1. LifecycleInit /\ SavedInv => LifecycleInv
  <2> SUFFICES ASSUME LifecycleInit, SavedInv PROVE LifecycleInv
    BY Zenon
  <2>1. LeaseInv
    BY TripLifecycleAssumption DEF LifecycleInit, LeaseInv, NoLease
  <2>2. 0 \in Counter
    BY MaxU64Assumption DEF Counter
  <2>3. RowsFit
    BY Zenon, <2>2 DEF LifecycleInit, Init, RowsFit, RowFits, Absent, NoCommand
  <2>4. PlannerFits
    BY Zenon, <2>2 DEF LifecycleInit, PlannerFits, NoRuntime, Inactive, Versions
  <2>5. FlightsFit
    BY NoFlightFits DEF LifecycleInit, FlightsFit, OneLiveFlight, IsLive, Named, Dormant
  <2> QED BY <2>1, <2>3, <2>4, <2>5 DEF LifecycleInv
<1>2. LifecycleInv /\ SavedInv' /\ [Next]_vars => LifecycleInv'
  BY Zenon, LifecycleInvStep
<1> QED BY <1>1, <1>2, LifecycleInvariance, PTL DEF Spec

(* The goroutines keep the maps of the supervisor, the lease rows and the   *)
(* planner's versions in their ranges: what Load reads from the bigint      *)
(* columns never overflows the counters it is bootstrapped into.            *)
THEOREM LifecycleTypes == Spec => []LifecycleTypeOK
<1>1. LifecycleInv => LifecycleTypeOK
  <2>1. SavedInv => SavedTypeOK
    BY DEF SavedInv, SavedTypeOK, Ordered
  <2> QED BY <2>1 DEF LifecycleInv, FlightsFit, Maps, PlannerFits, LeaseInv, LifecycleTypeOK
<1> QED BY <1>1, GoroutinesInvariance, PTL

(* RuntimeSupervisor never has two flights of a trip that are not cancelled,*)
(* so it never renews two of its leases, however Activate, deactivate,      *)
(* failing flights, lost leases and crashes interleave, for every number of *)
(* flights that are still on their way out.                                 *)
THEOREM RenewsOneLease == Spec => []OneLiveFlight
<1>1. LifecycleInv => OneLiveFlight
  BY DEF LifecycleInv, FlightsFit
<1> QED BY <1>1, GoroutinesInvariance, PTL

(* Beside at most one teardown of a trip, a trip is published as active     *)
(* only when the planner was bootstrapped under the lease that is held, for *)
(* the execution plan, the revision and the finalized sequence of its row:  *)
(* what CompleteActivation checks in the database and what startActivation  *)
(* read from the supervisor before agree with what the planner has.  With   *)
(* two teardowns the code breaks this, as a run of TripLifecycle shows.     *)
THEOREM PublishesBootstrapped ==
  ASSUME MaxTeardowns \in {0, 1}
  PROVE  Spec => ActiveIsBootstrapped
<1>1. LifecycleInit => PublishInv
  <2> SUFFICES ASSUME LifecycleInit PROVE PublishInv
    BY Zenon
  <2>1. \A t \in Trips : trips[t].state # "activating"
    BY DEF LifecycleInit, Init, Absent
  <2> QED BY Zenon, <2>1, StartFits DEF LifecycleInit
<1>2. LifecycleInv /\ PublishInv /\ [Next]_vars => PublishInv'
  BY PublishInvStep
<1>3. LifecycleInv /\ PublishInv /\ [Next]_vars =>
        [\A t \in Trips :
           trips[t].state = "activating" /\ trips'[t].state = "active" =>
             /\ HoldsLease(t, planner[t].v.epoch)
             /\ planner[t].plan = trips[t].plan
             /\ planner[t].v.accepted = trips[t].finalized
             /\ planner[t].v.revision = trips[t].revision]_vars
  BY Zenon, PublishedIsInSync DEF InSync
<1> QED BY <1>1, <1>2, <1>3, GoroutinesInvariance, PTL DEF Spec, ActiveIsBootstrapped
=============================================================================
