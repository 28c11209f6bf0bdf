---------------------------- MODULE TripLifecycle ----------------------------
(***************************************************************************)
(* The execution of saved trips by one backend process: the transitions of *)
(* SavedTrips, the lease rows, the RuntimeSupervisor, the goroutines that  *)
(* complete a recorded transition (startActivation, startDeactivation),    *)
(* the recovery worker and the messages that activate a trip on their way. *)
(*                                                                         *)
(* A call of RuntimeSupervisor.Activate that finds the trip not active     *)
(* starts a flight: it acquires the lease, loads the trip, bootstraps the  *)
(* planner, installs the runtime state and then renews the lease.  Other   *)
(* callers wait for its result.  Cancelling a flight cancels its context.  *)
(***************************************************************************)
EXTENDS SavedTrips, TripRuntimeVersions

CONSTANTS
  MaxEpoch,         \* bound: the largest runtime epoch
  MaxFlights,       \* bound: flights of one trip at a time
  MaxTeardowns,     \* bound: deactivation goroutines of one trip at a time
  MaxActiveTrips,   \* maxActiveTrips of the supervisor
  MaxMessages,      \* bound: messages that activate a trip
  MaxFaults         \* bound: crashes, lost answers and late renewals

(* The bigint columns of the database fit the planner's unsigned counters.  *)
ASSUME TripLifecycleAssumption ==
  /\ MaxFlights \in Nat /\ MaxEpoch \in Nat
  /\ MaxEpoch <= MaxU64 /\ MaxRevision <= MaxU64 /\ MaxSeq <= MaxU64

VARIABLES
  lease,       \* trip_runtime_leases: epoch (0: no row) and not expired
  planner,     \* the planner's versions of the trip, and its plan
  supervisor,  \* the maps active, activating (flights) and state (epoch)
  flights,     \* the running calls of Activate and their renewal
  callers,     \* who waits for a flight, or goes on after one
  teardown,    \* the goroutines of startDeactivation
  listed,      \* the trips the recovery worker still has to activate
  budget       \* messages and faults so far

vars == <<trips, saved, lease, planner, supervisor, flights, callers, teardown,
          listed, budget>>

Flights == 1 .. MaxFlights

Teardowns == 1 .. MaxTeardowns

NoLease == [epoch |-> 0, live |-> FALSE]

NoRuntime == [v |-> Inactive, plan |-> 0]

Dormant == [active |-> 0, activating |-> 0, state |-> 0]

(* A flight remembers its epoch and, once it has loaded the trip, what it   *)
(* sends to the planner.                                                    *)
NoBase == [epoch |-> 0, revision |-> 0, finalized |-> 0, plan |-> 0]

NoFlight == [step |-> "none", cancelled |-> FALSE, epoch |-> 0, base |-> NoBase]

(* The callers of Activate: startActivation's goroutine, the recovery       *)
(* worker, and the admission worker of the trip's messages.                 *)
Callers == {"activation", "recovery", "message"}

Idle == [at |-> "idle", flight |-> 0, op |-> NoOperation, epoch |-> 0]

NoTeardown == [at |-> "idle", op |-> NoOperation, epoch |-> 0]

-----------------------------------------------------------------------------
LifecycleInit ==
  /\ Init
  /\ lease = [t \in Trips |-> NoLease]
  /\ planner = [t \in Trips |-> NoRuntime]
  /\ supervisor = [t \in Trips |-> Dormant]
  /\ flights = [t \in Trips |-> [i \in Flights |-> NoFlight]]
  /\ callers = [t \in Trips |-> [c \in Callers |-> Idle]]
  /\ teardown = [t \in Trips |-> [k \in Teardowns |-> NoTeardown]]
  /\ listed = {}
  /\ budget = [messages |-> 0, faults |-> 0]

Fault == budget.faults < MaxFaults /\ budget' = [budget EXCEPT !.faults = @ + 1]

(* The recovery worker is one loop: it goes on when nothing holds it.       *)
RecoveryIsIdle == \A t \in Trips : callers[t]["recovery"] = Idle

(* After a successful Activate the recovery worker has nothing more to do.  *)
Returned(c, caller) ==
  IF c = "recovery" THEN Idle ELSE [caller EXCEPT !.at = "ready", !.flight = 0]

(* RuntimeSupervisor.Activate up to the point where it leaves the lock: an  *)
(* active trip answers at once, or when the flight under way does; else a   *)
(* flight starts unless the process is at its capacity.                     *)
CallActivate(t, c, caller) ==
  LET sup == supervisor[t]
      free == {i \in Flights : flights[t][i] = NoFlight}
      After(next) == callers' = [callers EXCEPT ![t][c] = next]
  IN  \/ /\ sup.active # 0
         /\ After(IF sup.activating # 0
                  THEN [caller EXCEPT !.at = "wait", !.flight = sup.activating]
                  ELSE Returned(c, caller))
         /\ UNCHANGED <<supervisor, flights>>
      \/ /\ sup.active = 0
         /\ Cardinality({u \in Trips : supervisor[u].active # 0}) >= MaxActiveTrips
         /\ After(Idle)
         /\ UNCHANGED <<supervisor, flights>>
      \/ /\ sup.active = 0
         /\ Cardinality({u \in Trips : supervisor[u].active # 0}) < MaxActiveTrips
         /\ free # {}
         /\ LET i == CHOOSE j \in free : TRUE
            IN  /\ supervisor' = [supervisor EXCEPT ![t].active = i,
                                                    ![t].activating = i]
                /\ flights' = [flights EXCEPT ![t][i].step = "acquire"]
                /\ After([caller EXCEPT !.at = "own", !.flight = i])

-----------------------------------------------------------------------------
(* The goroutine of startActivation, for the pending operation of the trip; *)
(* activationRuns admits one per trip.                                      *)
Started(t, op) ==
  IF callers[t]["activation"] = Idle
  THEN [callers EXCEPT ![t]["activation"] = [Idle EXCEPT !.at = "start", !.op = op]]
  ELSE callers

ActivationRuns(t) ==
  /\ callers[t]["activation"].at = "start"
  /\ CallActivate(t, "activation", callers[t]["activation"])
  /\ UNCHANGED <<trips, saved, lease, planner, teardown, listed, budget>>

(* RuntimeState after a successful Activate.                                *)
ActivationReadsState(t) ==
  LET caller == callers[t]["activation"]
  IN  /\ caller.at = "ready"
      /\ callers' = [callers EXCEPT ![t]["activation"] =
           IF supervisor[t].state = 0 THEN Idle
           ELSE [caller EXCEPT !.at = "complete", !.epoch = supervisor[t].state]]
      /\ UNCHANGED <<trips, saved, lease, planner, supervisor, flights, teardown,
                     listed, budget>>

(* CompleteActivation asks for the holder's unexpired lease of that epoch.  *)
HoldsLease(t, epoch) == lease[t].live /\ lease[t].epoch = epoch

ActivationCompletes(t) ==
  LET caller == callers[t]["activation"]
  IN  /\ caller.at = "complete"
      /\ IF CanCompleteActivation(t, caller.op) /\ HoldsLease(t, caller.epoch)
         THEN CompleteActivation(t) ELSE UNCHANGED savedVars
      /\ callers' = [callers EXCEPT ![t]["activation"] = Idle]
      /\ UNCHANGED <<lease, planner, supervisor, flights, teardown, listed, budget>>

-----------------------------------------------------------------------------
(* Mutant: the failed flight stays in active.                               *)
FlightFails_keeping_active(t, i) ==
  LET named == supervisor[t].activating = i
      Left(c) == IF c.flight # i THEN c
                 ELSE IF c.at = "own" \/ named THEN Idle
                 ELSE [c EXCEPT !.at = "stuck", !.flight = 0]
  IN  /\ flights' = [flights EXCEPT ![t][i] = NoFlight]
      /\ supervisor' = IF named THEN [supervisor EXCEPT ![t].activating = 0]
                       ELSE supervisor
      /\ callers' = [callers EXCEPT ![t] = [c \in Callers |-> Left(@[c])]]

(* A flight that failed.  Only the flight that activating still names       *)
(* removes the entries and answers those who wait for it; its own caller    *)
(* returns in any case, and the others wait for ever.                       *)
FlightFails(t, i) ==
  LET named == supervisor[t].activating = i
      Left(c) == IF c.flight # i THEN c
                 ELSE IF c.at = "own" \/ named THEN Idle
                 ELSE [c EXCEPT !.at = "stuck", !.flight = 0]
  IN  /\ flights' = [flights EXCEPT ![t][i] = NoFlight]
      /\ supervisor' = IF named
                       THEN [supervisor EXCEPT ![t].active = 0, ![t].activating = 0]
                       ELSE supervisor
      /\ callers' = [callers EXCEPT ![t] = [c \in Callers |-> Left(@[c])]]

(* A call with a cancelled context, or one that finds the lease held.       *)
FlightGivesUp(t, i) ==
  LET f == flights[t][i]
  IN  /\ \/ f.step \in {"acquire", "load", "exchange"} /\ f.cancelled
         \/ f.step = "acquire" /\ (lease[t].live \/ ~Exists(t))
         \/ /\ f.step = "load"
            /\ trips[t].state \notin Executing \/ ~lease[t].live
      /\ FlightFails(t, i)
      /\ UNCHANGED <<trips, saved, lease, planner, teardown, listed, budget>>

(* LeaseStore.Acquire: the first row of a trip has epoch 1.                 *)
FlightAcquires(t, i) ==
  /\ flights[t][i].step = "acquire" /\ ~flights[t][i].cancelled
  /\ Exists(t)
  /\ ~lease[t].live
  /\ lease[t].epoch < MaxEpoch
  /\ lease' = [lease EXCEPT ![t] = [epoch |-> @.epoch + 1, live |-> TRUE]]
  /\ flights' = [flights EXCEPT ![t][i].step = "load",
                                ![t][i].epoch = lease[t].epoch + 1]
  /\ UNCHANGED <<trips, saved, planner, supervisor, callers, teardown, listed, budget>>

(* What Load returns of an executing trip, with the current lease's epoch;  *)
(* an inactive trip has no current plan and cannot be loaded.               *)
Base(t) ==
  [epoch |-> lease[t].epoch, revision |-> trips[t].revision,
   finalized |-> trips[t].finalized, plan |-> trips[t].plan]

(* Bootstrap: the current lease of the holder, then the canonical state.    *)
FlightLoads(t, i) ==
  /\ flights[t][i].step = "load" /\ ~flights[t][i].cancelled
  /\ lease[t].live
  /\ trips[t].state \in Executing
  /\ flights' = [flights EXCEPT ![t][i].step = "exchange", ![t][i].base = Base(t)]
  /\ UNCHANGED <<trips, saved, lease, planner, supervisor, callers, teardown,
                 listed, budget>>

BootstrapStatus(t, base) ==
  bootstrap_status(planner[t].v, base.epoch, base.revision, base.finalized, 0)

(* The planner installs a newer bootstrap, and answers with its own plan.   *)
BootstrapPlanner(t, base) ==
  planner' = IF BootstrapStatus(t, base) = "accepted"
             THEN [planner EXCEPT ![t] =
                     [v |-> Bootstrapped(base.epoch, base.revision, base.finalized, 0),
                      plan |-> base.plan]]
             ELSE planner

(* ResolveCanonicalBootstrap: nothing changed since the load, and no        *)
(* runtime-first command is unresolved at or below the finalized sequence.  *)
Converges(t, base) ==
  /\ base.revision = trips[t].revision
  /\ base.finalized = trips[t].finalized
  /\ base.plan = trips[t].plan
  /\ ~(trips[t].cmd.seq \in 1 .. trips[t].finalized)

FlightBootstraps(t, i) ==
  LET f == flights[t][i]
      ok == /\ BootstrapStatus(t, f.base) \in {"accepted", "duplicate"}
            /\ planner'[t].plan = f.base.plan
            /\ Converges(t, f.base)
  IN  /\ f.step = "exchange" /\ ~f.cancelled
      /\ BootstrapPlanner(t, f.base)
      /\ IF ok
         THEN /\ flights' = [flights EXCEPT ![t][i].step = "install",
                                            ![t][i].base = NoBase]
              /\ UNCHANGED <<supervisor, callers>>
         ELSE FlightFails(t, i)
      /\ UNCHANGED <<trips, saved, lease, teardown, listed, budget>>

(* The planner is not reached, or its answer is lost.                       *)
BootstrapIsLost(t, i) ==
  LET f == flights[t][i]
  IN  /\ f.step = "exchange" /\ ~f.cancelled
      /\ Fault
      /\ BootstrapPlanner(t, f.base) \/ UNCHANGED planner
      /\ FlightFails(t, i)
      /\ UNCHANGED <<trips, saved, lease, teardown, listed>>

(* Mutant: a flight that activating no longer names installs its state.     *)
FlightInstalls_unnamed(t, i) ==
  LET f == flights[t][i]
  IN  /\ f.step = "install"
      /\ supervisor' = [supervisor EXCEPT ![t].state = f.epoch, ![t].activating = 0]
      /\ flights' = [flights EXCEPT ![t][i].step = "renew"]
      /\ callers' = [callers EXCEPT ![t] =
           [c \in Callers |-> IF @[c].flight = i THEN Returned(c, @[c]) ELSE @[c]]]
      /\ UNCHANGED <<trips, saved, lease, planner, teardown, listed, budget>>

(* The end of Activate: the runtime state is stored, even when deactivate   *)
(* has removed the entry of active meanwhile.                               *)
FlightInstalls(t, i) ==
  LET f == flights[t][i]
      named == supervisor[t].activating = i
  IN  /\ f.step = "install"
      /\ IF named
         THEN /\ supervisor' = [supervisor EXCEPT ![t].state = f.epoch,
                                                  ![t].activating = 0]
              /\ flights' = [flights EXCEPT ![t][i].step = "renew"]
              /\ callers' = [callers EXCEPT ![t] =
                   [c \in Callers |-> IF @[c].flight = i THEN Returned(c, @[c])
                                      ELSE @[c]]]
         ELSE FlightFails(t, i)
      /\ UNCHANGED <<trips, saved, lease, planner, teardown, listed, budget>>

-----------------------------------------------------------------------------
(* Mutant: the flight that is forgotten is not cancelled.                   *)
Deactivated_without_cancel(t, done) ==
  /\ supervisor' = IF supervisor[t].active = 0 THEN supervisor
                   ELSE [supervisor EXCEPT ![t].active = 0, ![t].state = 0]
  /\ flights' = IF done = 0 THEN flights ELSE [flights EXCEPT ![t][done] = NoFlight]

(* RuntimeSupervisor.deactivate: it forgets whatever flight is active, but  *)
(* not the entry of activating.  done is a flight that ends with the call.  *)
Deactivated(t, done) ==
  LET i == supervisor[t].active
      ended == IF done = 0 THEN flights ELSE [flights EXCEPT ![t][done] = NoFlight]
  IN  IF i = 0
      THEN supervisor' = supervisor /\ flights' = ended
      ELSE /\ supervisor' = [supervisor EXCEPT ![t].active = 0, ![t].state = 0]
           /\ flights' = IF i = done THEN ended
                         ELSE [ended EXCEPT ![t][i].cancelled = TRUE]

(* A renewal that was cancelled returns.                                    *)
RenewalEnds(t, i) ==
  /\ flights[t][i].step = "renew" /\ flights[t][i].cancelled
  /\ flights' = [flights EXCEPT ![t][i] = NoFlight]
  /\ UNCHANGED <<trips, saved, lease, planner, supervisor, callers, teardown,
                 listed, budget>>

(* A renewal that fails, because the lease is lost or because it was        *)
(* cancelled inside the call, deactivates the trip.                         *)
RenewalFails(t, i) ==
  LET f == flights[t][i]
  IN  /\ f.step = "renew"
      /\ f.cancelled \/ ~HoldsLease(t, f.epoch)
      /\ Deactivated(t, i)
      /\ UNCHANGED <<trips, saved, lease, planner, callers, teardown, listed, budget>>

(* A lease expires when nothing renews it; one that a flight still works on *)
(* or renews expires only when the process is held up.                      *)
LeaseExpires(t) ==
  LET kept == \E i \in Flights : /\ flights[t][i].epoch = lease[t].epoch
                                 /\ flights[t][i].step # "none"
                                 /\ ~flights[t][i].cancelled
  IN  /\ lease[t].live
      /\ IF kept THEN Fault ELSE UNCHANGED budget
      /\ lease' = [lease EXCEPT ![t].live = FALSE]
      /\ UNCHANGED <<trips, saved, planner, supervisor, flights, callers, teardown,
                     listed>>

-----------------------------------------------------------------------------
(* The goroutines of startDeactivation.  Nothing keeps two of them apart:   *)
(* the recovery worker starts another one in every pass.                    *)
FreeTeardowns(t) == {k \in Teardowns : teardown[t][k] = NoTeardown}

TornDown(t, op) ==
  LET free == FreeTeardowns(t)
      k == CHOOSE j \in free : TRUE
  IN  IF free = {} THEN teardown
      ELSE [teardown EXCEPT ![t][k] = [at |-> "read", op |-> op, epoch |-> 0]]

(* RuntimeSupervisor.Deactivate: the epoch to release is that of the        *)
(* runtime state or, for a trip that is activating, of the current lease.   *)
TeardownReads(t, k) ==
  /\ teardown[t][k].at = "read"
  /\ teardown' = [teardown EXCEPT ![t][k].at = "release", ![t][k].epoch =
       IF supervisor[t].state # 0 THEN supervisor[t].state
       ELSE IF supervisor[t].activating # 0 /\ lease[t].live THEN lease[t].epoch
       ELSE 0]
  /\ UNCHANGED <<trips, saved, lease, planner, supervisor, flights, callers, listed,
                 budget>>

(* LeaseStore.Release deletes the row of that epoch.                        *)
TeardownReleases(t, k) ==
  /\ teardown[t][k].at = "release"
  /\ lease' = IF teardown[t][k].epoch # 0 /\ lease[t].epoch = teardown[t][k].epoch
              THEN [lease EXCEPT ![t] = NoLease] ELSE lease
  /\ teardown' = [teardown EXCEPT ![t][k].at = "drop", ![t][k].epoch = 0]
  /\ UNCHANGED <<trips, saved, planner, supervisor, flights, callers, listed, budget>>

TeardownDrops(t, k) ==
  /\ teardown[t][k].at = "drop"
  /\ Deactivated(t, 0)
  /\ teardown' = [teardown EXCEPT ![t][k].at = "complete"]
  /\ UNCHANGED <<trips, saved, lease, planner, callers, listed, budget>>

(* Mutant: the lease row is not looked for.                                 *)
IsReleased_unchecked(t) == TRUE

(* CompleteDeactivation refuses a trip that has a lease row.                *)
IsReleased(t) == lease[t].epoch = 0

TeardownCompletes(t, k) ==
  /\ teardown[t][k].at = "complete"
  /\ IF CanCompleteDeactivation(t, teardown[t][k].op) /\ IsReleased(t)
     THEN CompleteDeactivation(t) ELSE UNCHANGED savedVars
  /\ teardown' = [teardown EXCEPT ![t][k] = NoTeardown]
  /\ UNCHANGED <<lease, planner, supervisor, flights, callers, listed, budget>>

-----------------------------------------------------------------------------
(* The HTTP requests.  Deleting a trip deletes its lease row with it.       *)
EditTrip(t) ==
  /\ Edit(t)
  /\ lease' = IF trips'[t].state = "deleted" THEN [lease EXCEPT ![t] = NoLease]
              ELSE lease
  /\ UNCHANGED <<planner, supervisor, flights, callers, teardown, listed, budget>>

ActivateTrip(t) ==
  /\ Activate(t)
  /\ callers' = Started(t, trips'[t].op)
  /\ UNCHANGED <<lease, planner, supervisor, flights, teardown, listed, budget>>

DeactivateTrip(t) ==
  /\ Deactivate(t)
  /\ teardown' = TornDown(t, trips'[t].op)
  /\ UNCHANGED <<lease, planner, supervisor, flights, callers, listed, budget>>

(* The recovery worker: pending activations, pending deactivations, then    *)
(* Activate for every trip that has a lease row when it lists them.         *)
RecoverActivation(t) ==
  /\ RecoveryIsIdle /\ listed = {}
  /\ trips[t].state = "activating"
  /\ callers[t]["activation"] = Idle
  /\ callers' = Started(t, trips[t].op)
  /\ UNCHANGED <<trips, saved, lease, planner, supervisor, flights, teardown, listed,
                 budget>>

RecoverDeactivation(t) ==
  /\ RecoveryIsIdle /\ listed = {}
  /\ trips[t].state = "deactivating"
  /\ FreeTeardowns(t) # {}
  /\ teardown' = TornDown(t, trips[t].op)
  /\ UNCHANGED <<trips, saved, lease, planner, supervisor, flights, callers, listed,
                 budget>>

RecoveryLists ==
  /\ RecoveryIsIdle /\ listed = {}
  /\ listed' = {t \in Trips : lease[t].epoch # 0}
  /\ listed' # {}
  /\ UNCHANGED <<trips, saved, lease, planner, supervisor, flights, callers, teardown,
                 budget>>

RecoverLease(t) ==
  /\ RecoveryIsIdle /\ t \in listed
  /\ listed' = listed \ {t}
  /\ CallActivate(t, "recovery", Idle)
  /\ UNCHANGED <<trips, saved, lease, planner, teardown, budget>>

-----------------------------------------------------------------------------
(* handleMessage: every message of a trip is preceded by Activate.          *)
MessageArrives(t) ==
  /\ Exists(t)
  /\ callers[t]["message"] = Idle
  /\ budget.messages < MaxMessages
  /\ budget' = [budget EXCEPT !.messages = @ + 1]
  /\ CallActivate(t, "message", Idle)
  /\ UNCHANGED <<trips, saved, lease, planner, teardown, listed>>

(* A subscription, a resynchronization, telemetry or a refused command.     *)
MessageEnds(t) ==
  /\ callers[t]["message"].at = "ready"
  /\ callers' = [callers EXCEPT ![t]["message"] = Idle]
  /\ UNCHANGED <<trips, saved, lease, planner, supervisor, flights, teardown, listed,
                 budget>>

(* A runtime-first command is recorded.                                     *)
MessageRecords(t) ==
  /\ callers[t]["message"].at = "ready"
  /\ RecordCommand(t)
  /\ callers' = [callers EXCEPT ![t]["message"] = Idle]
  /\ UNCHANGED <<lease, planner, supervisor, flights, teardown, listed, budget>>

(* A finalization that is refused changes nothing; the dispatcher retries.  *)
Finalized(t, applied) ==
  IF CanFinalize(t, applied) THEN Finalize(t, applied) ELSE UNCHANGED savedVars

(* The dispatcher sends the command under the current lease.  Delivery      *)
(* itself is the subject of DurableDelivery; here it is one step.           *)
Dispatch(t) ==
  LET v == planner[t].v
      cmd == trips[t].cmd
      status == preview_durable(v, lease[t].epoch, cmd.seq, cmd.revision, Unspecified)
  IN  /\ cmd # NoCommand /\ ~cmd.paused
      /\ lease[t].live
      /\ \/ /\ status = "accepted"
            /\ \/ /\ planner' = [planner EXCEPT ![t].v = accept_durable(v, cmd.seq)]
                  /\ Finalized(t, TRUE)
               \/ /\ planner' = [planner EXCEPT ![t].v =
                                   resolve_terminal_durable(v, cmd.seq)]
                  /\ Finalized(t, FALSE)
         \/ /\ status = "duplicate"
            /\ Finalized(t, TRUE)
            /\ UNCHANGED planner
         \/ /\ status \in {"stale_epoch", "stale_trip_revision",
                           "stale_mutation_sequence"}
            /\ PauseCommand(t)
            /\ UNCHANGED planner
      /\ UNCHANGED <<lease, supervisor, flights, callers, teardown, listed, budget>>

(* The process ends and is started again: only the database and the planner *)
(* keep their state.                                                        *)
Crash ==
  /\ Fault
  /\ supervisor' = [t \in Trips |-> Dormant]
  /\ flights' = [t \in Trips |-> [i \in Flights |-> NoFlight]]
  /\ callers' = [t \in Trips |-> [c \in Callers |-> Idle]]
  /\ teardown' = [t \in Trips |-> [k \in Teardowns |-> NoTeardown]]
  /\ listed' = {}
  /\ UNCHANGED <<trips, saved, lease, planner>>

-----------------------------------------------------------------------------
FlightStep(t, i) ==
  \/ FlightGivesUp(t, i) \/ FlightAcquires(t, i) \/ FlightLoads(t, i)
  \/ FlightBootstraps(t, i) \/ FlightInstalls(t, i)

TeardownStep(t, k) ==
  \/ TeardownReads(t, k) \/ TeardownReleases(t, k)
  \/ TeardownDrops(t, k) \/ TeardownCompletes(t, k)

Next ==
  \/ \E t \in Trips :
       \/ EditTrip(t) \/ ActivateTrip(t) \/ DeactivateTrip(t)
       \/ ActivationRuns(t) \/ ActivationReadsState(t) \/ ActivationCompletes(t)
       \/ RecoverActivation(t) \/ RecoverDeactivation(t) \/ RecoverLease(t)
       \/ MessageArrives(t) \/ MessageEnds(t) \/ MessageRecords(t) \/ Dispatch(t)
       \/ LeaseExpires(t)
       \/ \E i \in Flights :
            \/ FlightStep(t, i) \/ BootstrapIsLost(t, i)
            \/ RenewalEnds(t, i) \/ RenewalFails(t, i)
       \/ \E k \in Teardowns : TeardownStep(t, k)
  \/ RecoveryLists
  \/ Crash

Spec == LifecycleInit /\ [][Next]_vars

(* The goroutines go on, a lease that is not renewed expires, and the       *)
(* recovery worker, which comes back every second, starts every pending     *)
(* activation it can start.                                                 *)
Fairness ==
  \A t \in Trips :
    /\ WF_vars(ActivationRuns(t) \/ ActivationReadsState(t) \/ ActivationCompletes(t))
    /\ \A k \in Teardowns : WF_vars(TeardownStep(t, k))
    /\ SF_vars(RecoverActivation(t)) /\ WF_vars(RecoverLease(t))
    /\ WF_vars(MessageEnds(t)) /\ WF_vars(Dispatch(t))
    /\ WF_vars(LeaseExpires(t) /\ UNCHANGED budget)
    /\ \A i \in Flights :
         /\ WF_vars(FlightStep(t, i))
         /\ WF_vars(RenewalEnds(t, i) \/ RenewalFails(t, i))

FairSpec == Spec /\ Fairness

-----------------------------------------------------------------------------
(* Type invariant; a lease that is live has an epoch.                       *)
LifecycleTypeOK ==
  /\ SavedTypeOK
  /\ \A t \in Trips :
       /\ planner[t].v \in Versions
       /\ supervisor[t].active \in 0 .. MaxFlights
       /\ supervisor[t].activating \in 0 .. MaxFlights
       /\ lease[t].live => lease[t].epoch # 0
  /\ lease \in [Trips -> [epoch : 0 .. MaxEpoch, live : BOOLEAN]]

-----------------------------------------------------------------------------
(* The refinement mapping to TripExecution.                                 *)
AuthorityOf(t) ==
  CASE lease[t].epoch = 0 -> "none"
    [] lease[t].epoch # 0 /\ lease[t].live -> "held"
    [] OTHER -> "lapsed"

Execution ==
  INSTANCE TripExecution WITH
    state <- [t \in Trips |-> trips[t].state],
    authority <- [t \in Trips |-> AuthorityOf(t)],
    sequence <- [t \in Trips |-> trips[t].next],
    watermark <- [t \in Trips |-> trips[t].finalized]

(* The goroutines, the recovery worker and the messages together implement  *)
(* the execution of one trip at a time: it is published as active under a   *)
(* held lease, is over only when the lease row is gone, takes a fresh       *)
(* sequence, and resolves commands in order.                                *)
ImplementsExecution == Execution!Spec

-----------------------------------------------------------------------------
(* The supervisor never renews two leases of a trip: of the flights of a    *)
(* trip at most the one that active names is not cancelled.                 *)
OneLiveFlight ==
  \A t \in Trips, i \in Flights :
    flights[t][i].step # "none" /\ ~flights[t][i].cancelled
      => supervisor[t].active = i

(* A trip is published as active only when the planner has been bootstrapped*)
(* under the lease that is held, with the plan and the watermark of this    *)
(* activation and not of an earlier one.                                    *)
ActiveIsBootstrapped ==
  [][\A t \in Trips :
       trips[t].state = "activating" /\ trips'[t].state = "active" =>
         /\ HoldsLease(t, planner[t].v.epoch)
         /\ planner[t].plan = trips[t].plan
         /\ planner[t].v.accepted = trips[t].finalized
         /\ planner[t].v.revision = trips[t].revision]_vars

(* An activation that can never complete: the revision moved while it was   *)
(* pending, or an unresolved command is at or below its watermark.          *)
Wedged(t) ==
  /\ trips[t].state = "activating"
  /\ \/ trips[t].op.source # trips[t].revision
     \/ trips[t].cmd.seq \in 1 .. trips[t].finalized

(* A worker that waits for a flight that no longer answers anyone.          *)
IsStuck == \E t \in Trips, c \in {"activation", "recovery"} : callers[t][c].at = "stuck"

(* The bound on epochs keeps the lease from being acquired again.           *)
AtBound == \E t \in Trips : lease[t].epoch = MaxEpoch /\ ~lease[t].live

(* A recorded activation completes, after crashes, lost answers, lost       *)
(* leases and the epochs an earlier execution left in the planner, unless a *)
(* command overtook it or its worker was left waiting.                      *)
ActivationCompletesOrWedges ==
  \A t \in Trips : trips[t].state = "activating" ~>
    (trips[t].state # "activating" \/ Wedged(t) \/ IsStuck \/ AtBound)

=============================================================================
