------------------------ MODULE TripSupervisorProofs -------------------------
(***************************************************************************)
(* The inductive invariants of TripLifecycle, for every set of trips and   *)
(* activities and every number of flights and faults, and the steps that   *)
(* keep two of them: that what a trip is published with (its planner, its  *)
(* flight and its goroutines) agrees with its row, while it has one        *)
(* teardown at most; and that one flight of a trip is live.                *)
(* TripLifecycleProofs adds the store and the lease, and concludes.        *)
(***************************************************************************)
EXTENDS TripLifecycle, TLAPS

-----------------------------------------------------------------------------
(* The store, the lease rows, the flights and the planner                   *)

(* A plan uses no ordinal twice.                                            *)
Distinct(plan) ==
  \A x, y \in DOMAIN plan : plan[x].ordinal = plan[y].ordinal => x = y

Ordered(plan) == IsSavedPlan(plan) /\ Contiguous(plan) /\ Distinct(plan)

(* The inductive invariant: the type invariant, that one trip executes, and *)
(* that every plan is ordered.                                              *)
SavedInv ==
  /\ trips \in [Trips -> TripRow]
  /\ \A t \in Trips : Consistent(trips[t])
  /\ OneExecutingTrip
  /\ DOMAIN saved = Trips
  /\ \A t \in Trips : Ordered(saved[t])

(* A lease row has an epoch; the row that is missing is not live.           *)
LeaseInv ==
  /\ lease \in [Trips -> [epoch : 0 .. MaxEpoch, live : BOOLEAN]]
  /\ \A t \in Trips : lease[t].live => lease[t].epoch # 0

(* The flights of a trip beside the supervisor's maps.                      *)
Bases == [epoch : Counter, revision : Counter, finalized : Counter, plan : Nat]

Flight ==
  [step : {"none", "acquire", "load", "exchange", "install", "renew"},
   cancelled : BOOLEAN, epoch : 0 .. MaxEpoch, base : Bases]

Maps == [active : 0 .. MaxFlights, activating : 0 .. MaxFlights, state : 0 .. MaxEpoch]

IsLive(f) == f.step # "none" /\ ~f.cancelled

(* A flight that activating names is the one active names, unless           *)
(* deactivate has removed the entry of active.  A failing flight may only   *)
(* therefore remove both.                                                   *)
Named(m) == m.active # 0 /\ m.activating # 0 => m.active = m.activating

FlightsFit ==
  /\ supervisor \in [Trips -> Maps]
  /\ flights \in [Trips -> [Flights -> Flight]]
  /\ OneLiveFlight
  /\ \A t \in Trips : Named(supervisor[t])

(* The counters of the rows, which a flight and the dispatcher send to the  *)
(* planner, fit the planner's.                                              *)
RowFits(r) ==
  /\ r.revision \in Counter /\ r.next \in Counter /\ r.finalized \in Counter
  /\ r.cmd.seq \in Counter
  /\ r.cmd # NoCommand => r.cmd.revision < MaxRevision

RowsFit == \A t \in Trips : RowFits(trips[t])

(* The planner keeps versions.                                              *)
PlannerFits == planner \in [Trips -> [v : Versions, plan : Nat]]

(* The invariant of the goroutines.                                         *)
LifecycleInv == SavedInv /\ LeaseInv /\ RowsFit /\ FlightsFit /\ PlannerFits

(* No flight, and maps that name none.                                      *)
LEMMA NoFlightFits == NoFlight \in Flight /\ ~IsLive(NoFlight) /\ Dormant \in Maps
  BY TripLifecycleAssumption, MaxU64Assumption
     DEF NoFlight, NoBase, Flight, Bases, Counter, IsLive, Dormant, Maps

-----------------------------------------------------------------------------
(* What a trip is published with.  The invariant is about one trip: its     *)
(* row r, the epoch n of its lease row, its planner p, the supervisor's     *)
(* maps m, the flights fs, the goroutine c of startActivation and the       *)
(* goroutines td of startDeactivation.                                      *)
Caller ==
  [at : {"idle", "start", "own", "wait", "ready", "complete", "stuck"},
   flight : 0 .. MaxFlights, op : Operation, epoch : 0 .. MaxEpoch]

Teardown ==
  [at : {"idle", "read", "release", "drop", "complete"}, op : Operation,
   epoch : 0 .. MaxEpoch]

Dropping(td) == \E k \in Teardowns : td[k].at = "drop"

(* The flight active names runs, and activating names it until it renews.   *)
ActiveRuns(m, fs) ==
  m.active # 0 =>
    /\ IsLive(fs[m.active])
    /\ IF fs[m.active].step = "renew"
       THEN m.activating = 0 /\ m.state = fs[m.active].epoch
       ELSE m.activating = m.active

(* It works under the lease of the row, unless a teardown has released that *)
(* lease and is about to cancel it.                                         *)
ActiveHolds(r, n, m, fs, td) ==
  r.state # "deleted" /\ m.active # 0 /\ fs[m.active].step # "acquire" =>
    /\ fs[m.active].epoch # 0
    /\ \/ Dropping(td)
       \/ /\ fs[m.active].epoch = n
          /\ fs[m.active].step = "exchange" => fs[m.active].base.epoch = n

(* A trip that does not execute cannot be loaded.                           *)
RestingWaits(r, m, fs) ==
  r.state \in {"absent", "inactive"} /\ m.active # 0
    => fs[m.active].step \in {"acquire", "load"}

TearsDown(r, td) == \A k \in Teardowns : td[k].at # "idle" => r.state = "deactivating"

(* The goroutine's operation is an earlier one or the pending one.          *)
CallerFits(r, c) ==
  /\ r.state # "deleted" /\ c # Idle => r.state # "absent" /\ c.op.id < r.next
  /\ r.state = "activating" => r.op.id < r.next
  /\ c.flight # 0 => c.at \in {"own", "wait"}

(* The planner has what the row says, under epoch e.                        *)
InSync(r, p, e) ==
  /\ p.v.epoch = e /\ p.plan = r.plan
  /\ p.v.accepted = r.finalized /\ p.v.revision = r.revision

(* Who trusts epoch e may publish the trip while the lease has that epoch.  *)
Trusted(r, n, p, e) == e <= n /\ (e # 0 /\ e = n => InSync(r, p, e))

(* The goroutine has called Activate for the pending operation.             *)
Entered(r, c) == c.op = r.op /\ c.at \in {"own", "wait", "ready", "complete"}

(* Whose epoch the goroutine will come to trust.                            *)
Tracked(r, m, c) == {m.active} \cup (IF Entered(r, c) THEN {m.activating} ELSE {})

EpochsTrusted(r, n, p, m, fs, c) ==
  r.state = "activating" =>
    /\ Entered(r, c) /\ c.at = "complete" => Trusted(r, n, p, c.epoch)
    /\ Entered(r, c) /\ c.at = "ready" => Trusted(r, n, p, m.state)
    /\ \A k \in Tracked(r, m, c) :
         k # 0 /\ fs[k].step \in {"install", "renew"} => Trusted(r, n, p, fs[k].epoch)

View(r, n, p, m, fs, c, td) ==
  /\ ActiveRuns(m, fs)
  /\ ActiveHolds(r, n, m, fs, td)
  /\ RestingWaits(r, m, fs)
  /\ TearsDown(r, td)
  /\ CallerFits(r, c)
  /\ EpochsTrusted(r, n, p, m, fs, c)

TripView(t) ==
  View(trips[t], lease[t].epoch, planner[t], supervisor[t], flights[t],
       callers[t]["activation"], teardown[t])

PublishInv ==
  /\ callers \in [Trips -> [Callers -> Caller]]
  /\ teardown \in [Trips -> [Teardowns -> Teardown]]
  /\ \A t \in Trips : TripView(t)

(* What happens to one trip is all that happens.                            *)
OnlyTrip(t) ==
  \A u \in Trips \ {t} :
    /\ trips'[u] = trips[u] /\ lease'[u] = lease[u] /\ planner'[u] = planner[u]
    /\ supervisor'[u] = supervisor[u] /\ flights'[u] = flights[u]
    /\ callers'[u] = callers[u] /\ teardown'[u] = teardown[u]

(* The other trips keep their view.                                         *)
LEMMA OneTripMoves ==
  ASSUME PublishInv, NEW t \in Trips, OnlyTrip(t),
         callers' \in [Trips -> [Callers -> Caller]],
         teardown' \in [Trips -> [Teardowns -> Teardown]],
         TripView(t)'
  PROVE  PublishInv'
<1>1. ASSUME NEW u \in Trips \ {t} PROVE TripView(u)'
  <2>1. TripView(u)
    BY Zenon DEF PublishInv
  <2> QED BY Zenon, <1>1, <2>1 DEF TripView, OnlyTrip
<1> QED BY Zenon, <1>1 DEF PublishInv

(* The row moves within its state, or the planner, and what was trusted     *)
(* still is.                                                                *)
LEMMA TrustKept ==
  ASSUME NEW r, NEW n, NEW p, NEW m, NEW fs, NEW c, NEW td, NEW r2, NEW p2,
         View(r, n, p, m, fs, c, td),
         r2.state = r.state, r2.op = r.op,
         r.next \in Nat, r2.next \in Nat, r.next <= r2.next, r.op.id \in Nat, c.op.id \in Nat,
         r.state = "activating" =>
           \A e : Trusted(r, n, p, e) => Trusted(r2, n, p2, e)
  PROVE  View(r2, n, p2, m, fs, c, td)
<1>1. CallerFits(r2, c)
  BY DEF View, CallerFits
<1>2. Entered(r2, c) = Entered(r, c) /\ Tracked(r2, m, c) = Tracked(r, m, c)
  BY Zenon DEF Entered, Tracked
<1>3. EpochsTrusted(r2, n, p2, m, fs, c)
  BY Zenon, <1>2 DEF View, EpochsTrusted
<1> QED BY Zenon, <1>1, <1>3 DEF View, ActiveHolds, RestingWaits, TearsDown

(* The goroutine is somewhere else, and has not entered.                    *)
LEMMA CallerElsewhere ==
  ASSUME NEW r, NEW n, NEW p, NEW m, NEW fs, NEW c, NEW td, NEW c2,
         View(r, n, p, m, fs, c, td),
         CallerFits(r, c2), ~Entered(r, c2)
  PROVE  View(r, n, p, m, fs, c2, td)
<1>1. Tracked(r, m, c2) \subseteq Tracked(r, m, c)
  BY Zenon DEF Tracked
<1>2. EpochsTrusted(r, n, p, m, fs, c2)
  BY Zenon, <1>1 DEF View, EpochsTrusted
<1> QED BY Zenon, <1>2 DEF View

(* Flights end or are cancelled; the entry of active is as it was, with its *)
(* flight, or is removed with the state.                                    *)
LEMMA FlightsEnd ==
  ASSUME NEW r, NEW n \in Nat, NEW p, NEW m, NEW fs, NEW c, NEW td, NEW m2, NEW fs2,
         View(r, n, p, m, fs, c, td),
         m.activating \in Flights \cup {0},
         \A k \in Flights : \/ fs2[k].step = "none"
                            \/ fs2[k].step = fs[k].step /\ fs2[k].epoch = fs[k].epoch,
         \/ m2 = m /\ (m.active # 0 => fs2[m.active] = fs[m.active])
         \/ m2.active = 0 /\ m2.state = 0 /\ m2.activating = m.activating
  PROVE  View(r, n, p, m2, fs2, c, td)
<1>1. CASE m2 = m /\ (m.active # 0 => fs2[m.active] = fs[m.active])
  <2>1. ActiveRuns(m2, fs2) /\ ActiveHolds(r, n, m2, fs2, td) /\ RestingWaits(r, m2, fs2)
    BY <1>1 DEF View, ActiveRuns, ActiveHolds, RestingWaits
  <2>2. ASSUME NEW k \in Tracked(r, m, c), k # 0, fs2[k].step \in {"install", "renew"}
        PROVE  fs[k].step \in {"install", "renew"} /\ fs2[k].epoch = fs[k].epoch
    <3>1. k = m.active \/ k = m.activating
      BY Zenon DEF Tracked
    <3> QED BY <1>1, <2>2, <3>1
  <2>3. EpochsTrusted(r, n, p, m2, fs2, c)
    BY Zenon, <1>1, <2>2 DEF View, EpochsTrusted
  <2> QED BY Zenon, <2>1, <2>3 DEF View
<1>2. CASE m2.active = 0 /\ m2.state = 0 /\ m2.activating = m.activating
  <2>1. ActiveRuns(m2, fs2) /\ ActiveHolds(r, n, m2, fs2, td) /\ RestingWaits(r, m2, fs2)
    BY Zenon, <1>2 DEF ActiveRuns, ActiveHolds, RestingWaits
  <2>2. ASSUME NEW k \in Tracked(r, m2, c), k # 0, fs2[k].step \in {"install", "renew"}
        PROVE  /\ k \in Tracked(r, m, c)
               /\ fs2[k].step = fs[k].step /\ fs2[k].epoch = fs[k].epoch
    BY Zenon, <1>2, <2>2 DEF Tracked
  <2>3. Trusted(r, n, p, m2.state)
    BY <1>2 DEF Trusted
  <2>4. EpochsTrusted(r, n, p, m2, fs2, c)
    BY Zenon, <1>2, <2>2, <2>3 DEF View, EpochsTrusted
  <2> QED BY Zenon, <2>1, <2>4 DEF View
<1> QED BY <1>1, <1>2

(* FlightFails, for a flight that does not renew yet.                       *)
Failed(i, m, fs, m2, fs2) ==
  /\ m.active \in Flights \cup {0} /\ m.activating \in Flights \cup {0}
  /\ fs[i].step # "renew"
  /\ fs2[i] = NoFlight /\ \A k \in Flights \ {i} : fs2[k] = fs[k]
  /\ IF m.activating = i
     THEN m2.active = 0 /\ m2.activating = 0 /\ m2.state = m.state
     ELSE m2 = m

CallerLeft(r, c, c2) == c2 = c \/ (~Entered(r, c2) /\ CallerFits(r, c2))

(* The trip without the flight.                                             *)
LEMMA ViewFailed ==
  ASSUME NEW r, NEW n \in Nat, NEW p, NEW m, NEW fs, NEW c, NEW td,
         NEW i \in Flights, NEW m2, NEW fs2, NEW c2,
         View(r, n, p, m, fs, c, td), Failed(i, m, fs, m2, fs2), CallerLeft(r, c, c2)
  PROVE  View(r, n, p, m2, fs2, c2, td)
<1>1. i # 0
  BY DEF Flights
<1>2. m.active = i => m.activating = i
  BY Zenon, <1>1 DEF Failed, View, ActiveRuns
<1>3. fs2[i].step = "none"
  BY DEF Failed, NoFlight
<1>4. CASE m.activating # i
  <2>1. m2 = m /\ (m.active # 0 => fs2[m.active] = fs[m.active])
    BY Zenon, <1>2, <1>4 DEF Failed
  <2>2. \A k \in Flights : \/ fs2[k].step = "none"
                           \/ fs2[k].step = fs[k].step /\ fs2[k].epoch = fs[k].epoch
    BY Zenon, <1>3 DEF Failed
  <2>3. View(r, n, p, m2, fs2, c, td)
    BY <2>1, <2>2, FlightsEnd DEF Failed
  <2> QED BY Zenon, <2>3, CallerElsewhere DEF CallerLeft
<1>5. CASE m.activating = i
  <2>1. ActiveRuns(m2, fs2) /\ ActiveHolds(r, n, m2, fs2, td) /\ RestingWaits(r, m2, fs2)
    BY Zenon, <1>5 DEF Failed, ActiveRuns, ActiveHolds, RestingWaits
  <2>2. \A k \in Tracked(r, m2, c) : k = 0
    BY Zenon, <1>5 DEF Failed, Tracked
  <2>3. EpochsTrusted(r, n, p, m2, fs2, c)
    BY Zenon, <1>5, <2>2 DEF Failed, View, EpochsTrusted
  <2>4. View(r, n, p, m2, fs2, c, td)
    BY Zenon, <2>1, <2>3 DEF View
  <2> QED BY Zenon, <2>4, CallerElsewhere DEF CallerLeft
<1> QED BY <1>4, <1>5

(* Activate starts a flight.                                                *)
LEMMA ViewBegun ==
  ASSUME NEW r, NEW n \in Nat, NEW p, NEW m, NEW fs, NEW c, NEW td,
         NEW i \in Flights, NEW m2, NEW fs2, NEW c2,
         View(r, n, p, m, fs, c, td),
         IsLive(fs2[i]), fs2[i].step = "acquire",
         m2.active = i, m2.activating = i, m2.state = m.state,
         c2 = c \/ (CallerFits(r, c2) /\ c2.at = "own")
  PROVE  View(r, n, p, m2, fs2, c2, td)
<1>1. ActiveRuns(m2, fs2) /\ ActiveHolds(r, n, m2, fs2, td) /\ RestingWaits(r, m2, fs2)
  BY Zenon DEF ActiveRuns, ActiveHolds, RestingWaits
<1>2. \A k \in Tracked(r, m2, c2) : k = i
  BY Zenon DEF Tracked
<1>3. EpochsTrusted(r, n, p, m2, fs2, c2)
  BY Zenon, <1>2 DEF View, EpochsTrusted
<1> QED BY Zenon, <1>1, <1>3 DEF View

(* Activate finds the trip active.                                          *)
LEMMA ViewJoined ==
  ASSUME NEW r, NEW n \in Nat, NEW p, NEW m, NEW fs, NEW c, NEW td, NEW c2,
         View(r, n, p, m, fs, c, td), CallerFits(r, c2),
         m.active # 0,
         IF m.activating # 0 THEN c2.at = "wait" ELSE c2.at = "ready"
  PROVE  View(r, n, p, m, fs, c2, td)
<1>1. \A k \in Tracked(r, m, c2) : k # 0 => k = m.active
  BY Zenon DEF Tracked, View, ActiveRuns
<1>2. m.active \in Tracked(r, m, c)
  BY Zenon DEF Tracked
<1>3. c2.at = "ready" => fs[m.active].step = "renew" /\ m.state = fs[m.active].epoch
  BY Zenon DEF View, ActiveRuns
<1>4. EpochsTrusted(r, n, p, m, fs, c2)
  BY Zenon, <1>1, <1>2, <1>3 DEF View, EpochsTrusted
<1> QED BY Zenon, <1>4 DEF View

(* A flight acquires the lease.                                             *)
LEMMA ViewAcquired ==
  ASSUME NEW r, NEW n \in Nat, NEW p, NEW m, NEW fs, NEW c, NEW td,
         NEW i \in Flights, NEW fs2,
         View(r, n, p, m, fs, c, td),
         m.active = i, fs[i].step = "acquire",
         IsLive(fs2[i]), fs2[i].step = "load", fs2[i].epoch = n + 1,
         c.epoch \in Nat, m.state \in Nat
  PROVE  View(r, n + 1, p, m, fs2, c, td)
<1>1. i # 0
  BY DEF Flights
<1>2. m.activating = i
  BY Zenon, <1>1 DEF View, ActiveRuns
<1>3. ActiveRuns(m, fs2) /\ RestingWaits(r, m, fs2)
  BY Zenon, <1>2 DEF ActiveRuns, RestingWaits
<1>4. n + 1 # 0
  OBVIOUS
<1>5. ActiveHolds(r, n + 1, m, fs2, td)
  BY Zenon, <1>4 DEF ActiveHolds
<1>6. ASSUME NEW e, Trusted(r, n, p, e), e \in Nat PROVE Trusted(r, n + 1, p, e)
  BY <1>6 DEF Trusted
<1>7. \A k \in Tracked(r, m, c) : k = i
  BY Zenon, <1>2 DEF Tracked
<1> QED BY Zenon, <1>3, <1>5, <1>6, <1>7 DEF View, EpochsTrusted

(* A flight loads an executing trip.                                        *)
LEMMA ViewLoaded ==
  ASSUME NEW r, NEW n \in Nat, NEW p, NEW m, NEW fs, NEW c, NEW td,
         NEW i \in Flights, NEW fs2,
         View(r, n, p, m, fs, c, td),
         m.active = i, fs[i].step = "load", r.state \in Executing,
         IsLive(fs2[i]), fs2[i].step = "exchange", fs2[i].epoch = fs[i].epoch,
         fs2[i].base.epoch = n
  PROVE  View(r, n, p, m, fs2, c, td)
<1>1. i # 0
  BY DEF Flights
<1>2. m.activating = i
  BY Zenon, <1>1 DEF View, ActiveRuns
<1>3. ActiveRuns(m, fs2)
  BY Zenon, <1>2 DEF ActiveRuns
<1>4. RestingWaits(r, m, fs2)
  BY DEF RestingWaits, Executing
<1>5. ActiveHolds(r, n, m, fs2, td)
  BY Zenon, <1>1 DEF View, ActiveHolds
<1>6. \A k \in Tracked(r, m, c) : k = i
  BY Zenon, <1>2 DEF Tracked
<1> QED BY Zenon, <1>3, <1>4, <1>5, <1>6 DEF View, EpochsTrusted

(* The planner takes the bootstrap of an unchanged trip.                    *)
LEMMA ViewBootstrapped ==
  ASSUME NEW r, NEW n \in Nat, NEW p, NEW m, NEW fs, NEW c, NEW td,
         NEW i \in Flights, NEW fs2, NEW p2,
         View(r, n, p, m, fs, c, td),
         m.active = i, fs[i].step = "exchange",
         InSync(r, p2, fs[i].base.epoch),
         IsLive(fs2[i]), fs2[i].step = "install", fs2[i].epoch = fs[i].epoch
  PROVE  View(r, n, p2, m, fs2, c, td)
<1>1. i # 0
  BY DEF Flights
<1>2. m.activating = i
  BY Zenon, <1>1 DEF View, ActiveRuns
<1>3. ActiveRuns(m, fs2)
  BY Zenon, <1>2 DEF ActiveRuns
<1>4. RestingWaits(r, m, fs2)
  BY Zenon, <1>1 DEF View, RestingWaits
<1>5. ActiveHolds(r, n, m, fs2, td)
  BY Zenon, <1>1 DEF View, ActiveHolds
<1>6. \A k \in Tracked(r, m, c) : k = i
  BY Zenon, <1>2 DEF Tracked
<1>7. ASSUME r.state = "activating"
      PROVE  fs[i].epoch = n /\ fs[i].base.epoch = n
  BY Zenon, <1>1, <1>7 DEF View, ActiveHolds, Dropping, TearsDown
<1>8. ASSUME r.state = "activating", NEW e, Trusted(r, n, p, e)
      PROVE  Trusted(r, n, p2, e)
  BY Zenon, <1>7, <1>8 DEF Trusted
<1>9. ASSUME r.state = "activating"
      PROVE  Trusted(r, n, p2, fs2[i].epoch)
  BY <1>7, <1>9 DEF Trusted
<1>10. EpochsTrusted(r, n, p2, m, fs2, c)
  BY Zenon, <1>6, <1>8, <1>9 DEF View, EpochsTrusted
<1> QED BY Zenon, <1>3, <1>4, <1>5, <1>10 DEF View

(* The end of Activate for the flight that activating names.                *)
Installed(i, m, fs, m2, fs2) ==
  /\ m.activating = i /\ fs[i].step = "install"
  /\ m2.active = m.active /\ m2.activating = 0 /\ m2.state = fs[i].epoch
  /\ IsLive(fs2[i]) = IsLive(fs[i]) /\ fs2[i].step = "renew" /\ fs2[i].epoch = fs[i].epoch

CallerAnswered(i, c, c2) ==
  IF c.flight = i
  THEN c2.at = "ready" /\ c2.flight = 0 /\ c2.op = c.op /\ c # Idle
  ELSE c2 = c

(* The trip once its flight renews the lease.                               *)
LEMMA ViewInstalled ==
  ASSUME NEW r, NEW n \in Nat, NEW p, NEW m, NEW fs, NEW c, NEW td,
         NEW i \in Flights, NEW m2, NEW fs2, NEW c2,
         View(r, n, p, m, fs, c, td), Installed(i, m, fs, m2, fs2), CallerAnswered(i, c, c2)
  PROVE  View(r, n, p, m2, fs2, c2, td)
<1>1. i # 0
  BY DEF Flights
<1>2. m.active # 0 => m.active = i
  BY Zenon, <1>1 DEF Installed, View, ActiveRuns
<1>3. ActiveRuns(m2, fs2)
  BY Zenon, <1>2 DEF Installed, View, ActiveRuns
<1>4. RestingWaits(r, m2, fs2)
  BY Zenon, <1>1, <1>2 DEF Installed, View, RestingWaits
<1>5. ActiveHolds(r, n, m2, fs2, td)
  BY Zenon, <1>1, <1>2 DEF Installed, View, ActiveHolds
<1>6. CallerFits(r, c2)
  BY Zenon DEF CallerAnswered, View, CallerFits
<1>7. Entered(r, c2) => Entered(r, c) /\ i \in Tracked(r, m, c)
  BY Zenon, <1>1 DEF Installed, CallerAnswered, View, CallerFits, Entered, Tracked
<1>8. \A k \in Tracked(r, m2, c2) : k # 0 => k = i /\ i \in Tracked(r, m, c)
  BY Zenon, <1>2 DEF Installed, Tracked
<1>9. ASSUME r.state = "activating", i \in Tracked(r, m, c)
      PROVE  Trusted(r, n, p, fs[i].epoch)
  BY Zenon, <1>1, <1>9 DEF Installed, View, EpochsTrusted
<1>10. c2.at = "complete" => c2 = c
  BY Zenon DEF CallerAnswered
<1>11. EpochsTrusted(r, n, p, m2, fs2, c2)
  BY Zenon, <1>7, <1>8, <1>9, <1>10 DEF Installed, View, EpochsTrusted
<1> QED BY Zenon, <1>3, <1>4, <1>5, <1>6, <1>11 DEF View

(* RuntimeState after a successful Activate.                                *)
LEMMA ViewRead ==
  ASSUME NEW r, NEW n \in Nat, NEW p, NEW m, NEW fs, NEW c, NEW td, NEW c2,
         View(r, n, p, m, fs, c, td),
         c.at = "ready", c2.at = "complete", c2.op = c.op, c2.flight = c.flight,
         c2.epoch = m.state, c # Idle
  PROVE  View(r, n, p, m, fs, c2, td)
<1>1. CallerFits(r, c2)
  BY Zenon DEF View, CallerFits
<1>2. Entered(r, c2) = Entered(r, c) /\ Tracked(r, m, c2) = Tracked(r, m, c)
  BY Zenon DEF Entered, Tracked
<1>3. EpochsTrusted(r, n, p, m, fs, c2)
  BY Zenon, <1>2 DEF View, EpochsTrusted
<1> QED BY Zenon, <1>1, <1>3 DEF View

(* The row changes to a state in which no epoch is trusted.                 *)
LEMMA ViewOtherState ==
  ASSUME NEW r, NEW n \in Nat, NEW p, NEW m, NEW fs, NEW c, NEW td, NEW r2, NEW n2, NEW td2,
         View(r, n, p, m, fs, c, td),
         r2.state # "activating", TearsDown(r2, td2),
         CallerFits(r2, c), ActiveHolds(r2, n2, m, fs, td2), RestingWaits(r2, m, fs)
  PROVE  View(r2, n2, p, m, fs, c, td2)
BY Zenon DEF View, EpochsTrusted

-----------------------------------------------------------------------------
(* The steps, action by action.                                             *)
LEMMA TripParts ==
  ASSUME LifecycleInv, PublishInv, NEW t \in Trips
  PROVE  /\ TripView(t) /\ trips[t] \in TripRow
         /\ lease[t].epoch \in 0 .. MaxEpoch /\ lease[t].epoch \in Nat
         /\ supervisor[t] \in Maps /\ supervisor[t].state \in Nat
         /\ supervisor[t].active \in Flights \cup {0}
         /\ supervisor[t].activating \in Flights \cup {0}
         /\ flights[t] \in [Flights -> Flight]
         /\ callers[t] \in [Callers -> Caller] /\ callers[t]["activation"] \in Caller
         /\ teardown[t] \in [Teardowns -> Teardown]
<1>1. TripView(t) /\ trips[t] \in TripRow
  BY DEF PublishInv, LifecycleInv, SavedInv
<1>2. lease[t].epoch \in 0 .. MaxEpoch /\ supervisor[t] \in Maps
      /\ flights[t] \in [Flights -> Flight]
  BY DEF LifecycleInv, LeaseInv, FlightsFit
<1>3. lease[t].epoch \in Nat /\ supervisor[t].state \in Nat
  BY <1>2, TripLifecycleAssumption DEF Maps
<1>4. supervisor[t].active \in Flights \cup {0} /\ supervisor[t].activating \in Flights \cup {0}
  BY <1>2, TripLifecycleAssumption DEF Maps, Flights
<1>5. callers[t] \in [Callers -> Caller] /\ teardown[t] \in [Teardowns -> Teardown]
  BY Zenon DEF PublishInv
<1>6. callers[t]["activation"] \in Caller
  BY Zenon, <1>5 DEF Callers
<1> QED BY <1>1, <1>2, <1>3, <1>4, <1>5, <1>6

(* The flight that is not cancelled is the one active names.                *)
LEMMA LiveIsActive ==
  ASSUME LifecycleInv, NEW t \in Trips, NEW i \in Flights, IsLive(flights[t][i])
  PROVE  supervisor[t].active = i
BY Zenon DEF LifecycleInv, FlightsFit, OneLiveFlight, IsLive

(* Who does not call has entered nothing.                                   *)
LEMMA IdleCaller ==
  /\ Idle \in Caller /\ Idle.at = "idle" /\ Idle.flight = 0
  /\ \A r : ~Entered(r, Idle)
  /\ \A r, c : CallerFits(r, c) => CallerFits(r, Idle)
<1>1. 0 \in 0 .. MaxFlights /\ 0 \in 0 .. MaxEpoch
  BY TripLifecycleAssumption
<1>2. Idle \in Caller
  BY <1>1 DEF Idle, Caller, Operation, NoOperation
<1>3. Idle.at = "idle" /\ Idle.flight = 0
  BY DEF Idle
<1>4. \A r : ~Entered(r, Idle)
  BY Zenon, <1>3 DEF Entered
<1>5. \A r, c : CallerFits(r, c) => CallerFits(r, Idle)
  BY Zenon, <1>3 DEF CallerFits
<1> QED BY <1>2, <1>3, <1>4, <1>5

(* A flight fails, whatever the planner made of its bootstrap.              *)
LEMMA FailingKeeps ==
  ASSUME LifecycleInv, PublishInv, NEW t \in Trips, NEW i \in Flights,
         FlightFails(t, i), flights[t][i].step # "renew",
         UNCHANGED <<trips, lease, teardown>>,
         \A u \in Trips \ {t} : planner'[u] = planner[u],
         View(trips[t], lease[t].epoch, planner'[t], supervisor[t], flights[t],
              callers[t]["activation"], teardown[t])
  PROVE  PublishInv'
<1> DEFINE c == callers[t]["activation"]
           Left(d) == IF d.flight # i THEN d
                      ELSE IF d.at = "own" \/ supervisor[t].activating = i THEN Idle
                      ELSE [d EXCEPT !.at = "stuck", !.flight = 0]
<1>0. /\ CallerFits(trips[t], c) /\ c \in Caller /\ lease[t].epoch \in Nat
      /\ supervisor[t].active \in Flights \cup {0}
      /\ supervisor[t].activating \in Flights \cup {0}
  BY Zenon, TripParts DEF TripView, View
<1>1. flights'[t][i] = NoFlight /\ \A k \in Flights \ {i} : flights'[t][k] = flights[t][k]
  BY Zenon DEF FlightFails, LifecycleInv, FlightsFit
<1>2. \A u \in Trips \ {t} : flights'[u] = flights[u] /\ supervisor'[u] = supervisor[u]
  BY Zenon DEF FlightFails, LifecycleInv, FlightsFit
<1>3. IF supervisor[t].activating = i
      THEN /\ supervisor'[t].active = 0 /\ supervisor'[t].activating = 0
           /\ supervisor'[t].state = supervisor[t].state
      ELSE supervisor'[t] = supervisor[t]
  BY Zenon DEF FlightFails, LifecycleInv, FlightsFit, Maps
<1>4. callers' = [callers EXCEPT ![t] = [d \in Callers |-> Left(callers[t][d])]]
  BY Zenon DEF FlightFails
<1>5. ASSUME NEW d \in Caller PROVE Left(d) \in Caller
  <2>1. 0 \in 0 .. MaxFlights
    BY TripLifecycleAssumption
  <2> QED BY Zenon, <2>1, IdleCaller DEF Caller
<1>6. /\ callers' \in [Trips -> [Callers -> Caller]]
      /\ callers'[t]["activation"] = Left(c)
      /\ \A u \in Trips \ {t} : callers'[u] = callers[u]
  <2>1. "activation" \in Callers
    BY DEF Callers
  <2> HIDE DEF Left
  <2>2. [d \in Callers |-> Left(callers[t][d])] \in [Callers -> Caller]
    BY Zenon, <1>5, TripParts
  <2> QED BY Zenon, <1>4, <2>1, <2>2 DEF PublishInv
<1>7. CallerLeft(trips[t], c, Left(c))
  <2>1. CASE c.flight # i
    BY <2>1 DEF CallerLeft
  <2>3. CASE c.flight = i /\ (c.at = "own" \/ supervisor[t].activating = i)
    BY Zenon, <1>0, <2>3, IdleCaller DEF CallerLeft
  <2>4. CASE c.flight = i /\ ~(c.at = "own" \/ supervisor[t].activating = i)
    <3>1. Left(c) = [c EXCEPT !.at = "stuck", !.flight = 0]
      BY Zenon, <2>4
    <3>2. Left(c).at = "stuck" /\ Left(c).flight = 0 /\ Left(c).op = c.op
      BY Zenon, <1>0, <3>1 DEF Caller
    <3>3. i # 0
      BY DEF Flights
    <3>4. c # Idle
      BY Zenon, <2>4, <3>3, IdleCaller
    <3> QED BY Zenon, <1>0, <3>2, <3>4 DEF CallerLeft, Entered, CallerFits
  <2> QED BY <2>1, <2>3, <2>4
<1> HIDE DEF Left
<1>8. View(trips[t], lease[t].epoch, planner'[t], supervisor'[t], flights'[t],
           Left(c), teardown[t])
  <2>1. Failed(i, supervisor[t], flights[t], supervisor'[t], flights'[t])
    BY Zenon, <1>0, <1>1, <1>3 DEF Failed
  <2> QED BY Zenon, <1>0, <1>7, <2>1, ViewFailed
<1>9. TripView(t)'
  BY Zenon, <1>6, <1>8 DEF TripView
<1>10. OnlyTrip(t)
  BY Zenon, <1>2, <1>6 DEF OnlyTrip
<1>11. teardown' \in [Trips -> [Teardowns -> Teardown]]
  BY Zenon DEF PublishInv
<1> QED BY Zenon, <1>6, <1>9, <1>10, <1>11, OneTripMoves

(* A bootstrap, taken or not, changes nothing for who trusts the epoch it   *)
(* has: the planner refuses a second bootstrap under one epoch.             *)
LEMMA BootstrapKeepsTrust ==
  ASSUME LifecycleInv, PublishInv, NEW t \in Trips, NEW i \in Flights,
         IsLive(flights[t][i]), flights[t][i].step = "exchange",
         BootstrapPlanner(t, flights[t][i].base) \/ UNCHANGED planner
  PROVE  /\ View(trips[t], lease[t].epoch, planner'[t], supervisor[t], flights[t],
                 callers[t]["activation"], teardown[t])
         /\ \A u \in Trips \ {t} : planner'[u] = planner[u]
<1> DEFINE base == flights[t][i].base
<1>0. View(trips[t], lease[t].epoch, planner[t], supervisor[t], flights[t],
           callers[t]["activation"], teardown[t])
  BY Zenon, TripParts DEF TripView
<1>1. \A u \in Trips \ {t} : planner'[u] = planner[u]
  BY Zenon DEF BootstrapPlanner, LifecycleInv, PlannerFits
<1>2. supervisor[t].active = i /\ i # 0
  BY LiveIsActive DEF Flights
<1>3. ASSUME trips[t].state = "activating" PROVE base.epoch = lease[t].epoch
  BY Zenon, <1>0, <1>2, <1>3 DEF View, ActiveHolds, Dropping, TearsDown
<1>4. ASSUME trips[t].state = "activating", NEW e,
             Trusted(trips[t], lease[t].epoch, planner[t], e)
      PROVE  Trusted(trips[t], lease[t].epoch, planner'[t], e)
  <2>1. CASE e # 0 /\ e = lease[t].epoch
    <3>1. planner[t].v.epoch = base.epoch /\ base.epoch # 0
      BY Zenon, <1>3, <1>4, <2>1 DEF Trusted, InSync
    <3>2. planner[t].v \in Versions
      BY DEF LifecycleInv, PlannerFits
    <3>3. BootstrapStatus(t, base) # "accepted"
      BY <3>1, <3>2 DEF BootstrapStatus, bootstrap_status, IsActive, Versions, Counter
    <3>4. planner' = planner
      BY Zenon, <3>3 DEF BootstrapPlanner
    <3> QED BY Zenon, <1>4, <3>4
  <2>2. CASE ~(e # 0 /\ e = lease[t].epoch)
    BY Zenon, <1>4, <2>2 DEF Trusted
  <2> QED BY <2>1, <2>2
<1>5. /\ trips[t].next \in Nat /\ trips[t].op.id \in Nat
      /\ callers[t]["activation"].op.id \in Nat /\ trips[t].next <= trips[t].next
  BY TripParts DEF TripRow, Operation, Caller
<1>6. View(trips[t], lease[t].epoch, planner'[t], supervisor[t], flights[t],
           callers[t]["activation"], teardown[t])
  BY Zenon, <1>0, <1>4, <1>5, TrustKept
<1> QED BY <1>1, <1>6

(* A flight gives up, or the planner's answer is lost.                      *)
LEMMA GivingUpKeeps ==
  ASSUME LifecycleInv, PublishInv, NEW t \in Trips, NEW i \in Flights,
         FlightGivesUp(t, i) \/ BootstrapIsLost(t, i)
  PROVE  PublishInv'
<1>0. View(trips[t], lease[t].epoch, planner[t], supervisor[t], flights[t],
           callers[t]["activation"], teardown[t])
  BY Zenon, TripParts DEF TripView
<1>1. CASE FlightGivesUp(t, i)
  <2>1. /\ FlightFails(t, i) /\ flights[t][i].step # "renew"
        /\ UNCHANGED <<trips, lease, teardown>> /\ planner' = planner
    BY Zenon, <1>1 DEF FlightGivesUp
  <2> QED BY Zenon, <1>0, <2>1, FailingKeeps
<1>2. CASE BootstrapIsLost(t, i)
  <2>1. /\ FlightFails(t, i) /\ flights[t][i].step = "exchange" /\ IsLive(flights[t][i])
        /\ UNCHANGED <<trips, lease, teardown>>
        /\ BootstrapPlanner(t, flights[t][i].base) \/ UNCHANGED planner
    BY Zenon, <1>2 DEF BootstrapIsLost, IsLive
  <2>2. flights[t][i].step # "renew"
    BY <2>1
  <2> QED BY Zenon, <2>1, <2>2, BootstrapKeepsTrust, FailingKeeps
<1> QED BY <1>1, <1>2

(* One flight moves; the maps, the callers and the teardowns do not.        *)
LEMMA OneFlightMoves ==
  ASSUME LifecycleInv, PublishInv, NEW t \in Trips, NEW i \in Flights, NEW f, NEW n, NEW p2,
         UNCHANGED <<trips, supervisor, callers, teardown>>,
         flights' = [flights EXCEPT ![t][i] = f],
         \A u \in Trips \ {t} : lease'[u] = lease[u] /\ planner'[u] = planner[u],
         lease'[t].epoch = n, planner'[t] = p2,
         View(trips[t], n, p2, supervisor[t], [flights[t] EXCEPT ![i] = f],
              callers[t]["activation"], teardown[t])
  PROVE  PublishInv'
<1>1. flights'[t] = [flights[t] EXCEPT ![i] = f]
      /\ \A u \in Trips \ {t} : flights'[u] = flights[u]
  BY Zenon DEF LifecycleInv, FlightsFit
<1>2. TripView(t)'
  BY Zenon, <1>1 DEF TripView
<1>3. OnlyTrip(t)
  BY Zenon, <1>1 DEF OnlyTrip
<1>4. callers' \in [Trips -> [Callers -> Caller]]
      /\ teardown' \in [Trips -> [Teardowns -> Teardown]]
  BY Zenon DEF PublishInv
<1> QED BY Zenon, <1>2, <1>3, <1>4, OneTripMoves

(* A flight acquires the lease, or loads the trip.                          *)
LEMMA GoingOnKeeps ==
  ASSUME LifecycleInv, PublishInv, NEW t \in Trips, NEW i \in Flights,
         FlightAcquires(t, i) \/ FlightLoads(t, i)
  PROVE  PublishInv'
<1> DEFINE n == lease[t].epoch
<1>0. View(trips[t], n, planner[t], supervisor[t], flights[t],
           callers[t]["activation"], teardown[t])
  BY Zenon, TripParts DEF TripView
<1>1. /\ flights[t] \in [Flights -> Flight] /\ flights[t][i] \in Flight /\ n \in Nat
      /\ callers[t]["activation"].epoch \in Nat /\ supervisor[t].state \in Nat
  BY TripParts, TripLifecycleAssumption DEF Caller
<1>2. IsLive(flights[t][i])
  BY Zenon DEF FlightAcquires, FlightLoads, IsLive
<1>3. supervisor[t].active = i
  BY Zenon, <1>2, LiveIsActive
<1>4. CASE FlightAcquires(t, i)
  <2> DEFINE f == [flights[t][i] EXCEPT !.step = "load", !.epoch = n + 1]
  <2>1. IsLive(f) /\ f.step = "load" /\ f.epoch = n + 1
    BY Zenon, <1>1, <1>2 DEF Flight, IsLive
  <2>2. flights' = [flights EXCEPT ![t][i] = f] /\ flights[t][i].step = "acquire"
        /\ UNCHANGED <<trips, supervisor, callers, teardown, planner>>
    BY Zenon, <1>4 DEF FlightAcquires, LifecycleInv, FlightsFit
  <2>3. lease'[t].epoch = n + 1 /\ \A u \in Trips \ {t} : lease'[u] = lease[u]
    BY Zenon, <1>4 DEF FlightAcquires, LifecycleInv, LeaseInv
  <2> HIDE DEF f
  <2>4. [flights[t] EXCEPT ![i] = f][i] = f
    BY Zenon, <1>1
  <2>5. View(trips[t], n + 1, planner[t], supervisor[t], [flights[t] EXCEPT ![i] = f],
             callers[t]["activation"], teardown[t])
    BY Zenon, <1>0, <1>1, <1>3, <2>1, <2>2, <2>4, ViewAcquired
  <2> QED BY Zenon, <2>2, <2>3, <2>5, OneFlightMoves
<1>5. CASE FlightLoads(t, i)
  <2> DEFINE f == [flights[t][i] EXCEPT !.step = "exchange", !.base = Base(t)]
  <2>1. /\ IsLive(f) /\ f.step = "exchange" /\ f.epoch = flights[t][i].epoch
        /\ f.base.epoch = n
    BY Zenon, <1>1, <1>2 DEF Flight, IsLive, Base
  <2>2. /\ flights' = [flights EXCEPT ![t][i] = f] /\ flights[t][i].step = "load"
        /\ trips[t].state \in Executing
        /\ UNCHANGED <<trips, lease, supervisor, callers, teardown, planner>>
    BY Zenon, <1>5 DEF FlightLoads, LifecycleInv, FlightsFit
  <2> HIDE DEF f
  <2>4. [flights[t] EXCEPT ![i] = f][i] = f
    BY Zenon, <1>1
  <2>5. View(trips[t], n, planner[t], supervisor[t], [flights[t] EXCEPT ![i] = f],
             callers[t]["activation"], teardown[t])
    BY Zenon, <1>0, <1>1, <1>3, <2>1, <2>2, <2>4, ViewLoaded
  <2> QED BY Zenon, <2>2, <2>5, OneFlightMoves
<1> QED BY <1>4, <1>5

(* The planner's answer, and ResolveCanonicalBootstrap.                     *)
LEMMA BootstrapKeeps ==
  ASSUME LifecycleInv, PublishInv, NEW t \in Trips, NEW i \in Flights, FlightBootstraps(t, i)
  PROVE  PublishInv'
<1> DEFINE n == lease[t].epoch
           base == flights[t][i].base
<1>0. View(trips[t], n, planner[t], supervisor[t], flights[t],
           callers[t]["activation"], teardown[t])
  BY Zenon, TripParts DEF TripView
<1>1. flights[t] \in [Flights -> Flight] /\ flights[t][i] \in Flight /\ n \in Nat
  BY TripParts
<1>2. /\ flights[t][i].step = "exchange" /\ IsLive(flights[t][i])
      /\ BootstrapPlanner(t, base) /\ UNCHANGED <<trips, lease, teardown>>
  BY Zenon DEF FlightBootstraps, IsLive
<1>3. supervisor[t].active = i
  BY Zenon, <1>2, LiveIsActive
<1>4. CASE FlightFails(t, i)
  <2>1. flights[t][i].step # "renew"
    BY <1>2
  <2> QED BY Zenon, <1>2, <1>4, <2>1, BootstrapKeepsTrust, FailingKeeps
<1>5. CASE /\ BootstrapStatus(t, base) \in {"accepted", "duplicate"}
           /\ planner'[t].plan = base.plan /\ Converges(t, base)
           /\ flights' = [flights EXCEPT ![t][i].step = "install", ![t][i].base = NoBase]
           /\ UNCHANGED <<supervisor, callers>>
  <2> DEFINE f == [flights[t][i] EXCEPT !.step = "install", !.base = NoBase]
  <2>1. IsLive(f) /\ f.step = "install" /\ f.epoch = flights[t][i].epoch
    BY Zenon, <1>1, <1>2 DEF Flight, IsLive
  <2>2. flights' = [flights EXCEPT ![t][i] = f]
    BY Zenon, <1>5 DEF LifecycleInv, FlightsFit
  <2>3. \A u \in Trips \ {t} : planner'[u] = planner[u]
    BY Zenon, <1>2, BootstrapKeepsTrust
  <2>4. InSync(trips[t], planner'[t], base.epoch)
    <3>1. /\ base.revision = trips[t].revision /\ base.finalized = trips[t].finalized
          /\ base.plan = trips[t].plan
      BY Zenon, <1>5 DEF Converges
    <3>2. CASE BootstrapStatus(t, base) = "accepted"
      <4>1. planner'[t].v = Bootstrapped(base.epoch, base.revision, base.finalized, 0)
        BY Zenon, <1>2, <3>2 DEF BootstrapPlanner, LifecycleInv, PlannerFits
      <4>2. /\ planner'[t].v.epoch = base.epoch /\ planner'[t].v.revision = base.revision
            /\ planner'[t].v.accepted = base.finalized
        BY <4>1 DEF Bootstrapped
      <4> QED BY Zenon, <1>5, <3>1, <4>2 DEF InSync
    <3>3. CASE BootstrapStatus(t, base) = "duplicate"
      <4>1. planner' = planner
        BY Zenon, <1>2, <3>3 DEF BootstrapPlanner
      <4>2. /\ planner[t].v.epoch = base.epoch /\ planner[t].v.revision = base.revision
            /\ planner[t].v.accepted = base.finalized
        BY Zenon, <3>3 DEF BootstrapStatus, bootstrap_status
      <4> QED BY Zenon, <1>5, <3>1, <4>1, <4>2 DEF InSync
    <3> QED BY <1>5, <3>2, <3>3
  <2> HIDE DEF f
  <2>5. [flights[t] EXCEPT ![i] = f][i] = f
    BY Zenon, <1>1
  <2>6. View(trips[t], n, planner'[t], supervisor[t], [flights[t] EXCEPT ![i] = f],
             callers[t]["activation"], teardown[t])
    <3> DEFINE fs == [flights[t] EXCEPT ![i] = f]
    <3>1. IsLive(fs[i]) /\ fs[i].step = "install" /\ fs[i].epoch = flights[t][i].epoch
      BY Zenon, <2>1, <2>5
    <3> HIDE DEF fs
    <3>2. View(trips[t], n, planner'[t], supervisor[t], fs, callers[t]["activation"],
               teardown[t])
      BY <1>0, <1>1, <1>2, <1>3, <2>4, <3>1, ViewBootstrapped
    <3> QED BY <3>2 DEF fs
  <2>7. /\ UNCHANGED <<trips, supervisor, callers, teardown>> /\ lease'[t].epoch = n
        /\ \A u \in Trips \ {t} : lease'[u] = lease[u] /\ planner'[u] = planner[u]
    BY Zenon, <1>2, <1>5, <2>3
  <2> QED BY Zenon, <2>2, <2>6, <2>7, OneFlightMoves
<1> QED BY Zenon, <1>4, <1>5 DEF FlightBootstraps

(* The end of Activate.                                                     *)
LEMMA InstallKeeps ==
  ASSUME LifecycleInv, PublishInv, NEW t \in Trips, NEW i \in Flights, FlightInstalls(t, i)
  PROVE  PublishInv'
<1> DEFINE c == callers[t]["activation"]
           Done(d, k) == IF k.flight = i THEN Returned(d, k) ELSE k
           f == [flights[t][i] EXCEPT !.step = "renew"]
<1>0. View(trips[t], lease[t].epoch, planner[t], supervisor[t], flights[t], c, teardown[t])
  BY Zenon, TripParts DEF TripView
<1>1. /\ flights[t] \in [Flights -> Flight] /\ flights[t][i] \in Flight
      /\ lease[t].epoch \in Nat /\ c \in Caller /\ callers[t] \in [Callers -> Caller]
  BY TripParts
<1>2. /\ flights[t][i].step = "install"
      /\ UNCHANGED <<trips, lease, planner, teardown>>
  BY Zenon DEF FlightInstalls
<1>3. CASE FlightFails(t, i)
  <2>1. flights[t][i].step # "renew"
    BY <1>2
  <2> QED BY Zenon, <1>0, <1>2, <1>3, <2>1, FailingKeeps
<1>4. CASE /\ supervisor[t].activating = i
           /\ supervisor' = [supervisor EXCEPT ![t].state = flights[t][i].epoch,
                                               ![t].activating = 0]
           /\ flights' = [flights EXCEPT ![t][i].step = "renew"]
           /\ callers' = [callers EXCEPT ![t] = [d \in Callers |-> Done(d, callers[t][d])]]
  <2>1. /\ supervisor'[t].active = supervisor[t].active /\ supervisor'[t].activating = 0
        /\ supervisor'[t].state = flights[t][i].epoch
        /\ \A u \in Trips \ {t} : supervisor'[u] = supervisor[u]
    BY Zenon, <1>4 DEF LifecycleInv, FlightsFit, Maps
  <2>2. flights'[t][i] = f /\ \A u \in Trips \ {t} : flights'[u] = flights[u]
    BY Zenon, <1>4 DEF LifecycleInv, FlightsFit
  <2>3. /\ IsLive(f) = IsLive(flights[t][i]) /\ f.step = "renew"
        /\ f.epoch = flights[t][i].epoch
    BY Zenon, <1>1, <1>2 DEF IsLive, Flight
  <2>4. ASSUME NEW d, NEW k \in Caller PROVE Done(d, k) \in Caller
    <3>1. 0 \in 0 .. MaxFlights
      BY TripLifecycleAssumption
    <3> QED BY Zenon, <3>1, IdleCaller DEF Returned, Caller
  <2>5. Done("activation", c) = IF c.flight = i THEN [c EXCEPT !.at = "ready", !.flight = 0]
                                ELSE c
    BY DEF Returned
  <2> HIDE DEF Done
  <2>6. /\ callers' \in [Trips -> [Callers -> Caller]]
        /\ callers'[t]["activation"] = Done("activation", c)
        /\ \A u \in Trips \ {t} : callers'[u] = callers[u]
    <3>1. "activation" \in Callers
      BY DEF Callers
    <3>2. [d \in Callers |-> Done(d, callers[t][d])] \in [Callers -> Caller]
      BY Zenon, <1>1, <2>4
    <3> QED BY Zenon, <1>4, <3>1, <3>2 DEF PublishInv
  <2>7. CallerAnswered(i, c, callers'[t]["activation"])
    <3>1. i # 0
      BY DEF Flights
    <3>2. CASE c.flight = i
      <4>1. callers'[t]["activation"] = [c EXCEPT !.at = "ready", !.flight = 0] /\ c # Idle
        BY Zenon, <2>5, <2>6, <3>1, <3>2, IdleCaller
      <4> QED BY Zenon, <1>1, <3>2, <4>1 DEF CallerAnswered, Caller
    <3> QED BY Zenon, <2>5, <2>6, <3>2 DEF CallerAnswered
  <2>8. View(trips[t], lease[t].epoch, planner[t], supervisor'[t], flights'[t],
             callers'[t]["activation"], teardown[t])
    <3>1. /\ IsLive(flights'[t][i]) = IsLive(flights[t][i])
          /\ flights'[t][i].step = "renew" /\ flights'[t][i].epoch = flights[t][i].epoch
      BY Zenon, <2>2, <2>3
    <3>2. Installed(i, supervisor[t], flights[t], supervisor'[t], flights'[t])
      BY Zenon, <1>2, <1>4, <2>1, <3>1 DEF Installed
    <3> QED BY Zenon, <1>0, <1>1, <2>7, <3>2, ViewInstalled
  <2>9. TripView(t)' /\ OnlyTrip(t)
    BY Zenon, <1>2, <2>1, <2>2, <2>6, <2>8 DEF TripView, OnlyTrip
  <2>10. teardown' \in [Trips -> [Teardowns -> Teardown]]
    BY Zenon, <1>2 DEF PublishInv
  <2> QED BY Zenon, <2>6, <2>9, <2>10, OneTripMoves
<1> QED BY Zenon, <1>3, <1>4 DEF FlightInstalls

(* deactivate, with the flight that ends in the call.                       *)
LEMMA ForgettingKeeps ==
  ASSUME LifecycleInv, PublishInv, NEW t \in Trips, NEW done \in Flights \cup {0},
         Deactivated(t, done), done # 0 => flights[t][done].step = "renew"
  PROVE  /\ View(trips[t], lease[t].epoch, planner[t], supervisor'[t], flights'[t],
                 callers[t]["activation"], teardown[t])
         /\ supervisor'[t].active = 0
         /\ \A u \in Trips \ {t} : supervisor'[u] = supervisor[u] /\ flights'[u] = flights[u]
<1> DEFINE a == supervisor[t].active
<1>0. View(trips[t], lease[t].epoch, planner[t], supervisor[t], flights[t],
           callers[t]["activation"], teardown[t])
  BY Zenon, TripParts DEF TripView
<1>1. /\ flights[t] \in [Flights -> Flight] /\ lease[t].epoch \in Nat
      /\ supervisor[t].activating \in Flights \cup {0} /\ a \in Flights \cup {0}
      /\ flights \in [Trips -> [Flights -> Flight]] /\ supervisor \in [Trips -> Maps]
  BY TripParts DEF LifecycleInv, FlightsFit
<1>2. NoFlight.step = "none"
  BY DEF NoFlight
<1>3. \A u \in Trips \ {t} : supervisor'[u] = supervisor[u] /\ flights'[u] = flights[u]
  BY Zenon, <1>1 DEF Deactivated
<1>4. \A k \in Flights : \/ flights'[t][k].step = "none"
                         \/ /\ flights'[t][k].step = flights[t][k].step
                            /\ flights'[t][k].epoch = flights[t][k].epoch
  <2> SUFFICES ASSUME NEW k \in Flights
               PROVE  \/ flights'[t][k].step = "none"
                      \/ /\ flights'[t][k].step = flights[t][k].step
                         /\ flights'[t][k].epoch = flights[t][k].epoch
    BY Zenon
  <2>1. /\ flights[t][k] \in Flight
        /\ \/ flights'[t][k] \in {flights[t][k], NoFlight}
           \/ flights'[t][k] = [flights[t][k] EXCEPT !.cancelled = TRUE]
           \/ flights'[t][k] = [NoFlight EXCEPT !.cancelled = TRUE]
    <3> DEFINE ended == IF done = 0 THEN flights ELSE [flights EXCEPT ![t][done] = NoFlight]
    <3>1. /\ ended \in [Trips -> [Flights -> Flight]]
          /\ ended[t][k] \in {flights[t][k], NoFlight}
      <4>1. CASE done = 0
        BY Zenon, <1>1, <4>1
      <4>2. CASE done # 0
        BY Zenon, <1>1, <4>2, NoFlightFits
      <4> QED BY <4>1, <4>2
    <3>2. flights' = ended \/ flights' = [ended EXCEPT ![t][a].cancelled = TRUE]
      BY Zenon DEF Deactivated
    <3> HIDE DEF ended
    <3>3. CASE flights' = ended
      BY Zenon, <1>1, <3>1, <3>3
    <3>4. CASE flights' = [ended EXCEPT ![t][a].cancelled = TRUE]
      <4>1. flights'[t][k] \in {ended[t][k], [ended[t][k] EXCEPT !.cancelled = TRUE]}
        BY Zenon, <3>1, <3>4
      <4> QED BY Zenon, <1>1, <3>1, <4>1
    <3> QED BY <3>2, <3>3, <3>4
  <2>2. [NoFlight EXCEPT !.cancelled = TRUE].step = "none"
    BY DEF NoFlight
  <2>3. /\ [flights[t][k] EXCEPT !.cancelled = TRUE].step = flights[t][k].step
        /\ [flights[t][k] EXCEPT !.cancelled = TRUE].epoch = flights[t][k].epoch
    BY Zenon, <2>1 DEF Flight
  <2> QED BY Zenon, <1>2, <2>1, <2>2, <2>3
<1>5. CASE a = 0
  <2>1. supervisor'[t] = supervisor[t] /\ supervisor'[t].active = 0
    BY Zenon, <1>5 DEF Deactivated
  <2>2. View(trips[t], lease[t].epoch, planner[t], supervisor'[t], flights'[t],
             callers[t]["activation"], teardown[t])
    BY <1>0, <1>1, <1>4, <1>5, <2>1, FlightsEnd
  <2> QED BY <1>3, <2>1, <2>2
<1>6. CASE a # 0
  <2>1. /\ supervisor'[t].active = 0 /\ supervisor'[t].state = 0
        /\ supervisor'[t].activating = supervisor[t].activating
    <3> DEFINE m == [supervisor[t] EXCEPT !.active = 0, !.state = 0]
    <3>1. supervisor'[t] = m
      BY Zenon, <1>1, <1>6 DEF Deactivated
    <3>2. supervisor[t] \in Maps
      BY Zenon, <1>1
    <3> QED BY Zenon, <3>1, <3>2 DEF Maps
  <2>2. View(trips[t], lease[t].epoch, planner[t], supervisor'[t], flights'[t],
             callers[t]["activation"], teardown[t])
    BY <1>0, <1>1, <1>4, <2>1, FlightsEnd
  <2> QED BY Zenon, <1>3, <2>1, <2>2
<1> QED BY <1>5, <1>6

(* A renewal ends.                                                          *)
LEMMA RenewalKeeps ==
  ASSUME LifecycleInv, PublishInv, NEW t \in Trips, NEW i \in Flights,
         RenewalEnds(t, i) \/ RenewalFails(t, i)
  PROVE  PublishInv'
<1> DEFINE c == callers[t]["activation"]
<1>0. View(trips[t], lease[t].epoch, planner[t], supervisor[t], flights[t], c, teardown[t])
  BY Zenon, TripParts DEF TripView
<1>1. UNCHANGED <<trips, lease, planner, callers, teardown>> /\ flights[t][i].step = "renew"
  BY Zenon DEF RenewalEnds, RenewalFails
<1>2. /\ View(trips[t], lease[t].epoch, planner[t], supervisor'[t], flights'[t], c, teardown[t])
      /\ \A u \in Trips \ {t} : supervisor'[u] = supervisor[u] /\ flights'[u] = flights[u]
  <2>1. CASE RenewalFails(t, i)
    <3>1. Deactivated(t, i) /\ i \in Flights \cup {0}
      BY Zenon, <2>1 DEF RenewalFails
    <3> QED BY Zenon, <1>1, <3>1, ForgettingKeeps
  <2>2. CASE RenewalEnds(t, i)
    <3>1. /\ flights[t] \in [Flights -> Flight] /\ lease[t].epoch \in Nat
          /\ supervisor[t].active \in Flights \cup {0}
          /\ supervisor[t].activating \in Flights \cup {0}
      BY TripParts
    <3>2. /\ flights'[t] = [flights[t] EXCEPT ![i] = NoFlight] /\ supervisor' = supervisor
          /\ \A u \in Trips \ {t} : flights'[u] = flights[u]
      BY Zenon, <2>2 DEF RenewalEnds, LifecycleInv, FlightsFit
    <3>3. supervisor[t].active # i
      <4>1. ~IsLive(flights[t][i]) /\ i # 0
        BY <2>2 DEF RenewalEnds, IsLive, Flights
      <4> QED BY Zenon, <1>0, <4>1 DEF View, ActiveRuns
    <3>4. flights'[t][i] = NoFlight /\ \A k \in Flights \ {i} : flights'[t][k] = flights[t][k]
      BY Zenon, <3>1, <3>2
    <3>5. \A k \in Flights : \/ flights'[t][k].step = "none"
                             \/ /\ flights'[t][k].step = flights[t][k].step
                                /\ flights'[t][k].epoch = flights[t][k].epoch
      <4>1. NoFlight.step = "none"
        BY DEF NoFlight
      <4> QED BY Zenon, <3>4, <4>1
    <3>6. supervisor[t].active # 0
            => flights'[t][supervisor[t].active] = flights[t][supervisor[t].active]
      BY Zenon, <3>1, <3>3, <3>4
    <3>7. View(trips[t], lease[t].epoch, planner[t], supervisor[t], flights'[t], c, teardown[t])
      BY <1>0, <3>1, <3>5, <3>6, FlightsEnd
    <3> QED BY Zenon, <3>2, <3>7
  <2> QED BY Zenon, <2>1, <2>2
<1>3. TripView(t)' /\ OnlyTrip(t)
  BY Zenon, <1>1, <1>2 DEF TripView, OnlyTrip
<1>4. callers' \in [Trips -> [Callers -> Caller]]
      /\ teardown' \in [Trips -> [Teardowns -> Teardown]]
  BY Zenon, <1>1 DEF PublishInv
<1> QED BY Zenon, <1>3, <1>4, OneTripMoves

(* A caller goes on, beside a change of the maps and the flights.           *)
LEMMA CallerMoves ==
  ASSUME LifecycleInv, PublishInv, NEW t \in Trips, NEW c \in Callers, NEW d \in Caller,
         callers' = [callers EXCEPT ![t][c] = d],
         UNCHANGED <<lease, planner, teardown>>,
         \A u \in Trips \ {t} : /\ supervisor'[u] = supervisor[u] /\ flights'[u] = flights[u]
                                /\ trips'[u] = trips[u],
         View(trips'[t], lease[t].epoch, planner[t], supervisor'[t], flights'[t],
              IF c = "activation" THEN d ELSE callers[t]["activation"], teardown[t])
  PROVE  PublishInv'
<1>1. "activation" \in Callers
  BY DEF Callers
<1>2. /\ callers' \in [Trips -> [Callers -> Caller]]
      /\ callers'[t]["activation"] = IF c = "activation" THEN d ELSE callers[t]["activation"]
      /\ \A u \in Trips \ {t} : callers'[u] = callers[u]
  BY Zenon, <1>1 DEF PublishInv
<1>3. TripView(t)'
  BY Zenon, <1>2 DEF TripView
<1>4. OnlyTrip(t)
  BY Zenon, <1>2 DEF OnlyTrip
<1>5. teardown' \in [Trips -> [Teardowns -> Teardown]]
  BY Zenon DEF PublishInv
<1> QED BY Zenon, <1>2, <1>3, <1>4, <1>5, OneTripMoves

(* RuntimeSupervisor.Activate, by startActivation's goroutine or another.   *)
LEMMA CallKeeps ==
  ASSUME LifecycleInv, PublishInv, NEW t \in Trips, NEW c \in Callers, NEW caller \in Caller,
         CallActivate(t, c, caller),
         c = "activation" => caller = callers[t]["activation"] /\ caller.at = "start",
         UNCHANGED <<trips, lease, planner, teardown>>
  PROVE  PublishInv'
<1> DEFINE a == callers[t]["activation"]
           sup == supervisor[t]
           Of(d) == IF c = "activation" THEN d ELSE a
<1>0. View(trips[t], lease[t].epoch, planner[t], sup, flights[t], a, teardown[t])
      /\ CallerFits(trips[t], a)
  BY Zenon, TripParts DEF TripView, View
<1>1. /\ lease[t].epoch \in Nat /\ sup \in Maps /\ flights[t] \in [Flights -> Flight]
      /\ sup.activating \in Flights \cup {0} /\ sup.activating \in 0 .. MaxFlights
      /\ 0 \in 0 .. MaxFlights
  BY TripParts, TripLifecycleAssumption DEF Maps
<1>2. c = "activation" => caller # Idle
  BY Zenon, IdleCaller
<1>3. ASSUME NEW d \in Caller, callers' = [callers EXCEPT ![t][c] = d],
             UNCHANGED <<supervisor, flights>>,
             View(trips[t], lease[t].epoch, planner[t], sup, flights[t], Of(d), teardown[t])
      PROVE  PublishInv'
  BY Zenon, <1>3, CallerMoves
<1>4. ASSUME sup.active # 0, sup.activating # 0,
             callers' = [callers EXCEPT ![t][c] =
                           [caller EXCEPT !.at = "wait", !.flight = sup.activating]],
             UNCHANGED <<supervisor, flights>>
      PROVE  PublishInv'
  <2> DEFINE d == [caller EXCEPT !.at = "wait", !.flight = sup.activating]
  <2>1. /\ d \in Caller /\ d.at = "wait" /\ d.op = caller.op /\ d.flight = sup.activating
    BY Zenon, <1>1 DEF Caller
  <2> HIDE DEF d
  <2>2. c = "activation" => CallerFits(trips[t], d)
    BY Zenon, <1>0, <1>2, <2>1 DEF CallerFits
  <2>3. View(trips[t], lease[t].epoch, planner[t], sup, flights[t], Of(d), teardown[t])
    BY <1>0, <1>1, <1>4, <2>1, <2>2, ViewJoined
  <2> QED BY Zenon, <1>3, <1>4, <2>1, <2>3 DEF d
<1>5. ASSUME sup.active # 0, sup.activating = 0,
             callers' = [callers EXCEPT ![t][c] = Returned(c, caller)],
             UNCHANGED <<supervisor, flights>>
      PROVE  PublishInv'
  <2> DEFINE d == Returned(c, caller)
  <2>1. d \in Caller /\ (c = "activation" => /\ d.at = "ready" /\ d.op = caller.op
                                             /\ d.flight = 0)
    BY Zenon, <1>1, IdleCaller DEF Returned, Caller
  <2> HIDE DEF d
  <2>2. c = "activation" => CallerFits(trips[t], d)
    BY Zenon, <1>0, <1>2, <2>1 DEF CallerFits
  <2>3. View(trips[t], lease[t].epoch, planner[t], sup, flights[t], Of(d), teardown[t])
    BY <1>0, <1>1, <1>5, <2>1, <2>2, ViewJoined
  <2> QED BY Zenon, <1>3, <1>5, <2>1, <2>3 DEF d
<1>6. ASSUME callers' = [callers EXCEPT ![t][c] = Idle], UNCHANGED <<supervisor, flights>>
      PROVE  PublishInv'
  <2>1. View(trips[t], lease[t].epoch, planner[t], sup, flights[t], Of(Idle), teardown[t])
    BY Zenon, <1>0, IdleCaller, CallerElsewhere
  <2> QED BY Zenon, <1>3, <1>6, <2>1, IdleCaller
<1>7. ASSUME NEW i \in Flights, flights[t][i] = NoFlight,
             supervisor' = [supervisor EXCEPT ![t].active = i, ![t].activating = i],
             flights' = [flights EXCEPT ![t][i].step = "acquire"],
             callers' = [callers EXCEPT ![t][c] = [caller EXCEPT !.at = "own", !.flight = i]]
      PROVE  PublishInv'
  <2> DEFINE d == [caller EXCEPT !.at = "own", !.flight = i]
  <2>1. i \in 0 .. MaxFlights
    BY DEF Flights
  <2>2. d \in Caller /\ d.at = "own" /\ d.op = caller.op /\ d.flight = i
    BY Zenon, <2>1 DEF Caller
  <2>3. /\ supervisor'[t].active = i /\ supervisor'[t].activating = i
        /\ supervisor'[t].state = sup.state
        /\ \A u \in Trips \ {t} : supervisor'[u] = supervisor[u] /\ flights'[u] = flights[u]
    BY Zenon, <1>7 DEF LifecycleInv, FlightsFit, Maps
  <2>4. flights'[t][i] = [NoFlight EXCEPT !.step = "acquire"]
    BY Zenon, <1>7 DEF LifecycleInv, FlightsFit
  <2>5. flights'[t][i].step = "acquire" /\ IsLive(flights'[t][i])
    BY <2>4 DEF NoFlight, IsLive
  <2> HIDE DEF d
  <2>6. c = "activation" => CallerFits(trips[t], d)
    BY Zenon, <1>0, <1>2, <2>2 DEF CallerFits
  <2>7. View(trips[t], lease[t].epoch, planner[t], supervisor'[t], flights'[t], Of(d),
             teardown[t])
    <3>1. Of(d) = a \/ (CallerFits(trips[t], Of(d)) /\ Of(d).at = "own")
      BY Zenon, <2>2, <2>6
    <3> HIDE DEF Of, a, sup
    <3> QED BY <1>0, <1>1, <2>3, <2>5, <3>1, ViewBegun
  <2> QED BY Zenon, <1>7, <2>2, <2>3, <2>7, CallerMoves DEF d
<1>8. CASE sup.active # 0
  BY Zenon, <1>4, <1>5, <1>8 DEF CallActivate
<1> DEFINE free == {j \in Flights : flights[t][j] = NoFlight}
           i == CHOOSE j \in free : TRUE
<1>9. CASE callers' = [callers EXCEPT ![t][c] = Idle] /\ UNCHANGED <<supervisor, flights>>
  BY Zenon, <1>6, <1>9
<1>10. CASE /\ free # {}
            /\ supervisor' = [supervisor EXCEPT ![t].active = i, ![t].activating = i]
            /\ flights' = [flights EXCEPT ![t][i].step = "acquire"]
            /\ callers' = [callers EXCEPT ![t][c] = [caller EXCEPT !.at = "own", !.flight = i]]
  <2>1. i \in free
    BY Zenon, <1>10
  <2> HIDE DEF i
  <2> QED BY Zenon, <1>7, <1>10, <2>1
<1> QED BY Zenon, <1>8, <1>9, <1>10 DEF CallActivate

(* The steps of startActivation's goroutine after Activate, its recovery,   *)
(* and the end of a message.                                                *)
LEMMA WorkersKeep ==
  ASSUME LifecycleInv, PublishInv, NEW t \in Trips,
         ActivationReadsState(t) \/ RecoverActivation(t) \/ MessageEnds(t)
  PROVE  PublishInv'
<1> DEFINE a == callers[t]["activation"]
<1>0. View(trips[t], lease[t].epoch, planner[t], supervisor[t], flights[t], a, teardown[t])
      /\ CallerFits(trips[t], a)
  BY Zenon, TripParts DEF TripView, View
<1>1. /\ lease[t].epoch \in Nat /\ a \in Caller /\ trips[t] \in TripRow
      /\ supervisor[t].state \in 0 .. MaxEpoch
  BY TripParts DEF Maps
<1>2. "activation" \in Callers /\ "message" \in Callers
  BY DEF Callers
<1>3. UNCHANGED <<trips, lease, planner, supervisor, flights, teardown>>
  BY Zenon DEF ActivationReadsState, RecoverActivation, MessageEnds
<1>4. ASSUME NEW c \in Callers, NEW d \in Caller, callers' = [callers EXCEPT ![t][c] = d],
             View(trips[t], lease[t].epoch, planner[t], supervisor[t], flights[t],
                  IF c = "activation" THEN d ELSE a, teardown[t])
      PROVE  PublishInv'
  BY Zenon, <1>3, <1>4, CallerMoves
<1>5. View(trips[t], lease[t].epoch, planner[t], supervisor[t], flights[t], Idle, teardown[t])
  BY Zenon, <1>0, IdleCaller, CallerElsewhere
<1>6. CASE ActivationReadsState(t)
  <2>1. CASE callers' = [callers EXCEPT ![t]["activation"] = Idle]
    BY Zenon, <1>2, <1>4, <1>5, <2>1, IdleCaller
  <2>2. CASE callers' = [callers EXCEPT ![t]["activation"] =
                           [a EXCEPT !.at = "complete", !.epoch = supervisor[t].state]]
    <3> DEFINE d == [a EXCEPT !.at = "complete", !.epoch = supervisor[t].state]
    <3>1. /\ d \in Caller /\ d.at = "complete" /\ d.op = a.op /\ d.flight = a.flight
          /\ d.epoch = supervisor[t].state
      BY Zenon, <1>1 DEF Caller
    <3> HIDE DEF d
    <3>2. a.at = "ready" /\ a # Idle
      BY Zenon, <1>6, IdleCaller DEF ActivationReadsState
    <3>3. View(trips[t], lease[t].epoch, planner[t], supervisor[t], flights[t], d, teardown[t])
      BY Zenon, <1>0, <1>1, <3>1, <3>2, ViewRead
    <3> QED BY Zenon, <1>2, <1>4, <2>2, <3>1, <3>3 DEF d
  <2> QED BY Zenon, <1>6, <2>1, <2>2 DEF ActivationReadsState
<1>7. CASE RecoverActivation(t)
  <2> DEFINE d == [Idle EXCEPT !.at = "start", !.op = trips[t].op]
  <2>1. trips[t].op \in Operation
    BY <1>1 DEF TripRow
  <2>2. d \in Caller /\ d.at = "start" /\ d.op = trips[t].op /\ d.flight = 0
    BY Zenon, <2>1, IdleCaller DEF Caller
  <2>3. callers' = [callers EXCEPT ![t]["activation"] = d] /\ trips[t].state = "activating"
    BY Zenon, <1>7 DEF RecoverActivation, Started
  <2> HIDE DEF d
  <2>4. CallerFits(trips[t], d) /\ ~Entered(trips[t], d)
    BY <1>0, <2>2, <2>3 DEF CallerFits, Entered
  <2>5. View(trips[t], lease[t].epoch, planner[t], supervisor[t], flights[t], d, teardown[t])
    BY Zenon, <1>0, <2>4, CallerElsewhere
  <2> QED BY Zenon, <1>2, <1>4, <2>2, <2>3, <2>5
<1>8. CASE MessageEnds(t)
  <2>1. callers' = [callers EXCEPT ![t]["message"] = Idle]
    BY Zenon, <1>8 DEF MessageEnds
  <2> QED BY Zenon, <1>0, <1>2, <1>4, <2>1, IdleCaller
<1> QED BY <1>6, <1>7, <1>8

(* Activate records the operation, and its goroutine starts unless one of   *)
(* an earlier operation is still there.                                     *)
LEMMA ViewActivated ==
  ASSUME NEW r, NEW n \in Nat, NEW p, NEW m, NEW fs, NEW c, NEW td, NEW r2, NEW c2,
         View(r, n, p, m, fs, c, td),
         r.state = "inactive", r2.state = "activating",
         r.next \in Nat, r2.op.id = r.next, r2.next = r.next + 1,
         c.op.id \in Nat,
         IF c = Idle THEN c2.at = "start" /\ c2.op = r2.op /\ c2.flight = 0 ELSE c2 = c
  PROVE  View(r2, n, p, m, fs, c2, td)
<1>1. TearsDown(r2, td)
  BY Zenon DEF View, TearsDown
<1>2. ActiveHolds(r2, n, m, fs, td) /\ RestingWaits(r2, m, fs)
  BY Zenon DEF View, ActiveHolds, RestingWaits
<1>3. CallerFits(r2, c2) /\ ~Entered(r2, c2)
  <2>1. CASE c = Idle
    BY <2>1 DEF CallerFits, Entered
  <2>2. CASE c # Idle
    <3>1. c.op.id < r.next /\ (c.flight # 0 => c.at \in {"own", "wait"})
      BY Zenon, <2>2 DEF View, CallerFits
    <3>2. c.op.id < r2.next /\ c.op.id # r2.op.id /\ r2.op.id < r2.next
      BY <3>1
    <3> QED BY Zenon, <2>2, <3>1, <3>2 DEF CallerFits, Entered
  <2> QED BY <2>1, <2>2
<1>4. \A k \in Tracked(r2, m, c2) : k = m.active
  BY Zenon, <1>3 DEF Tracked
<1>5. m.active # 0 => fs[m.active].step \in {"acquire", "load"}
  BY Zenon DEF View, RestingWaits
<1>6. EpochsTrusted(r2, n, p, m, fs, c2)
  BY Zenon, <1>3, <1>4, <1>5 DEF EpochsTrusted
<1> QED BY Zenon, <1>1, <1>2, <1>3, <1>6 DEF View

(* The activation of a saved trip.                                          *)
LEMMA ActivatingKeeps ==
  ASSUME LifecycleInv, PublishInv, NEW t \in Trips, ActivateTrip(t)
  PROVE  PublishInv'
<1> DEFINE a == callers[t]["activation"]
           op == [kind |-> "activate", id |-> trips[t].next, source |-> trips[t].revision]
           r == [trips[t] EXCEPT !.state = "activating", !.plan = trips[t].next,
                        !.next = @ + 1, !.finalized = trips[t].next, !.op = op]
           d == IF a = Idle THEN [Idle EXCEPT !.at = "start", !.op = op] ELSE a
<1>0. View(trips[t], lease[t].epoch, planner[t], supervisor[t], flights[t], a, teardown[t])
  BY Zenon, TripParts DEF TripView
<1>1. /\ lease[t].epoch \in Nat /\ a \in Caller /\ trips[t] \in TripRow
      /\ callers[t] \in [Callers -> Caller] /\ "activation" \in Callers
  BY TripParts DEF Callers
<1>2. /\ trips' = [trips EXCEPT ![t] = r] /\ trips[t].state = "inactive"
      /\ callers' = Started(t, trips'[t].op)
      /\ UNCHANGED <<lease, planner, supervisor, flights, teardown>>
  BY Zenon DEF ActivateTrip, Activate, CanActivate
<1>3. /\ r.state = "activating" /\ r.op = op /\ r.next = trips[t].next + 1
      /\ op \in Operation /\ op.id = trips[t].next /\ trips[t].next \in Nat
      /\ a.op.id \in Nat
  BY <1>1 DEF TripRow, Operation, Caller
<1>4. trips'[t] = r /\ \A u \in Trips \ {t} : trips'[u] = trips[u]
  BY Zenon, <1>2 DEF LifecycleInv, SavedInv
<1> HIDE DEF r
<1>5. callers' = [callers EXCEPT ![t]["activation"] = d]
  <2>1. CASE a = Idle
    BY Zenon, <1>2, <1>3, <1>4, <2>1 DEF Started
  <2>2. CASE a # Idle
    <3>1. callers' = callers
      BY Zenon, <1>2, <2>2 DEF Started
    <3> QED BY Zenon, <1>1, <2>2, <3>1 DEF PublishInv
  <2> QED BY <2>1, <2>2
<1>6. /\ d \in Caller
      /\ IF a = Idle THEN d.at = "start" /\ d.op = r.op /\ d.flight = 0 ELSE d = a
  <2>1. CASE a = Idle
    BY Zenon, <1>3, <2>1, IdleCaller DEF Caller
  <2>2. CASE a # Idle
    BY Zenon, <1>1, <2>2
  <2> QED BY <2>1, <2>2
<1> HIDE DEF d
<1>7. View(r, lease[t].epoch, planner[t], supervisor[t], flights[t], d, teardown[t])
  <2>1. r.op.id = trips[t].next
    BY Zenon, <1>3
  <2> HIDE DEF a
  <2> QED BY <1>0, <1>1, <1>2, <1>3, <1>6, <2>1, ViewActivated
<1>8. View(trips'[t], lease[t].epoch, planner[t], supervisor'[t], flights'[t],
           IF "activation" = "activation" THEN d ELSE a, teardown[t])
  BY Zenon, <1>2, <1>4, <1>7
<1>9. \A u \in Trips \ {t} : /\ supervisor'[u] = supervisor[u] /\ flights'[u] = flights[u]
                            /\ trips'[u] = trips[u]
  BY Zenon, <1>2, <1>4
<1>10. d \in Caller /\ "activation" \in Callers
  BY Zenon, <1>1, <1>6
<1> QED BY ZenonT(30), <1>2, <1>5, <1>8, <1>9, <1>10, CallerMoves

(* The goroutine completes the activation, or a message is recorded.        *)
LEMMA CompletingKeeps ==
  ASSUME LifecycleInv, PublishInv, NEW t \in Trips,
         ActivationCompletes(t) \/ MessageRecords(t)
  PROVE  PublishInv'
<1> DEFINE a == callers[t]["activation"]
<1>0. View(trips[t], lease[t].epoch, planner[t], supervisor[t], flights[t], a, teardown[t])
      /\ CallerFits(trips[t], a)
  BY Zenon, TripParts DEF TripView, View
<1>1. /\ lease[t].epoch \in Nat /\ a \in Caller /\ trips[t] \in TripRow
      /\ "activation" \in Callers /\ "message" \in Callers
  BY TripParts DEF Callers
<1>2. /\ UNCHANGED <<lease, planner, supervisor, flights, teardown>>
  BY Zenon DEF ActivationCompletes, MessageRecords
<1>3. CASE ActivationCompletes(t)
  <2>1. callers' = [callers EXCEPT ![t]["activation"] = Idle]
    BY Zenon, <1>3 DEF ActivationCompletes
  <2>2. \A u \in Trips \ {t} : trips'[u] = trips[u]
    BY Zenon, <1>3 DEF ActivationCompletes, CompleteActivation, savedVars, LifecycleInv, SavedInv
  <2>3. View(trips'[t], lease[t].epoch, planner[t], supervisor[t], flights[t], a, teardown[t])
    <3>1. CASE UNCHANGED savedVars
      BY Zenon, <1>0, <3>1 DEF savedVars
    <3>2. CASE trips[t].state = "activating" /\ CompleteActivation(t)
      <4> DEFINE r == [trips[t] EXCEPT !.state = "active", !.op = NoOperation]
      <4>1. trips'[t] = r
        BY Zenon, <3>2 DEF CompleteActivation, LifecycleInv, SavedInv
      <4>2. r.state = "active" /\ r.next = trips[t].next
        BY Zenon, <1>1 DEF TripRow
      <4> HIDE DEF r
      <4>3. TearsDown(r, teardown[t])
        BY Zenon, <1>0, <3>2 DEF View, TearsDown
      <4>4. CallerFits(r, a)
        BY Zenon, <1>0, <3>2, <4>2 DEF CallerFits
      <4>5. ActiveHolds(r, lease[t].epoch, supervisor[t], flights[t], teardown[t])
        BY Zenon, <1>0, <3>2, <4>2 DEF View, ActiveHolds
      <4>6. RestingWaits(r, supervisor[t], flights[t]) /\ r.state # "activating"
        BY Zenon, <4>2 DEF RestingWaits
      <4>7. View(r, lease[t].epoch, planner[t], supervisor[t], flights[t], a, teardown[t])
        BY <1>0, <1>1, <4>3, <4>4, <4>5, <4>6, ViewOtherState
      <4> QED BY Zenon, <4>1, <4>7
    <3> QED BY Zenon, <1>3, <3>1, <3>2 DEF ActivationCompletes, CanCompleteActivation
  <2>4. View(trips'[t], lease[t].epoch, planner[t], supervisor'[t], flights'[t],
             IF "activation" = "activation" THEN Idle ELSE a, teardown[t])
    <3>1. CallerFits(trips'[t], Idle)
      BY Zenon, <2>3, IdleCaller DEF View
    <3>2. View(trips'[t], lease[t].epoch, planner[t], supervisor[t], flights[t], Idle,
               teardown[t])
      BY Zenon, <2>3, <3>1, IdleCaller, CallerElsewhere
    <3> QED BY Zenon, <1>2, <3>2
  <2>5. \A u \in Trips \ {t} : /\ supervisor'[u] = supervisor[u] /\ flights'[u] = flights[u]
                              /\ trips'[u] = trips[u]
    BY Zenon, <1>2, <2>2
  <2> QED BY Zenon, <1>1, <1>2, <2>1, <2>4, <2>5, IdleCaller, CallerMoves
<1>4. CASE MessageRecords(t)
  <2> DEFINE cmd == [seq |-> trips[t].next, paused |-> FALSE, revision |-> trips[t].revision]
             r == [trips[t] EXCEPT !.next = @ + 1, !.cmd = cmd]
  <2>1. /\ callers' = [callers EXCEPT ![t]["message"] = Idle]
        /\ trips' = [trips EXCEPT ![t] = r]
    BY Zenon, <1>4 DEF MessageRecords, RecordCommand, LifecycleInv, SavedInv
  <2>2. trips'[t] = r /\ \A u \in Trips \ {t} : trips'[u] = trips[u]
    BY Zenon, <2>1 DEF LifecycleInv, SavedInv
  <2>3. /\ r.state = trips[t].state /\ r.op = trips[t].op /\ r.next = trips[t].next + 1
        /\ r.plan = trips[t].plan /\ r.finalized = trips[t].finalized
        /\ r.revision = trips[t].revision
    BY Zenon, <1>1 DEF TripRow
  <2> HIDE DEF r
  <2>4. \A e : Trusted(trips[t], lease[t].epoch, planner[t], e)
                 => Trusted(r, lease[t].epoch, planner[t], e)
    BY Zenon, <2>3 DEF Trusted, InSync
  <2>5. /\ trips[t].next \in Nat /\ r.next \in Nat /\ trips[t].next <= r.next
        /\ trips[t].op.id \in Nat /\ a.op.id \in Nat
    BY <1>1, <2>3 DEF TripRow, Operation, Caller
  <2>6. View(r, lease[t].epoch, planner[t], supervisor[t], flights[t], a, teardown[t])
    BY Zenon, <1>0, <2>3, <2>4, <2>5, TrustKept
  <2>7. View(trips'[t], lease[t].epoch, planner[t], supervisor'[t], flights'[t],
             IF "message" = "activation" THEN Idle ELSE a, teardown[t])
    BY Zenon, <1>2, <2>2, <2>6
  <2>8. \A u \in Trips \ {t} : /\ supervisor'[u] = supervisor[u] /\ flights'[u] = flights[u]
                              /\ trips'[u] = trips[u]
    BY Zenon, <1>2, <2>2
  <2> QED BY Zenon, <1>1, <1>2, <2>1, <2>7, <2>8, IdleCaller, CallerMoves
<1> QED BY <1>3, <1>4

(* The dispatcher moves the planner and the row together: who trusts the    *)
(* epoch of the lease still may.                                            *)
LEMMA DispatchKeepsTrust ==
  ASSUME LifecycleInv, NEW t \in Trips, Dispatch(t), trips[t].state = "activating",
         InSync(trips[t], planner[t], lease[t].epoch), lease[t].epoch # 0
  PROVE  InSync(trips'[t], planner'[t], lease[t].epoch)
<1> DEFINE v == planner[t].v
           cmd == trips[t].cmd
           r == trips[t]
           status == preview_durable(v, lease[t].epoch, cmd.seq, cmd.revision, Unspecified)
<1>0. /\ r \in TripRow /\ planner[t] \in [v : Versions, plan : Nat] /\ v \in Versions
      /\ trips \in [Trips -> TripRow] /\ planner \in [Trips -> [v : Versions, plan : Nat]]
  BY DEF LifecycleInv, SavedInv, PlannerFits
<1>1. /\ v.epoch = lease[t].epoch /\ planner[t].plan = r.plan
      /\ v.accepted = r.finalized /\ v.revision = r.revision
  BY Zenon DEF InSync
<1>2. ASSUME status = "accepted"
      PROVE  cmd.seq = v.accepted + 1 /\ cmd.revision = v.revision
  BY Zenon, <1>2 DEF preview_durable, durable_order
<1>3. ASSUME status = "duplicate" PROVE cmd.seq <= v.accepted
  BY Zenon, <1>3 DEF preview_durable, durable_order, validate_epoch
<1>4. CASE /\ status = "accepted"
           /\ planner' = [planner EXCEPT ![t].v = accept_durable(v, cmd.seq)]
           /\ Finalized(t, TRUE) /\ cmd # NoCommand
  <2>1. CanFinalize(t, TRUE)
    BY <1>1, <1>2, <1>4 DEF CanFinalize, Executing
  <2>2. trips'[t] = [r EXCEPT !.finalized = cmd.seq, !.cmd = NoCommand, !.revision = @ + 1]
    BY Zenon, <1>0, <1>4, <2>1 DEF Finalized, Finalize
  <2>3. /\ trips'[t].finalized = cmd.seq /\ trips'[t].revision = r.revision + 1
        /\ trips'[t].plan = r.plan
    BY Zenon, <1>0, <2>2 DEF TripRow
  <2>4. planner'[t] = [planner[t] EXCEPT !.v = accept_durable(v, cmd.seq)]
    BY Zenon, <1>0, <1>4
  <2>5. planner'[t].v = accept_durable(v, cmd.seq) /\ planner'[t].plan = planner[t].plan
    BY Zenon, <1>0, <2>4
  <2>6. /\ accept_durable(v, cmd.seq).epoch = v.epoch
        /\ accept_durable(v, cmd.seq).accepted = cmd.seq
        /\ accept_durable(v, cmd.seq).revision = v.revision + 1
    BY Zenon, <1>0 DEF accept_durable, Versions
  <2> QED BY Zenon, <1>1, <2>3, <2>5, <2>6 DEF InSync
<1>5. CASE /\ status = "accepted"
           /\ planner' = [planner EXCEPT ![t].v = resolve_terminal_durable(v, cmd.seq)]
           /\ Finalized(t, FALSE) /\ cmd # NoCommand
  <2>1. CanFinalize(t, FALSE)
    BY <1>1, <1>2, <1>5 DEF CanFinalize
  <2>2. trips'[t] = [r EXCEPT !.finalized = cmd.seq, !.cmd = NoCommand, !.revision = @]
    BY Zenon, <1>0, <1>5, <2>1 DEF Finalized, Finalize
  <2>3. /\ trips'[t].finalized = cmd.seq /\ trips'[t].revision = r.revision
        /\ trips'[t].plan = r.plan
    BY Zenon, <1>0, <2>2 DEF TripRow
  <2>4. planner'[t] = [planner[t] EXCEPT !.v = resolve_terminal_durable(v, cmd.seq)]
    BY Zenon, <1>0, <1>5
  <2>5. /\ planner'[t].v = resolve_terminal_durable(v, cmd.seq)
        /\ planner'[t].plan = planner[t].plan
    BY Zenon, <1>0, <2>4
  <2>6. /\ resolve_terminal_durable(v, cmd.seq).epoch = v.epoch
        /\ resolve_terminal_durable(v, cmd.seq).accepted = cmd.seq
        /\ resolve_terminal_durable(v, cmd.seq).revision = v.revision
    BY Zenon, <1>0 DEF resolve_terminal_durable, Versions
  <2> QED BY Zenon, <1>1, <2>3, <2>5, <2>6 DEF InSync
<1>6. CASE status = "duplicate" /\ Finalized(t, TRUE) /\ UNCHANGED planner
  <2>1. ~CanFinalize(t, TRUE)
    <3>1. cmd.seq \in Nat /\ r.finalized \in Nat
      BY <1>0 DEF TripRow
    <3> QED BY <1>1, <1>3, <1>6, <3>1 DEF CanFinalize
  <2> QED BY Zenon, <1>6, <2>1 DEF Finalized, savedVars
<1>7. CASE PauseCommand(t) /\ UNCHANGED planner
  <2>1. trips'[t] = [r EXCEPT !.cmd = [cmd EXCEPT !.paused = TRUE]]
    BY Zenon, <1>0, <1>7 DEF PauseCommand
  <2>2. /\ trips'[t].finalized = r.finalized /\ trips'[t].revision = r.revision
        /\ trips'[t].plan = r.plan
    BY Zenon, <1>0, <2>1 DEF TripRow
  <2> QED BY Zenon, <1>7, <2>2 DEF InSync
<1> QED BY Zenon, <1>4, <1>5, <1>6, <1>7 DEF Dispatch

(* The dispatcher.                                                          *)
LEMMA DispatchKeeps ==
  ASSUME LifecycleInv, PublishInv, NEW t \in Trips, Dispatch(t)
  PROVE  PublishInv'
<1> DEFINE a == callers[t]["activation"]
<1>0. View(trips[t], lease[t].epoch, planner[t], supervisor[t], flights[t], a, teardown[t])
  BY Zenon, TripParts DEF TripView
<1>1. a \in Caller /\ trips[t] \in TripRow /\ trips \in [Trips -> TripRow]
      /\ planner \in [Trips -> [v : Versions, plan : Nat]]
  BY TripParts DEF LifecycleInv, SavedInv, PlannerFits
<1>2. UNCHANGED <<lease, supervisor, flights, callers, teardown>>
  BY Zenon DEF Dispatch
<1>3. \A u \in Trips \ {t} : planner'[u] = planner[u]
  BY Zenon, <1>1 DEF Dispatch
<1>4. \/ UNCHANGED savedVars
      \/ \E applied \in BOOLEAN : Finalize(t, applied)
      \/ PauseCommand(t)
  BY Zenon DEF Dispatch, Finalized
<1>5. /\ trips'[t].state = trips[t].state /\ trips'[t].op = trips[t].op
      /\ trips'[t].next = trips[t].next
      /\ \A u \in Trips \ {t} : trips'[u] = trips[u]
  <2>1. CASE UNCHANGED savedVars
    BY Zenon, <2>1 DEF savedVars
  <2>2. ASSUME NEW applied \in BOOLEAN, Finalize(t, applied)
        PROVE  /\ trips'[t].state = trips[t].state /\ trips'[t].op = trips[t].op
               /\ trips'[t].next = trips[t].next
               /\ \A u \in Trips \ {t} : trips'[u] = trips[u]
    BY Zenon, <1>1, <2>2 DEF Finalize, TripRow
  <2>3. CASE PauseCommand(t)
    BY Zenon, <1>1, <2>3 DEF PauseCommand, TripRow
  <2> QED BY <1>4, <2>1, <2>2, <2>3
<1>6. ASSUME trips[t].state = "activating", NEW e,
             Trusted(trips[t], lease[t].epoch, planner[t], e)
      PROVE  Trusted(trips'[t], lease[t].epoch, planner'[t], e)
  BY Zenon, <1>6, DispatchKeepsTrust DEF Trusted
<1>7. /\ trips[t].next \in Nat /\ trips'[t].next \in Nat /\ trips[t].next <= trips'[t].next
      /\ trips[t].op.id \in Nat /\ a.op.id \in Nat
  BY <1>1, <1>5 DEF TripRow, Operation, Caller
<1>8. View(trips'[t], lease[t].epoch, planner'[t], supervisor[t], flights[t], a, teardown[t])
  BY Zenon, <1>0, <1>5, <1>6, <1>7, TrustKept
<1>9. TripView(t)' /\ OnlyTrip(t)
  BY Zenon, <1>2, <1>3, <1>5, <1>8 DEF TripView, OnlyTrip
<1>10. callers' \in [Trips -> [Callers -> Caller]]
       /\ teardown' \in [Trips -> [Teardowns -> Teardown]]
  BY Zenon, <1>2 DEF PublishInv
<1> QED BY Zenon, <1>9, <1>10, OneTripMoves

(* The row of a trip that is not activating, or the teardowns and the lease *)
(* of one that is deactivating, change.                                     *)
LEMMA RowMoves ==
  ASSUME LifecycleInv, PublishInv, NEW t \in Trips,
         UNCHANGED <<planner, supervisor, flights, callers>>,
         \A u \in Trips \ {t} :
           trips'[u] = trips[u] /\ lease'[u] = lease[u] /\ teardown'[u] = teardown[u],
         teardown' \in [Trips -> [Teardowns -> Teardown]],
         trips'[t].state # "activating", TearsDown(trips'[t], teardown'[t]),
         CallerFits(trips'[t], callers[t]["activation"]),
         ActiveHolds(trips'[t], lease'[t].epoch, supervisor[t], flights[t], teardown'[t]),
         RestingWaits(trips'[t], supervisor[t], flights[t])
  PROVE  PublishInv'
<1>1. View(trips[t], lease[t].epoch, planner[t], supervisor[t], flights[t],
           callers[t]["activation"], teardown[t]) /\ lease[t].epoch \in Nat
  BY Zenon, TripParts DEF TripView
<1>2. View(trips'[t], lease'[t].epoch, planner[t], supervisor[t], flights[t],
           callers[t]["activation"], teardown'[t])
  BY Zenon, <1>1 DEF View, EpochsTrusted
<1>3. TripView(t)' /\ OnlyTrip(t)
  BY Zenon, <1>2 DEF TripView, OnlyTrip
<1>4. callers' \in [Trips -> [Callers -> Caller]]
  BY Zenon DEF PublishInv
<1> QED BY Zenon, <1>3, <1>4, OneTripMoves

(* An edit of a trip that does not execute.                                 *)
LEMMA EditKeeps ==
  ASSUME LifecycleInv, PublishInv, NEW t \in Trips, EditTrip(t)
  PROVE  PublishInv'
<1> DEFINE a == callers[t]["activation"]
<1>0. View(trips[t], lease[t].epoch, planner[t], supervisor[t], flights[t], a, teardown[t])
  BY Zenon, TripParts DEF TripView
<1>1. /\ trips[t] \in TripRow /\ trips \in [Trips -> TripRow]
      /\ lease \in [Trips -> [epoch : 0 .. MaxEpoch, live : BOOLEAN]]
      /\ teardown \in [Trips -> [Teardowns -> Teardown]]
  BY Zenon, TripParts DEF LifecycleInv, SavedInv, LeaseInv, PublishInv
<1>2. /\ UNCHANGED <<planner, supervisor, flights, callers, teardown>>
      /\ \A u \in Trips \ {t} : lease'[u] = lease[u]
      /\ trips'[t].state # "deleted" => lease' = lease
  BY Zenon, <1>1 DEF EditTrip
<1>3. ASSUME NEW r, trips' = [trips EXCEPT ![t] = r],
             \/ r.state = "deleted"
             \/ /\ trips[t].state \in {"absent", "inactive"} /\ r.state = "inactive"
                /\ trips[t].state = "inactive" => r.next = trips[t].next,
             trips[t].state \in {"absent", "inactive"}
      PROVE  PublishInv'
  <2>1. trips'[t] = r /\ \A u \in Trips \ {t} : trips'[u] = trips[u]
    BY Zenon, <1>1, <1>3
  <2>2. TearsDown(r, teardown[t])
    BY Zenon, <1>0, <1>3 DEF View, TearsDown
  <2>3. CallerFits(r, a)
    BY Zenon, <1>0, <1>3 DEF View, CallerFits
  <2>4. ActiveHolds(r, lease'[t].epoch, supervisor[t], flights[t], teardown[t])
    BY Zenon, <1>0, <1>2, <1>3, <2>1 DEF View, ActiveHolds
  <2>5. RestingWaits(r, supervisor[t], flights[t]) /\ r.state # "activating"
    BY Zenon, <1>0, <1>3 DEF View, RestingWaits
  <2> QED BY Zenon, <1>1, <1>2, <2>1, <2>2, <2>3, <2>4, <2>5, RowMoves
<1>4. CASE Create(t)
  <2> DEFINE r == [Absent EXCEPT !.state = "inactive", !.revision = 1, !.next = 1]
  <2>1. trips' = [trips EXCEPT ![t] = r] /\ trips[t].state = "absent"
    BY Zenon, <1>4 DEF Create
  <2>2. r.state = "inactive"
    BY DEF Absent
  <2> HIDE DEF r
  <2> QED BY Zenon, <1>3, <2>1, <2>2
<1>5. CASE Delete(t)
  <2> DEFINE r == [Absent EXCEPT !.state = "deleted"]
  <2>1. trips' = [trips EXCEPT ![t] = r] /\ trips[t].state = "inactive"
    BY Zenon, <1>5 DEF Delete
  <2>2. r.state = "deleted"
    BY DEF Absent
  <2> HIDE DEF r
  <2> QED BY Zenon, <1>3, <2>1, <2>2
<1>6. CASE Update(t) \/ AddActivity(t) \/ ReplaceActivity(t) \/ DeleteActivity(t)
  <2> DEFINE r == [trips[t] EXCEPT !.revision = @ + 1]
  <2>1. trips' = [trips EXCEPT ![t] = r] /\ trips[t].state = "inactive"
    BY Zenon, <1>6 DEF Update, AddActivity, ReplaceActivity, DeleteActivity, CanEdit, Edited
  <2>2. r.state = trips[t].state /\ r.next = trips[t].next
    BY Zenon, <1>1 DEF TripRow
  <2> HIDE DEF r
  <2> QED BY Zenon, <1>3, <2>1, <2>2
<1> QED BY <1>4, <1>5, <1>6 DEF EditTrip, Edit

(* startDeactivation, by the request or by the recovery worker.             *)
LEMMA DeactivatingKeeps ==
  ASSUME LifecycleInv, PublishInv, NEW t \in Trips,
         DeactivateTrip(t) \/ RecoverDeactivation(t)
  PROVE  PublishInv'
<1> DEFINE a == callers[t]["activation"]
           td == teardown[t]
           free == FreeTeardowns(t)
           k == CHOOSE j \in free : TRUE
           op == trips'[t].op
<1>0. View(trips[t], lease[t].epoch, planner[t], supervisor[t], flights[t], a, td)
  BY Zenon, TripParts DEF TripView
<1>1. /\ trips[t] \in TripRow /\ trips \in [Trips -> TripRow] /\ td \in [Teardowns -> Teardown]
      /\ teardown \in [Trips -> [Teardowns -> Teardown]]
  BY Zenon, TripParts DEF LifecycleInv, SavedInv, PublishInv
<1>2. UNCHANGED <<lease, planner, supervisor, flights, callers>>
  BY Zenon DEF DeactivateTrip, RecoverDeactivation
<1>3. /\ trips'[t].state = "deactivating" /\ trips'[t].next = trips[t].next
      /\ op \in Operation /\ \A u \in Trips \ {t} : trips'[u] = trips[u]
      /\ trips[t].state \notin {"absent", "deleted"}
  <2>1. CASE DeactivateTrip(t)
    <3> DEFINE o == [kind |-> "deactivate", id |-> trips[t].plan, source |-> trips[t].revision]
    <3>1. o \in Operation
      BY <1>1 DEF TripRow, Operation
    <3>2. trips' = [trips EXCEPT ![t] = [trips[t] EXCEPT !.state = "deactivating", !.op = o]]
          /\ trips[t].state \in {"active", "activating"}
      BY Zenon, <1>1, <2>1 DEF DeactivateTrip, Deactivate
    <3> HIDE DEF o
    <3> QED BY Zenon, <1>1, <3>1, <3>2 DEF TripRow
  <2>2. CASE RecoverDeactivation(t)
    <3>1. trips' = trips /\ trips[t].state = "deactivating"
      BY Zenon, <2>2 DEF RecoverDeactivation
    <3> QED BY Zenon, <1>1, <3>1 DEF TripRow
  <2> QED BY <2>1, <2>2
<1>4. teardown' = TornDown(t, op)
  BY Zenon DEF DeactivateTrip, RecoverDeactivation
<1>5. /\ teardown' \in [Trips -> [Teardowns -> Teardown]]
      /\ \A u \in Trips \ {t} : teardown'[u] = teardown[u]
      /\ Dropping(td) => Dropping(teardown'[t])
  <2>1. CASE free = {}
    <3>1. teardown' = teardown
      BY Zenon, <1>4, <2>1 DEF TornDown
    <3> QED BY Zenon, <1>1, <3>1
  <2>2. CASE free # {}
    <3> DEFINE new == [at |-> "read", op |-> op, epoch |-> 0]
    <3>1. k \in free
      BY Zenon, <2>2
    <3>2. teardown' = [teardown EXCEPT ![t][k] = new]
      BY Zenon, <1>4, <2>2 DEF TornDown
    <3>3. new \in Teardown
      BY <1>3, TripLifecycleAssumption DEF Teardown
    <3> HIDE DEF k, new, free, op
    <3>4. k \in Teardowns /\ td[k] = NoTeardown
      BY Zenon, <3>1 DEF FreeTeardowns, free
    <3>5. NoTeardown.at # "drop"
      BY DEF NoTeardown
    <3>6. /\ teardown' \in [Trips -> [Teardowns -> Teardown]]
          /\ \A u \in Trips \ {t} : teardown'[u] = teardown[u]
          /\ \A j \in Teardowns \ {k} : teardown'[t][j] = td[j]
      BY Zenon, <1>1, <3>2, <3>3, <3>4
    <3>7. Dropping(td) => Dropping(teardown'[t])
      BY Zenon, <3>4, <3>5, <3>6 DEF Dropping
    <3> QED BY <3>6, <3>7
  <2> QED BY <2>1, <2>2
<1> HIDE DEF k, free, op
<1>6. TearsDown(trips'[t], teardown'[t]) /\ RestingWaits(trips'[t], supervisor[t], flights[t])
      /\ trips'[t].state # "activating"
  BY Zenon, <1>3 DEF TearsDown, RestingWaits
<1>7. CallerFits(trips'[t], a)
  BY Zenon, <1>0, <1>3 DEF View, CallerFits
<1>8. ActiveHolds(trips'[t], lease[t].epoch, supervisor[t], flights[t], teardown'[t])
  BY Zenon, <1>0, <1>3, <1>5 DEF View, ActiveHolds
<1>9. \A u \in Trips \ {t} :
        trips'[u] = trips[u] /\ lease'[u] = lease[u] /\ teardown'[u] = teardown[u]
  BY Zenon, <1>2, <1>3, <1>5
<1> QED BY Zenon, <1>2, <1>5, <1>6, <1>7, <1>8, <1>9, RowMoves

(* The goroutine of startDeactivation.  That it is the only one is needed   *)
(* at the end: the trip is inactive when no other teardown is on its way.   *)
LEMMA TearingDownKeeps ==
  ASSUME MaxTeardowns \in {0, 1},
         LifecycleInv, PublishInv, NEW t \in Trips, NEW k \in Teardowns, TeardownStep(t, k)
  PROVE  PublishInv'
<1> DEFINE a == callers[t]["activation"]
           td == teardown[t]
<1>0. View(trips[t], lease[t].epoch, planner[t], supervisor[t], flights[t], a, td)
  BY Zenon, TripParts DEF TripView
<1>1. /\ trips[t] \in TripRow /\ trips \in [Trips -> TripRow] /\ td \in [Teardowns -> Teardown]
      /\ teardown \in [Trips -> [Teardowns -> Teardown]] /\ td[k] \in Teardown
      /\ supervisor[t] \in Maps /\ lease[t].epoch \in 0 .. MaxEpoch
      /\ lease \in [Trips -> [epoch : 0 .. MaxEpoch, live : BOOLEAN]]
  BY Zenon, TripParts DEF LifecycleInv, SavedInv, PublishInv, LeaseInv
<1>2. 0 \in 0 .. MaxEpoch
  BY TripLifecycleAssumption
<1>3. \A j \in Teardowns : j = k
  BY DEF Teardowns
<1>4. ASSUME NEW d \in Teardown, teardown' = [teardown EXCEPT ![t][k] = d]
      PROVE  /\ teardown' \in [Trips -> [Teardowns -> Teardown]]
             /\ \A u \in Trips \ {t} : teardown'[u] = teardown[u]
             /\ teardown'[t][k] = d /\ (Dropping(teardown'[t]) <=> d.at = "drop")
  <2>1. /\ teardown' \in [Trips -> [Teardowns -> Teardown]] /\ teardown'[t][k] = d
        /\ \A u \in Trips \ {t} : teardown'[u] = teardown[u]
    BY Zenon, <1>1, <1>4
  <2> QED BY Zenon, <1>3, <2>1 DEF Dropping
<1>5. td[k].at # "idle" /\ trips[t].state = "deactivating" /\ CallerFits(trips[t], a)
      /\ (Dropping(td) => td[k].at = "drop")
  <2>1. td[k].at # "idle"
    BY Zenon DEF TeardownStep, TeardownReads, TeardownReleases, TeardownDrops, TeardownCompletes
  <2> QED BY Zenon, <1>0, <1>3, <2>1 DEF View, TearsDown, Dropping
<1>6. ASSUME UNCHANGED <<trips, planner, supervisor, flights, callers>>,
             \A u \in Trips \ {t} : lease'[u] = lease[u],
             NEW d \in Teardown, teardown' = [teardown EXCEPT ![t][k] = d],
             d.at = "drop" \/ (lease' = lease /\ td[k].at # "drop")
      PROVE  PublishInv'
  <2>1. /\ TearsDown(trips'[t], teardown'[t]) /\ trips'[t].state # "activating"
        /\ RestingWaits(trips'[t], supervisor[t], flights[t])
        /\ CallerFits(trips'[t], a)
    BY Zenon, <1>5, <1>6 DEF TearsDown, RestingWaits
  <2>2. ActiveHolds(trips'[t], lease'[t].epoch, supervisor[t], flights[t], teardown'[t])
    BY Zenon, <1>0, <1>4, <1>5, <1>6 DEF View, ActiveHolds
  <2> QED BY Zenon, <1>4, <1>6, <2>1, <2>2, RowMoves
<1>7. CASE TeardownReads(t, k)
  <2>1. PICK e \in 0 .. MaxEpoch :
          teardown' = [teardown EXCEPT ![t][k].at = "release", ![t][k].epoch = e]
    <3>1. supervisor[t].state \in 0 .. MaxEpoch
      BY Zenon, <1>1 DEF Maps
    <3> QED BY Zenon, <1>1, <1>2, <1>7, <3>1 DEF TeardownReads
  <2> DEFINE d == [td[k] EXCEPT !.at = "release", !.epoch = e]
  <2>2. d \in Teardown
    BY Zenon, <1>1 DEF Teardown
  <2>3. teardown' = [teardown EXCEPT ![t][k] = d]
    BY Zenon, <1>1, <2>1
  <2>4. /\ UNCHANGED <<trips, lease, planner, supervisor, flights, callers>>
        /\ td[k].at # "drop"
    BY Zenon, <1>7 DEF TeardownReads
  <2> HIDE DEF d
  <2> QED BY Zenon, <1>6, <2>2, <2>3, <2>4
<1>8. CASE TeardownReleases(t, k)
  <2> DEFINE d == [td[k] EXCEPT !.at = "drop", !.epoch = 0]
  <2>1. d \in Teardown /\ d.at = "drop"
    BY Zenon, <1>1, <1>2 DEF Teardown
  <2>2. teardown' = [teardown EXCEPT ![t][k] = d]
    BY Zenon, <1>1, <1>8 DEF TeardownReleases
  <2>3. /\ UNCHANGED <<trips, planner, supervisor, flights, callers>>
        /\ \A u \in Trips \ {t} : lease'[u] = lease[u]
    BY Zenon, <1>1, <1>8 DEF TeardownReleases
  <2> HIDE DEF d
  <2> QED BY Zenon, <1>6, <2>1, <2>2, <2>3
<1>9. CASE TeardownDrops(t, k)
  <2> DEFINE d == [td[k] EXCEPT !.at = "complete"]
  <2>1. d \in Teardown
    BY Zenon, <1>1 DEF Teardown
  <2>2. teardown' = [teardown EXCEPT ![t][k] = d]
    BY Zenon, <1>1, <1>9 DEF TeardownDrops
  <2>3. Deactivated(t, 0) /\ UNCHANGED <<trips, lease, planner, callers>>
    BY Zenon, <1>9 DEF TeardownDrops
  <2>4. /\ View(trips[t], lease[t].epoch, planner[t], supervisor'[t], flights'[t], a, td)
        /\ supervisor'[t].active = 0
        /\ \A u \in Trips \ {t} : supervisor'[u] = supervisor[u] /\ flights'[u] = flights[u]
    <3>1. 0 \in Flights \cup {0} /\ (0 # 0 => flights[t][0].step = "renew")
      OBVIOUS
    <3> QED BY <2>3, <3>1, ForgettingKeeps
  <2> HIDE DEF d
  <2>5. /\ TearsDown(trips[t], teardown'[t]) /\ trips[t].state # "activating"
        /\ RestingWaits(trips[t], supervisor'[t], flights'[t]) /\ CallerFits(trips[t], a)
        /\ ActiveHolds(trips[t], lease[t].epoch, supervisor'[t], flights'[t], teardown'[t])
    BY Zenon, <1>5, <2>4 DEF TearsDown, RestingWaits, ActiveHolds
  <2>6. View(trips[t], lease[t].epoch, planner[t], supervisor'[t], flights'[t], a, teardown'[t])
    BY Zenon, <2>4, <2>5 DEF View, EpochsTrusted
  <2>7. TripView(t)' /\ OnlyTrip(t)
    BY Zenon, <1>4, <2>1, <2>2, <2>3, <2>4, <2>6 DEF TripView, OnlyTrip
  <2>8. callers' \in [Trips -> [Callers -> Caller]]
        /\ teardown' \in [Trips -> [Teardowns -> Teardown]]
    BY Zenon, <1>4, <2>1, <2>2, <2>3 DEF PublishInv
  <2> QED BY Zenon, <2>7, <2>8, OneTripMoves
<1>10. CASE TeardownCompletes(t, k)
  <2>1. NoTeardown \in Teardown /\ NoTeardown.at = "idle"
    BY <1>2 DEF NoTeardown, Teardown, Operation, NoOperation
  <2>2. /\ teardown' = [teardown EXCEPT ![t][k] = NoTeardown] /\ td[k].at = "complete"
        /\ UNCHANGED <<lease, planner, supervisor, flights, callers>>
    BY Zenon, <1>10 DEF TeardownCompletes
  <2>3. CASE UNCHANGED savedVars
    <3>1. trips' = trips /\ td[k].at # "drop"
      BY Zenon, <2>2, <2>3 DEF savedVars
    <3> QED BY Zenon, <1>6, <2>1, <2>2, <3>1
  <2>4. CASE CompleteDeactivation(t) /\ IsReleased(t)
    <3> DEFINE r == [trips[t] EXCEPT !.state = "inactive", !.plan = 0, !.op = NoOperation]
    <3>1. trips'[t] = r /\ \A u \in Trips \ {t} : trips'[u] = trips[u]
      BY Zenon, <1>1, <2>4 DEF CompleteDeactivation
    <3>2. r.state = "inactive" /\ r.next = trips[t].next
      BY Zenon, <1>1 DEF TripRow
    <3> HIDE DEF r
    <3>3. TearsDown(r, teardown'[t])
      BY Zenon, <1>3, <1>4, <2>1, <2>2 DEF TearsDown
    <3>4. CallerFits(r, a) /\ r.state # "activating"
      BY Zenon, <1>5, <3>2 DEF CallerFits
    <3>5. supervisor[t].active # 0 => flights[t][supervisor[t].active].step = "acquire"
      BY Zenon, <1>0, <1>5, <2>2, <2>4 DEF View, ActiveHolds, IsReleased
    <3>6. /\ RestingWaits(r, supervisor[t], flights[t])
          /\ ActiveHolds(r, lease[t].epoch, supervisor[t], flights[t], teardown'[t])
      BY Zenon, <3>5 DEF RestingWaits, ActiveHolds
    <3>7. \A u \in Trips \ {t} :
            trips'[u] = trips[u] /\ lease'[u] = lease[u] /\ teardown'[u] = teardown[u]
      BY Zenon, <1>4, <2>1, <2>2, <3>1
    <3>8. teardown' \in [Trips -> [Teardowns -> Teardown]]
      BY Zenon, <1>4, <2>1, <2>2
    <3> QED BY Zenon, <2>2, <3>1, <3>3, <3>4, <3>6, <3>7, <3>8, RowMoves
  <2> QED BY Zenon, <1>10, <2>3, <2>4 DEF TeardownCompletes
<1> QED BY <1>7, <1>8, <1>9, <1>10 DEF TeardownStep

(* The lease runs out; the epoch of its row stays.                          *)
LEMMA ExpiryKeeps ==
  ASSUME LifecycleInv, PublishInv, NEW t \in Trips, LeaseExpires(t)
  PROVE  PublishInv'
<1>1. lease \in [Trips -> [epoch : 0 .. MaxEpoch, live : BOOLEAN]]
  BY Zenon DEF LifecycleInv, LeaseInv
<1>2. /\ lease' = [lease EXCEPT ![t].live = FALSE]
      /\ UNCHANGED <<trips, planner, supervisor, flights, callers, teardown>>
  BY Zenon DEF LeaseExpires
<1>3. \A u \in Trips : lease'[u].epoch = lease[u].epoch
  BY Zenon, <1>1, <1>2
<1> QED BY Zenon, <1>2, <1>3 DEF PublishInv, TripView

(* With no goroutine there is nothing to keep.                              *)
LEMMA NothingRuns ==
  ASSUME NEW r, NEW n, NEW p, r.state = "activating" => r.op.id < r.next
  PROVE  View(r, n, p, Dormant, [i \in Flights |-> NoFlight], Idle,
              [k \in Teardowns |-> NoTeardown])
<1>1. Dormant.active = 0 /\ Dormant.activating = 0 /\ NoTeardown.at = "idle"
  BY DEF Dormant, NoTeardown
<1>2. Idle.flight = 0 /\ ~Entered(r, Idle)
  BY Zenon, IdleCaller
<1>3. CallerFits(r, Idle) /\ TearsDown(r, [k \in Teardowns |-> NoTeardown])
  BY Zenon, <1>1, <1>2 DEF CallerFits, TearsDown
<1>4. Tracked(r, Dormant, Idle) = {0}
  BY Zenon, <1>1, <1>2 DEF Tracked
<1>5. EpochsTrusted(r, n, p, Dormant, [i \in Flights |-> NoFlight], Idle)
  BY Zenon, <1>2, <1>4 DEF EpochsTrusted
<1>6. /\ ActiveRuns(Dormant, [i \in Flights |-> NoFlight])
      /\ ActiveHolds(r, n, Dormant, [i \in Flights |-> NoFlight],
                     [k \in Teardowns |-> NoTeardown])
      /\ RestingWaits(r, Dormant, [i \in Flights |-> NoFlight])
  BY Zenon, <1>1 DEF ActiveRuns, ActiveHolds, RestingWaits
<1> QED BY Zenon, <1>3, <1>5, <1>6 DEF View

(* A process that has just been started.                                    *)
LEMMA StartFits ==
  ASSUME supervisor = [t \in Trips |-> Dormant],
         flights = [t \in Trips |-> [i \in Flights |-> NoFlight]],
         callers = [t \in Trips |-> [c \in Callers |-> Idle]],
         teardown = [t \in Trips |-> [k \in Teardowns |-> NoTeardown]],
         \A t \in Trips : trips[t].state = "activating" => trips[t].op.id < trips[t].next
  PROVE  PublishInv
<1>1. Idle \in Caller /\ "activation" \in Callers
  BY Zenon, IdleCaller DEF Callers
<1>2. NoTeardown \in Teardown
  BY TripLifecycleAssumption DEF NoTeardown, Teardown, Operation, NoOperation
<1>3. ASSUME NEW t \in Trips PROVE TripView(t)
  BY Zenon, <1>1, NothingRuns DEF TripView
<1> QED BY Zenon, <1>1, <1>2, <1>3 DEF PublishInv

(* The process ends and starts again.                                       *)
LEMMA CrashKeeps ==
  ASSUME PublishInv, Crash
  PROVE  PublishInv'
<1>1. \A t \in Trips : trips'[t].state = "activating" => trips'[t].op.id < trips'[t].next
  BY Zenon DEF PublishInv, TripView, View, CallerFits, Crash
<1>2. /\ supervisor' = [t \in Trips |-> Dormant]
      /\ flights' = [t \in Trips |-> [i \in Flights |-> NoFlight]]
      /\ callers' = [t \in Trips |-> [c \in Callers |-> Idle]]
      /\ teardown' = [t \in Trips |-> [k \in Teardowns |-> NoTeardown]]
  BY Zenon DEF Crash
<1>3. Idle \in Caller /\ "activation" \in Callers
  BY IdleCaller DEF Callers
<1>4. NoTeardown \in Teardown
  BY TripLifecycleAssumption DEF NoTeardown, Teardown, Operation, NoOperation
<1>5. ASSUME NEW t \in Trips PROVE TripView(t)'
  BY Zenon, <1>1, <1>2, <1>3, NothingRuns DEF TripView
<1> QED BY Zenon, <1>2, <1>3, <1>4, <1>5 DEF PublishInv

(* The calls of Activate, by the three callers.                             *)
LEMMA CallsKeep ==
  ASSUME LifecycleInv, PublishInv, NEW t \in Trips,
         ActivationRuns(t) \/ RecoverLease(t) \/ MessageArrives(t)
  PROVE  PublishInv'
<1>1. UNCHANGED <<trips, lease, planner, teardown>>
  BY Zenon DEF ActivationRuns, RecoverLease, MessageArrives
<1>2. Callers = {"activation", "recovery", "message"}
  BY DEF Callers
<1>3. CASE ActivationRuns(t)
  <2> DEFINE a == callers[t]["activation"]
  <2>1. a \in Caller /\ a.at = "start" /\ CallActivate(t, "activation", a)
    BY Zenon, <1>2, <1>3 DEF PublishInv, ActivationRuns
  <2> QED BY Zenon, <1>1, <1>2, <2>1, CallKeeps
<1>4. CASE RecoverLease(t)
  <2>1. CallActivate(t, "recovery", Idle) /\ Idle \in Caller /\ "recovery" \in Callers
        /\ "recovery" # "activation"
    BY Zenon, <1>2, <1>4, IdleCaller DEF RecoverLease
  <2> QED BY Zenon, <1>1, <2>1, CallKeeps
<1>5. CASE MessageArrives(t)
  <2>1. CallActivate(t, "message", Idle) /\ Idle \in Caller /\ "message" \in Callers
        /\ "message" # "activation"
    BY Zenon, <1>2, <1>5, IdleCaller DEF MessageArrives
  <2> QED BY Zenon, <1>1, <2>1, CallKeeps
<1> QED BY <1>3, <1>4, <1>5

(* Every step keeps the view of every trip.                                 *)
LEMMA PublishInvStep ==
  ASSUME MaxTeardowns \in {0, 1}, LifecycleInv, PublishInv, [Next]_vars
  PROVE  PublishInv'
<1>1. CASE RecoveryLists \/ UNCHANGED vars
  <2>1. UNCHANGED <<trips, lease, planner, supervisor, flights, callers, teardown>>
    BY Zenon, <1>1 DEF RecoveryLists, vars
  <2> QED BY Zenon, <2>1 DEF PublishInv, TripView
<1>2. CASE Crash
  BY <1>2, CrashKeeps
<1>3. ASSUME NEW t \in Trips,
             \/ EditTrip(t) \/ ActivateTrip(t) \/ DeactivateTrip(t)
             \/ ActivationRuns(t) \/ ActivationReadsState(t) \/ ActivationCompletes(t)
             \/ RecoverActivation(t) \/ RecoverDeactivation(t) \/ RecoverLease(t)
             \/ MessageArrives(t) \/ MessageEnds(t) \/ MessageRecords(t) \/ Dispatch(t)
             \/ LeaseExpires(t)
      PROVE  PublishInv'
  BY Zenon, <1>3, EditKeeps, ActivatingKeeps, DeactivatingKeeps, CallsKeep, WorkersKeep,
     CompletingKeeps, DispatchKeeps, ExpiryKeeps
<1>4. ASSUME NEW t \in Trips, NEW i \in Flights,
             FlightStep(t, i) \/ BootstrapIsLost(t, i) \/ RenewalEnds(t, i)
             \/ RenewalFails(t, i)
      PROVE  PublishInv'
  BY Zenon, <1>4, GivingUpKeeps, GoingOnKeeps, BootstrapKeeps, InstallKeeps, RenewalKeeps
     DEF FlightStep
<1>5. ASSUME NEW t \in Trips, NEW k \in Teardowns, TeardownStep(t, k)
      PROVE  PublishInv'
  BY <1>5, TearingDownKeeps
<1> QED BY Zenon, <1>1, <1>2, <1>3, <1>4, <1>5 DEF Next

(* Only startActivation's goroutine publishes a trip.                       *)
LEMMA OnlyCompletionPublishes ==
  ASSUME SavedInv, [Next]_vars, NEW u \in Trips,
         trips[u].state = "activating", trips'[u].state = "active"
  PROVE  /\ ActivationCompletes(u)
         /\ CanCompleteActivation(u, callers[u]["activation"].op)
         /\ HoldsLease(u, callers[u]["activation"].epoch)
<1>1. trips \in [Trips -> TripRow] /\ trips' # trips
  BY Zenon DEF SavedInv
<1>2. ASSUME NEW t \in Trips, \/ EditTrip(t) \/ Activate(t) \/ Deactivate(t)
             \/ CompleteDeactivation(t) \/ RecordCommand(t) \/ PauseCommand(t)
             \/ \E applied \in BOOLEAN : Finalize(t, applied)
      PROVE  FALSE
  <2>1. CASE EditTrip(t)
    <3>1. trips[t].state \in {"absent", "inactive"}
          /\ \A v \in Trips \ {t} : trips'[v] = trips[v]
      BY Zenon, <1>1, <2>1 DEF EditTrip, Edit, Create, Delete, Update, AddActivity,
         ReplaceActivity, DeleteActivity, CanEdit, Edited
    <3> QED BY Zenon, <3>1
  <2>2. CASE Activate(t) \/ Deactivate(t) \/ CompleteDeactivation(t)
    <3>1. CASE Activate(t)
      <4>1. trips'[t].state = "activating" /\ \A v \in Trips \ {t} : trips'[v] = trips[v]
        BY Zenon, <1>1, <3>1 DEF Activate, TripRow
      <4> QED BY Zenon, <4>1
    <3>2. CASE Deactivate(t)
      <4>1. trips'[t].state = "deactivating" /\ \A v \in Trips \ {t} : trips'[v] = trips[v]
        BY Zenon, <1>1, <3>2 DEF Deactivate, TripRow
      <4> QED BY Zenon, <4>1
    <3>3. CASE CompleteDeactivation(t)
      <4>1. trips'[t].state = "inactive" /\ \A v \in Trips \ {t} : trips'[v] = trips[v]
        BY Zenon, <1>1, <3>3 DEF CompleteDeactivation, TripRow
      <4> QED BY Zenon, <4>1
    <3> QED BY <2>2, <3>1, <3>2, <3>3
  <2>3. CASE \/ RecordCommand(t) \/ PauseCommand(t)
             \/ \E applied \in BOOLEAN : Finalize(t, applied)
    <3>1. CASE RecordCommand(t) \/ PauseCommand(t)
      <4>1. trips'[t].state = trips[t].state /\ \A v \in Trips \ {t} : trips'[v] = trips[v]
        BY Zenon, <1>1, <3>1 DEF RecordCommand, PauseCommand, TripRow
      <4> QED BY Zenon, <4>1
    <3>2. ASSUME NEW applied \in BOOLEAN, Finalize(t, applied)
          PROVE  FALSE
      <4>1. trips'[t].state = trips[t].state /\ \A v \in Trips \ {t} : trips'[v] = trips[v]
        BY Zenon, <1>1, <3>2 DEF Finalize, TripRow
      <4> QED BY Zenon, <4>1
    <3> QED BY <2>3, <3>1, <3>2
  <2> QED BY <1>2, <2>1, <2>2, <2>3
<1>3. PICK t \in Trips :
        \/ EditTrip(t) \/ ActivateTrip(t) \/ DeactivateTrip(t) \/ MessageRecords(t)
        \/ Dispatch(t) \/ ActivationCompletes(t) \/ \E k \in Teardowns : TeardownCompletes(t, k)
  <2>1. Next
    BY Zenon, <1>1 DEF vars
  <2>2. ~RecoveryLists /\ ~Crash
    BY Zenon, <1>1 DEF RecoveryLists, Crash
  <2>3. ASSUME NEW t \in Trips
        PROVE  /\ ~ActivationRuns(t) /\ ~ActivationReadsState(t) /\ ~RecoverActivation(t)
               /\ ~RecoverDeactivation(t) /\ ~RecoverLease(t) /\ ~MessageArrives(t)
               /\ ~MessageEnds(t) /\ ~LeaseExpires(t)
    BY Zenon, <1>1 DEF ActivationRuns, ActivationReadsState, RecoverActivation,
       RecoverDeactivation, RecoverLease, MessageArrives, MessageEnds, LeaseExpires
  <2>4. ASSUME NEW t \in Trips, NEW i \in Flights
        PROVE  /\ ~FlightStep(t, i) /\ ~BootstrapIsLost(t, i)
               /\ ~RenewalEnds(t, i) /\ ~RenewalFails(t, i)
    BY Zenon, <1>1 DEF FlightStep, FlightGivesUp, FlightAcquires, FlightLoads,
       FlightBootstraps, FlightInstalls, BootstrapIsLost, RenewalEnds, RenewalFails
  <2>5. ASSUME NEW t \in Trips, NEW k \in Teardowns, TeardownStep(t, k)
        PROVE  TeardownCompletes(t, k)
    BY Zenon, <1>1, <2>5 DEF TeardownStep, TeardownReads, TeardownReleases, TeardownDrops
  <2> QED BY Zenon, <2>1, <2>2, <2>3, <2>4, <2>5 DEF Next
<1>4. ActivationCompletes(t)
  <2>1. ~Dispatch(t)
    BY Zenon, <1>1, <1>2 DEF Dispatch, Finalized, savedVars
  <2>2. ~\E k \in Teardowns : TeardownCompletes(t, k)
    BY Zenon, <1>1, <1>2 DEF TeardownCompletes, savedVars
  <2> QED BY Zenon, <1>2, <1>3, <2>1, <2>2 DEF ActivateTrip, DeactivateTrip, MessageRecords
<1>5. /\ CanCompleteActivation(t, callers[t]["activation"].op)
      /\ HoldsLease(t, callers[t]["activation"].epoch) /\ CompleteActivation(t)
  BY Zenon, <1>1, <1>4 DEF ActivationCompletes, savedVars
<1>6. \A v \in Trips \ {t} : trips'[v] = trips[v]
  BY Zenon, <1>1, <1>5 DEF CompleteActivation
<1>7. u = t
  BY Zenon, <1>6
<1> QED BY Zenon, <1>4, <1>5, <1>7

(* What the planner has when a trip is published.                           *)
LEMMA PublishedIsInSync ==
  ASSUME LifecycleInv, PublishInv, [Next]_vars, NEW t \in Trips,
         trips[t].state = "activating", trips'[t].state = "active"
  PROVE  HoldsLease(t, planner[t].v.epoch) /\ InSync(trips[t], planner[t], planner[t].v.epoch)
<1> DEFINE a == callers[t]["activation"]
<1>1. /\ ActivationCompletes(t) /\ CanCompleteActivation(t, a.op) /\ HoldsLease(t, a.epoch)
  BY Zenon, OnlyCompletionPublishes DEF LifecycleInv
<1>2. a.at = "complete" /\ a.op = trips[t].op
  BY Zenon, <1>1 DEF ActivationCompletes, CanCompleteActivation
<1>3. EpochsTrusted(trips[t], lease[t].epoch, planner[t], supervisor[t], flights[t], a)
  BY Zenon DEF PublishInv, TripView, View
<1>4. Trusted(trips[t], lease[t].epoch, planner[t], a.epoch)
  BY Zenon, <1>2, <1>3 DEF EpochsTrusted, Entered
<1>5. a.epoch = lease[t].epoch /\ a.epoch # 0
  BY Zenon, <1>1 DEF HoldsLease, LifecycleInv, LeaseInv
<1>6. InSync(trips[t], planner[t], a.epoch) /\ planner[t].v.epoch = a.epoch
  BY Zenon, <1>4, <1>5 DEF Trusted, InSync
<1> QED BY Zenon, <1>1, <1>6

-----------------------------------------------------------------------------
(* The flights beside the supervisor's maps, and the planner                *)

(* What happens to the flights of one trip is all that happens.             *)
LEMMA TripFlights ==
  ASSUME FlightsFit, NEW t \in Trips, NEW m \in Maps, NEW fs \in [Flights -> Flight],
         supervisor' = [supervisor EXCEPT ![t] = m],
         flights' = [flights EXCEPT ![t] = fs],
         \A i \in Flights : IsLive(fs[i]) => m.active = i,
         Named(m)
  PROVE  FlightsFit'
<1>1. /\ supervisor' \in [Trips -> Maps] /\ flights' \in [Trips -> [Flights -> Flight]]
      /\ supervisor'[t] = m /\ flights'[t] = fs
      /\ \A u \in Trips \ {t} : supervisor'[u] = supervisor[u] /\ flights'[u] = flights[u]
  BY Zenon DEF FlightsFit
<1>2. \A u \in Trips : Named(supervisor'[u])
  BY Zenon, <1>1 DEF FlightsFit
<1>3. OneLiveFlight'
  BY Zenon, <1>1 DEF FlightsFit, OneLiveFlight, IsLive
<1> QED BY <1>1, <1>2, <1>3 DEF FlightsFit

(* A flight goes on, is cancelled, or ends.                                 *)
LEMMA FlightMoves ==
  ASSUME FlightsFit, NEW t \in Trips, NEW i \in Flights, NEW f \in Flight,
         IsLive(f) => IsLive(flights[t][i]),
         NEW m \in Maps, m.active = supervisor[t].active, Named(m),
         supervisor' = [supervisor EXCEPT ![t] = m],
         flights' = [flights EXCEPT ![t][i] = f]
  PROVE  FlightsFit'
<1> DEFINE fs == [flights[t] EXCEPT ![i] = f]
<1>1. fs \in [Flights -> Flight] /\ flights' = [flights EXCEPT ![t] = fs]
  BY Zenon DEF FlightsFit
<1>2. fs[i] = f /\ \A j \in Flights \ {i} : fs[j] = flights[t][j]
  BY Zenon DEF FlightsFit
<1>3. \A j \in Flights : IsLive(fs[j]) => m.active = j
  BY Zenon, <1>2 DEF FlightsFit, OneLiveFlight, IsLive
<1> HIDE DEF fs
<1> QED BY Zenon, <1>1, <1>3, TripFlights

(* The maps are as they were.                                               *)
LEMMA SameMaps ==
  ASSUME FlightsFit, NEW t \in Trips
  PROVE  /\ supervisor[t] \in Maps /\ Named(supervisor[t])
         /\ supervisor = [supervisor EXCEPT ![t] = supervisor[t]]
BY DEF FlightsFit

(* A flight that fails is gone, and activating names it no longer.          *)
LEMMA FlightFailing ==
  ASSUME FlightsFit, NEW t \in Trips, NEW i \in Flights, FlightFails(t, i)
  PROVE  FlightsFit'
<1>1. flights' = [flights EXCEPT ![t][i] = NoFlight]
  BY Zenon DEF FlightFails
<1>2. CASE supervisor[t].activating # i
  <2>1. supervisor' = supervisor
    BY Zenon, <1>2 DEF FlightFails
  <2> QED BY Zenon, <1>1, <2>1, SameMaps, NoFlightFits, FlightMoves
<1>3. CASE supervisor[t].activating = i
  <2> DEFINE m == [supervisor[t] EXCEPT !.active = 0, !.activating = 0]
             fs == [flights[t] EXCEPT ![i] = NoFlight]
  <2>1. supervisor' = [supervisor EXCEPT ![t] = m]
    BY Zenon, <1>3 DEF FlightFails
  <2>2. m \in Maps /\ m.active = 0 /\ m.activating = 0
    <3>1. supervisor[t] \in Maps /\ 0 \in 0 .. MaxFlights
      BY SameMaps, TripLifecycleAssumption
    <3> QED BY Zenon, <3>1 DEF Maps
  <2>3. /\ fs \in [Flights -> Flight] /\ flights' = [flights EXCEPT ![t] = fs]
        /\ fs[i] = NoFlight /\ \A j \in Flights \ {i} : fs[j] = flights[t][j]
    BY Zenon, <1>1, NoFlightFits DEF FlightsFit
  <2>4. i # 0
    BY DEF Flights
  <2>5. \A j \in Flights \ {i} : ~IsLive(flights[t][j])
    <3>1. supervisor[t].active \in {0, i}
      BY <1>3, <2>4 DEF FlightsFit, Named
    <3>2. \A j \in Flights : j # 0
      BY DEF Flights
    <3> QED BY Zenon, <3>1, <3>2 DEF FlightsFit, OneLiveFlight, IsLive
  <2>6. \A j \in Flights : ~IsLive(fs[j])
    BY Zenon, <2>3, <2>5, NoFlightFits
  <2> HIDE DEF m, fs
  <2>7. Named(m)
    BY <2>2 DEF Named
  <2> QED BY Zenon, <2>1, <2>2, <2>3, <2>6, <2>7, TripFlights
<1> QED BY <1>2, <1>3

(* A call of Activate that starts a flight finds no live one.               *)
LEMMA FlightStarting ==
  ASSUME FlightsFit, NEW t \in Trips, NEW c, NEW caller, CallActivate(t, c, caller)
  PROVE  FlightsFit'
<1>1. CASE UNCHANGED <<supervisor, flights>>
  BY <1>1 DEF FlightsFit, OneLiveFlight
<1>2. ASSUME NEW i \in Flights, flights[t][i] = NoFlight, supervisor[t].active = 0,
             supervisor' = [supervisor EXCEPT ![t].active = i, ![t].activating = i],
             flights' = [flights EXCEPT ![t][i].step = "acquire"]
      PROVE  FlightsFit'
  <2> DEFINE m == [supervisor[t] EXCEPT !.active = i, !.activating = i]
             f == [NoFlight EXCEPT !.step = "acquire"]
             fs == [flights[t] EXCEPT ![i] = f]
  <2>1. supervisor' = [supervisor EXCEPT ![t] = m]
    BY Zenon, <1>2 DEF FlightsFit, Maps
  <2>2. m \in Maps /\ m.active = i /\ m.activating = i
    <3>1. supervisor[t] \in Maps /\ i \in 0 .. MaxFlights
      BY SameMaps DEF Flights
    <3> QED BY Zenon, <3>1 DEF Maps
  <2>3. f \in Flight
    BY NoFlightFits DEF Flight
  <2>4. /\ fs \in [Flights -> Flight] /\ flights' = [flights EXCEPT ![t] = fs]
        /\ \A j \in Flights \ {i} : fs[j] = flights[t][j]
    BY Zenon, <1>2, <2>3 DEF FlightsFit
  <2>5. \A j \in Flights : j # 0
    BY DEF Flights
  <2>6. \A j \in Flights : IsLive(fs[j]) => m.active = j
    BY Zenon, <1>2, <2>2, <2>4, <2>5 DEF FlightsFit, OneLiveFlight, IsLive
  <2> HIDE DEF m, f, fs
  <2>7. Named(m)
    BY <2>2 DEF Named
  <2> QED BY Zenon, <2>1, <2>2, <2>4, <2>6, <2>7, TripFlights
<1>3. CASE ~UNCHANGED <<supervisor, flights>>
  <2> DEFINE free == {i \in Flights : flights[t][i] = NoFlight}
             i == CHOOSE j \in free : TRUE
  <2>1. /\ supervisor[t].active = 0 /\ free # {}
        /\ supervisor' = [supervisor EXCEPT ![t].active = i, ![t].activating = i]
        /\ flights' = [flights EXCEPT ![t][i].step = "acquire"]
    BY Zenon, <1>3 DEF CallActivate
  <2>2. i \in free
    BY Zenon, <2>1
  <2> HIDE DEF i
  <2> QED BY Zenon, <1>2, <2>1, <2>2
<1> QED BY <1>1, <1>3

(* deactivate removes the entry of active and cancels the flight it names.  *)
LEMMA FlightForgotten ==
  ASSUME FlightsFit, NEW t \in Trips, NEW done \in Flights \cup {0}, Deactivated(t, done)
  PROVE  FlightsFit'
<1> DEFINE a == supervisor[t].active
           ended == IF done = 0 THEN flights ELSE [flights EXCEPT ![t][done] = NoFlight]
           gs == IF done = 0 THEN flights[t] ELSE [flights[t] EXCEPT ![done] = NoFlight]
<1>1. /\ gs \in [Flights -> Flight] /\ ended = [flights EXCEPT ![t] = gs]
      /\ \A j \in Flights : IsLive(gs[j]) => IsLive(flights[t][j])
  <2>1. CASE done = 0
    BY Zenon, <2>1 DEF FlightsFit
  <2>2. CASE done # 0
    BY Zenon, <2>2, NoFlightFits DEF FlightsFit
  <2> QED BY <2>1, <2>2
<1>2. \A j \in Flights : j # 0
  BY DEF Flights
<1>3. \A j \in Flights : IsLive(flights[t][j]) => a = j
  BY Zenon DEF FlightsFit, OneLiveFlight, IsLive
<1>4. CASE a = 0
  <2>1. supervisor' = [supervisor EXCEPT ![t] = supervisor[t]] /\ flights' = ended
    BY Zenon, <1>4, SameMaps DEF Deactivated
  <2> HIDE DEF gs, ended
  <2> QED BY Zenon, <1>1, <1>3, <2>1, SameMaps, TripFlights
<1>5. CASE a # 0
  <2> DEFINE m == [supervisor[t] EXCEPT !.active = 0, !.state = 0]
             fs == IF a = done THEN gs ELSE [gs EXCEPT ![a].cancelled = TRUE]
  <2>1. supervisor' = [supervisor EXCEPT ![t] = m] /\ m \in Maps /\ Named(m) /\ m.active = 0
    <3>1. supervisor' = [supervisor EXCEPT ![t] = m]
      BY Zenon, <1>5 DEF Deactivated
    <3>2. m \in Maps /\ m.active = 0
      <4>1. supervisor[t] \in Maps /\ 0 \in 0 .. MaxFlights /\ 0 \in 0 .. MaxEpoch
        BY SameMaps, TripLifecycleAssumption
      <4> QED BY Zenon, <4>1 DEF Maps
    <3> QED BY <3>1, <3>2 DEF Named
  <2>2. a \in Flights
    BY <1>5, SameMaps DEF Maps, Flights
  <2>3. flights' = IF a = done THEN ended ELSE [ended EXCEPT ![t][a].cancelled = TRUE]
    BY Zenon, <1>5 DEF Deactivated
  <2>4. CASE a = done
    <3>1. gs[a] = NoFlight
      BY Zenon, <1>2, <2>2, <2>4 DEF FlightsFit
    <3> HIDE DEF gs, ended, m, fs
    <3>2. \A j \in Flights : ~IsLive(gs[j])
      BY Zenon, <1>1, <1>3, <3>1, NoFlightFits
    <3>3. flights' = [flights EXCEPT ![t] = gs]
      BY Zenon, <1>1, <2>3, <2>4
    <3> QED BY Zenon, <1>1, <2>1, <3>2, <3>3, TripFlights
  <2>5. CASE a # done
    <3> DEFINE f == [gs[a] EXCEPT !.cancelled = TRUE]
               hs == [gs EXCEPT ![a] = f]
    <3> HIDE DEF gs, ended
    <3>1. f \in Flight /\ ~IsLive(f)
      <4>1. gs[a] \in Flight
        BY Zenon, <1>1, <2>2
      <4> QED BY Zenon, <4>1 DEF Flight, IsLive
    <3>2. /\ hs \in [Flights -> Flight] /\ hs[a] = f
          /\ \A j \in Flights \ {a} : hs[j] = gs[j]
      BY Zenon, <1>1, <2>2, <3>1
    <3>3. ended[t] = gs /\ flights \in [Trips -> [Flights -> Flight]]
      BY Zenon, <1>1 DEF FlightsFit
    <3>4. flights' = [flights EXCEPT ![t] = hs]
      BY Zenon, <1>1, <2>3, <2>5, <3>3
    <3>5. \A j \in Flights : ~IsLive(hs[j])
      BY Zenon, <1>1, <1>3, <3>1, <3>2
    <3> HIDE DEF m, hs
    <3> QED BY Zenon, <2>1, <3>2, <3>4, <3>5, TripFlights
  <2> QED BY <2>4, <2>5
<1> QED BY Zenon, <1>4, <1>5

(* One planner changes.                                                     *)
LEMMA PlannerStep ==
  ASSUME PlannerFits, NEW t \in Trips, NEW p \in [v : Versions, plan : Nat],
         planner' = [planner EXCEPT ![t] = p]
  PROVE  PlannerFits'
BY Zenon DEF PlannerFits

(* BootstrapPlanner leaves versions behind.                                 *)
LEMMA BootstrapFits ==
  ASSUME PlannerFits, NEW t \in Trips, NEW base \in Bases, BootstrapPlanner(t, base)
  PROVE  PlannerFits'
<1> DEFINE p == [v |-> Bootstrapped(base.epoch, base.revision, base.finalized, 0),
                 plan |-> base.plan]
<1>1. 0 \in Counter
  BY MaxU64Assumption DEF Counter
<1>2. Bootstrapped(base.epoch, base.revision, base.finalized, 0) \in Versions
  BY <1>1 DEF Bases, Bootstrapped, Versions
<1>3. p \in [v : Versions, plan : Nat]
  BY <1>2 DEF Bases
<1>4. planner' = planner \/ planner' = [planner EXCEPT ![t] = p]
  BY Zenon DEF BootstrapPlanner
<1> HIDE DEF p
<1>5. CASE planner' = planner
  BY <1>5 DEF PlannerFits
<1> QED BY Zenon, <1>3, <1>4, <1>5, PlannerStep

(* So does the dispatcher.                                                  *)
LEMMA DispatchFits ==
  ASSUME RowsFit, PlannerFits, NEW t \in Trips, Dispatch(t)
  PROVE  PlannerFits'
<1> DEFINE v == planner[t].v
           cmd == trips[t].cmd
           status == preview_durable(v, lease[t].epoch, cmd.seq, cmd.revision, Unspecified)
<1>1. planner[t] \in [v : Versions, plan : Nat] /\ v \in Versions /\ cmd.seq \in Counter
  BY DEF PlannerFits, RowsFit, RowFits
<1>2. \/ planner' = planner
      \/ /\ status = "accepted"
         /\ \/ planner' = [planner EXCEPT ![t].v = accept_durable(v, cmd.seq)]
            \/ planner' = [planner EXCEPT ![t].v = resolve_terminal_durable(v, cmd.seq)]
  BY Zenon DEF Dispatch
<1>3. ASSUME NEW w \in Versions, planner' = [planner EXCEPT ![t].v = w]
      PROVE  PlannerFits'
  <2> DEFINE p == [planner[t] EXCEPT !.v = w]
  <2>1. p \in [v : Versions, plan : Nat] /\ planner' = [planner EXCEPT ![t] = p]
    BY Zenon, <1>1, <1>3
  <2> HIDE DEF p
  <2> QED BY Zenon, <2>1, PlannerStep
<1>4. CASE planner' = planner
  BY <1>4 DEF PlannerFits
<1>5. resolve_terminal_durable(v, cmd.seq) \in Versions
  BY <1>1 DEF resolve_terminal_durable, Versions
<1>6. ASSUME status = "accepted" PROVE accept_durable(v, cmd.seq) \in Versions
  <2>1. can_increment(v.psv) /\ can_increment(v.generation) /\ can_increment(v.revision)
    BY Zenon, <1>6 DEF preview_durable
  <2>2. v.psv + 1 \in Counter /\ v.generation + 1 \in Counter /\ v.revision + 1 \in Counter
    <3>1. \A n \in Counter : can_increment(n) => n + 1 \in Counter
      BY MaxU64Assumption DEF can_increment, Counter
    <3>2. v.psv \in Counter /\ v.generation \in Counter /\ v.revision \in Counter
      BY <1>1 DEF Versions
    <3> QED BY Zenon, <2>1, <3>1, <3>2
  <2> QED BY Zenon, <1>1, <2>2 DEF accept_durable, Versions
<1> HIDE DEF v, cmd, status
<1> QED BY Zenon, <1>2, <1>3, <1>4, <1>5, <1>6

-----------------------------------------------------------------------------
(* Their steps, action by action                                            *)

(* The steps of a flight up to the exchange with the planner.               *)
LEMMA FlightGoesOn ==
  ASSUME LifecycleInv, NEW t \in Trips, NEW i \in Flights,
         FlightAcquires(t, i) \/ FlightLoads(t, i)
  PROVE  FlightsFit' /\ PlannerFits'
<1>1. flights[t][i] \in Flight /\ lease[t].epoch \in 0 .. MaxEpoch
  BY DEF LifecycleInv, FlightsFit, LeaseInv
<1>2. UNCHANGED <<supervisor, planner>>
  BY Zenon DEF FlightAcquires, FlightLoads
<1>3. PlannerFits'
  BY <1>2 DEF LifecycleInv, PlannerFits
<1>4. supervisor' = [supervisor EXCEPT ![t] = supervisor[t]]
      /\ supervisor[t] \in Maps /\ Named(supervisor[t])
  BY <1>2, SameMaps DEF LifecycleInv
<1>5. CASE FlightAcquires(t, i)
  <2> DEFINE f == [flights[t][i] EXCEPT !.step = "load", !.epoch = lease[t].epoch + 1]
  <2>1. lease[t].epoch + 1 \in 0 .. MaxEpoch
    BY <1>1, <1>5, TripLifecycleAssumption DEF FlightAcquires
  <2>2. f \in Flight
    BY Zenon, <1>1, <2>1 DEF Flight
  <2>3. IsLive(f) => IsLive(flights[t][i])
    BY Zenon, <1>1, <1>5 DEF FlightAcquires, IsLive, Flight
  <2>4. flights' = [flights EXCEPT ![t][i] = f]
    BY Zenon, <1>5 DEF FlightAcquires, LifecycleInv, FlightsFit
  <2> HIDE DEF f
  <2> QED BY Zenon, <1>3, <1>4, <2>2, <2>3, <2>4, FlightMoves DEF LifecycleInv
<1>6. CASE FlightLoads(t, i)
  <2> DEFINE f == [flights[t][i] EXCEPT !.step = "exchange", !.base = Base(t)]
  <2>1. trips[t] \in TripRow /\ RowFits(trips[t])
    BY DEF LifecycleInv, SavedInv, RowsFit
  <2>2. lease[t].epoch \in Counter
    BY <1>1, TripLifecycleAssumption, MaxU64Assumption DEF Counter
  <2>3. Base(t) \in Bases
    BY <2>1, <2>2 DEF Base, Bases, RowFits, TripRow
  <2>4. f \in Flight
    BY Zenon, <1>1, <2>3 DEF Flight
  <2>5. IsLive(f) => IsLive(flights[t][i])
    BY Zenon, <1>1, <1>6 DEF FlightLoads, IsLive, Flight
  <2>6. flights' = [flights EXCEPT ![t][i] = f]
    BY Zenon, <1>6 DEF FlightLoads, LifecycleInv, FlightsFit
  <2> HIDE DEF f
  <2> QED BY Zenon, <1>3, <1>4, <2>4, <2>5, <2>6, FlightMoves DEF LifecycleInv
<1> QED BY <1>5, <1>6

(* The exchange with the planner, and the end of Activate.                  *)
LEMMA FlightAnswered ==
  ASSUME LifecycleInv, NEW t \in Trips, NEW i \in Flights,
         FlightBootstraps(t, i) \/ BootstrapIsLost(t, i) \/ FlightInstalls(t, i)
  PROVE  FlightsFit' /\ PlannerFits'
<1>1. flights[t][i] \in Flight /\ flights[t][i].base \in Bases
  BY DEF LifecycleInv, FlightsFit, Flight
<1>2. supervisor[t] \in Maps /\ Named(supervisor[t])
      /\ supervisor = [supervisor EXCEPT ![t] = supervisor[t]]
  BY SameMaps DEF LifecycleInv
<1>3. CASE FlightBootstraps(t, i)
  <2>1. PlannerFits'
    BY Zenon, <1>1, <1>3, BootstrapFits DEF FlightBootstraps, LifecycleInv
  <2>2. CASE FlightFails(t, i)
    BY <2>1, <2>2, FlightFailing DEF LifecycleInv
  <2>3. CASE /\ flights' = [flights EXCEPT ![t][i].step = "install", ![t][i].base = NoBase]
             /\ supervisor' = supervisor
    <3> DEFINE f == [flights[t][i] EXCEPT !.step = "install", !.base = NoBase]
    <3>1. NoBase \in Bases
      BY NoFlightFits DEF NoFlight, Flight
    <3>2. f \in Flight
      BY Zenon, <1>1, <3>1 DEF Flight
    <3>3. IsLive(f) => IsLive(flights[t][i])
      BY Zenon, <1>1, <1>3 DEF FlightBootstraps, IsLive, Flight
    <3>4. flights' = [flights EXCEPT ![t][i] = f]
      BY Zenon, <2>3 DEF LifecycleInv, FlightsFit
    <3>5. supervisor' = [supervisor EXCEPT ![t] = supervisor[t]]
      BY <1>2, <2>3
    <3> HIDE DEF f
    <3> QED BY Zenon, <1>2, <2>1, <3>2, <3>3, <3>4, <3>5, FlightMoves DEF LifecycleInv
  <2> QED BY Zenon, <1>3, <2>2, <2>3 DEF FlightBootstraps
<1>4. CASE BootstrapIsLost(t, i)
  <2>1. ASSUME UNCHANGED planner PROVE PlannerFits'
    BY <2>1 DEF LifecycleInv, PlannerFits
  <2>2. PlannerFits'
    BY Zenon, <1>1, <1>4, <2>1, BootstrapFits DEF BootstrapIsLost, LifecycleInv
  <2>3. FlightFails(t, i)
    BY Zenon, <1>4 DEF BootstrapIsLost
  <2> QED BY <2>2, <2>3, FlightFailing DEF LifecycleInv
<1>5. CASE FlightInstalls(t, i)
  <2>1. PlannerFits'
    BY <1>5 DEF LifecycleInv, PlannerFits, FlightInstalls
  <2>2. CASE FlightFails(t, i)
    BY <2>1, <2>2, FlightFailing DEF LifecycleInv
  <2>3. CASE /\ supervisor' = [supervisor EXCEPT ![t].state = flights[t][i].epoch,
                                                 ![t].activating = 0]
             /\ flights' = [flights EXCEPT ![t][i].step = "renew"]
    <3> DEFINE f == [flights[t][i] EXCEPT !.step = "renew"]
               m == [supervisor[t] EXCEPT !.state = flights[t][i].epoch, !.activating = 0]
    <3>1. 0 \in 0 .. MaxFlights /\ flights[t][i].epoch \in 0 .. MaxEpoch
      BY <1>1, TripLifecycleAssumption DEF Flight
    <3>2. m \in Maps /\ m.active = supervisor[t].active /\ m.activating = 0
      BY Zenon, <1>2, <3>1 DEF Maps
    <3>3. f \in Flight
      BY Zenon, <1>1 DEF Flight
    <3>4. IsLive(f) => IsLive(flights[t][i])
      BY Zenon, <1>1, <1>5 DEF FlightInstalls, IsLive, Flight
    <3>5. flights' = [flights EXCEPT ![t][i] = f] /\ supervisor' = [supervisor EXCEPT ![t] = m]
      BY Zenon, <2>3 DEF LifecycleInv, FlightsFit
    <3> HIDE DEF f, m
    <3>6. Named(m)
      BY <3>2 DEF Named
    <3> QED BY Zenon, <2>1, <3>2, <3>3, <3>4, <3>5, <3>6, FlightMoves DEF LifecycleInv
  <2> QED BY Zenon, <1>5, <2>2, <2>3 DEF FlightInstalls
<1> QED BY <1>3, <1>4, <1>5

(* A flight gives up, or its renewal ends.                                  *)
LEMMA FlightOver ==
  ASSUME LifecycleInv, NEW t \in Trips, NEW i \in Flights,
         FlightGivesUp(t, i) \/ RenewalEnds(t, i) \/ RenewalFails(t, i)
  PROVE  FlightsFit' /\ PlannerFits'
<1>1. PlannerFits'
  <2>1. UNCHANGED planner
    BY Zenon DEF FlightGivesUp, RenewalEnds, RenewalFails
  <2> QED BY <2>1 DEF LifecycleInv, PlannerFits
<1>2. CASE FlightGivesUp(t, i)
  BY <1>1, <1>2, FlightFailing DEF FlightGivesUp, LifecycleInv
<1>3. CASE RenewalEnds(t, i)
  <2>1. flights' = [flights EXCEPT ![t][i] = NoFlight] /\ supervisor' = supervisor
    BY Zenon, <1>3 DEF RenewalEnds
  <2>2. supervisor[t] \in Maps /\ Named(supervisor[t])
        /\ supervisor' = [supervisor EXCEPT ![t] = supervisor[t]]
    BY <2>1, SameMaps DEF LifecycleInv
  <2> QED BY Zenon, <1>1, <2>1, <2>2, NoFlightFits, FlightMoves DEF LifecycleInv
<1>4. CASE RenewalFails(t, i)
  BY Zenon, <1>1, <1>4, FlightForgotten DEF RenewalFails, LifecycleInv
<1> QED BY <1>2, <1>3, <1>4

(* The steps that leave the flights or the planner alone.                   *)
LEMMA OtherSteps ==
  ASSUME LifecycleInv, NEW t \in Trips,
         \/ EditTrip(t) \/ ActivateTrip(t) \/ DeactivateTrip(t)
         \/ ActivationRuns(t) \/ ActivationReadsState(t) \/ ActivationCompletes(t)
         \/ RecoverActivation(t) \/ RecoverDeactivation(t) \/ RecoverLease(t)
         \/ MessageArrives(t) \/ MessageEnds(t) \/ MessageRecords(t) \/ Dispatch(t)
         \/ LeaseExpires(t)
         \/ \E k \in Teardowns : TeardownStep(t, k)
  PROVE  FlightsFit' /\ PlannerFits'
<1>1. ASSUME UNCHANGED <<supervisor, flights>> PROVE FlightsFit'
  BY <1>1 DEF LifecycleInv, FlightsFit, OneLiveFlight
<1>2. ASSUME UNCHANGED planner PROVE PlannerFits'
  BY <1>2 DEF LifecycleInv, PlannerFits
<1>3. CASE \/ EditTrip(t) \/ ActivateTrip(t) \/ DeactivateTrip(t)
           \/ ActivationReadsState(t) \/ ActivationCompletes(t)
           \/ RecoverActivation(t) \/ RecoverDeactivation(t)
           \/ MessageEnds(t) \/ MessageRecords(t) \/ LeaseExpires(t)
  <2>1. UNCHANGED <<supervisor, flights>> /\ UNCHANGED planner
    BY Zenon, <1>3
    DEF EditTrip, ActivateTrip, DeactivateTrip, ActivationReadsState, ActivationCompletes,
        RecoverActivation, RecoverDeactivation, MessageEnds, MessageRecords, LeaseExpires
  <2> QED BY <1>1, <1>2, <2>1
<1>4. CASE ActivationRuns(t) \/ RecoverLease(t) \/ MessageArrives(t)
  <2>1. UNCHANGED planner /\ \E c, caller : CallActivate(t, c, caller)
    BY Zenon, <1>4 DEF ActivationRuns, RecoverLease, MessageArrives
  <2> QED BY <1>2, <2>1, FlightStarting DEF LifecycleInv
<1>5. CASE Dispatch(t)
  <2>1. UNCHANGED <<supervisor, flights>>
    BY Zenon, <1>5 DEF Dispatch
  <2> QED BY <1>1, <1>5, <2>1, DispatchFits DEF LifecycleInv
<1>6. ASSUME NEW k \in Teardowns, TeardownStep(t, k) PROVE FlightsFit' /\ PlannerFits'
  <2>1. UNCHANGED planner
    BY Zenon, <1>6
    DEF TeardownStep, TeardownReads, TeardownReleases, TeardownDrops, TeardownCompletes
  <2>2. UNCHANGED <<supervisor, flights>> \/ Deactivated(t, 0)
    BY Zenon, <1>6
    DEF TeardownStep, TeardownReads, TeardownReleases, TeardownDrops, TeardownCompletes
  <2> QED BY <1>1, <1>2, <2>1, <2>2, FlightForgotten DEF LifecycleInv
<1> QED BY <1>3, <1>4, <1>5, <1>6
=============================================================================
