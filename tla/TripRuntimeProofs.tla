-------------------------- MODULE TripRuntimeProofs --------------------------
(***************************************************************************)
(* Proofs about TripRuntime for every set of epochs, sequences, plans,     *)
(* streams and slots and every counter width.                              *)
(*                                                                         *)
(* The argument: a bootstrap takes an epoch above every epoch used before, *)
(* and within an epoch every change of the trip state increments the       *)
(* planner state version.  A token captured earlier is therefore behind    *)
(* the versions for good, so the equality can_commit_planning_work tests   *)
(* only holds for work on the state the trip is in.                        *)
(*                                                                         *)
(* Three more parts rest on that: that superseded work is stopped and no   *)
(* owed replan is lost while no trip is deactivated, that coalescing keeps *)
(* the most urgent trigger, and that a final snapshot covers its trip.     *)
(***************************************************************************)
EXTENDS TripRuntime, TLAPS

USE DEF Critical, High, Normal, Advisory

-----------------------------------------------------------------------------
(* What the previews of TripRuntimeVersions guarantee when they accept, and *)
(* that the counters they increment stay 64-bit counters.                   *)

(* An admitted durable event leaves a version record that is ahead of the   *)
(* old one: preview_durable checks what accept_durable increments.          *)
LEMMA DurableAccepted ==
  ASSUME NEW v \in Versions, NEW epoch, NEW seq \in Counter, NEW revision, NEW expectedPsv,
         preview_durable(v, epoch, seq, revision, expectedPsv) = "accepted"
  PROVE  /\ v.epoch # 0 /\ epoch = v.epoch
         /\ v.psv # MaxU64
         /\ PsvMatches(v, expectedPsv)
         /\ accept_durable(v, seq) \in Versions
         /\ accept_durable(v, seq).epoch = v.epoch
         /\ accept_durable(v, seq).psv = v.psv + 1
         /\ resolve_terminal_durable(v, seq) \in Versions
         /\ capture_planning_work(resolve_terminal_durable(v, seq)) = capture_planning_work(v)
<1>1. durable_order(v, epoch, seq, revision, expectedPsv) = "accepted"
  BY Zenon DEF preview_durable
<1>2. can_increment(v.psv) /\ can_increment(v.generation) /\ can_increment(v.revision)
  BY Zenon, <1>1 DEF preview_durable
<1>3. validate_epoch(v, epoch) = "accepted" /\ PsvMatches(v, expectedPsv)
  BY Zenon, <1>1 DEF durable_order
<1>4. v.epoch # 0 /\ epoch = v.epoch
  BY Zenon, <1>3 DEF validate_epoch, IsActive
<1>5. v.psv + 1 \in Counter /\ v.generation + 1 \in Counter /\ v.revision + 1 \in Counter
  BY <1>2, MaxU64Assumption DEF can_increment, Versions, Counter
<1>6. /\ accept_durable(v, seq) \in Versions
      /\ accept_durable(v, seq).epoch = v.epoch
      /\ accept_durable(v, seq).psv = v.psv + 1
  BY Zenon, <1>5 DEF accept_durable, Versions
<1>7. /\ resolve_terminal_durable(v, seq) \in Versions
      /\ capture_planning_work(resolve_terminal_durable(v, seq)) = capture_planning_work(v)
  BY Zenon DEF resolve_terminal_durable, capture_planning_work, Versions
<1> QED
  BY Zenon, <1>2, <1>3, <1>4, <1>5, <1>6, <1>7 DEF can_increment

(* The same for an admitted observation.                                    *)
LEMMA ObservationAccepted ==
  ASSUME NEW v \in Versions, NEW epoch, NEW obs \in Counter,
         preview_observation(v, epoch, obs) = "accepted"
  PROVE  /\ v.epoch # 0 /\ epoch = v.epoch
         /\ v.psv # MaxU64
         /\ accept_observation(v, obs) \in Versions
         /\ accept_observation(v, obs).epoch = v.epoch
         /\ accept_observation(v, obs).psv = v.psv + 1
<1>1. /\ validate_epoch(v, epoch) = "accepted"
      /\ can_increment(v.psv) /\ can_increment(v.generation)
  BY Zenon DEF preview_observation
<1>2. v.epoch # 0 /\ epoch = v.epoch
  BY Zenon, <1>1 DEF validate_epoch, IsActive
<1>3. v.psv + 1 \in Counter /\ v.generation + 1 \in Counter
  BY <1>1, MaxU64Assumption DEF can_increment, Versions, Counter
<1>4. /\ accept_observation(v, obs) \in Versions
      /\ accept_observation(v, obs).epoch = v.epoch
      /\ accept_observation(v, obs).psv = v.psv + 1
  BY Zenon, <1>3 DEF accept_observation, Versions
<1> QED
  BY Zenon, <1>1, <1>2, <1>4 DEF can_increment

(* An advisory moves the watermark and leaves the planning token alone.     *)
LEMMA AdvisoryAccepted ==
  ASSUME NEW v \in Versions, NEW obs \in Counter
  PROVE  /\ accept_advisory(v, obs) \in Versions
         /\ capture_planning_work(accept_advisory(v, obs)) = capture_planning_work(v)
BY Zenon DEF Versions, accept_advisory, capture_planning_work

(* So does a confirmation of finalized mutations.                           *)
LEMMA ConfirmationAccepted ==
  ASSUME NEW v \in Versions, NEW seq \in Counter
  PROVE  /\ confirm_finalized(v, seq) \in Versions
         /\ capture_planning_work(confirm_finalized(v, seq)) = capture_planning_work(v)
BY Zenon DEF Versions, confirm_finalized, capture_planning_work

(* The token captured from a version record is a planning token.            *)
LEMMA TokenType ==
  ASSUME NEW v \in Versions
  PROVE  /\ capture_planning_work(v) \in PlanningWorkToken
         /\ capture_planning_work(v).epoch = v.epoch
         /\ capture_planning_work(v).psv = v.psv
BY Zenon DEF Versions, PlanningWorkToken, capture_planning_work

-----------------------------------------------------------------------------
(* What the helpers of the planning work do to the set of jobs.             *)

(* The absent attempt and its trigger have their types.                     *)
LEMMA NoPendingType == NoPending \in Seed /\ NoPlanning.trigger \in Trigger
BY MaxU64Assumption DEF NoPending, Seed, NoPlanning, Trigger, PlanningWorkToken, Counter

(* A stop request changes no seed.                                          *)
LEMMA StoppedJobs ==
  ASSUME NEW js \in SUBSET Job
  PROVE  /\ Stopped(js) \in SUBSET Job
         /\ \A j \in Stopped(js) : \E k \in js : j.seed = k.seed
<1>1. ASSUME NEW k \in js
      PROVE  LET j == [k EXCEPT !.stopped = @ \/ (k.slot = planning.job)]
             IN  j \in Job /\ j.seed = k.seed
  BY Zenon DEF Job
<1> QED
  BY Zenon, <1>1 DEF Stopped

(* A change of the trip state changes no token.                             *)
LEMMA OutdatedJobs ==
  ASSUME NEW js \in SUBSET Job
  PROVE  /\ Outdated(js) \in SUBSET Job
         /\ \A j \in Outdated(js) : \E k \in js : j.seed.token = k.seed.token
<1>1. ASSUME NEW k \in js
      PROVE  LET j == [k EXCEPT !.seed.current = FALSE]
             IN  j \in Job /\ j.seed.token = k.seed.token
  BY Zenon DEF Job, Seed
<1> QED
  BY Zenon, <1>1 DEF Outdated

(* Retaining a higher-priority trigger changes only the trigger of a seed.  *)
LEMMA PreservedSeed ==
  ASSUME NEW p \in Seed, NEW retained \in Trigger
  PROVE  /\ preserve_higher_priority_trigger(p, retained) \in Seed
         /\ preserve_higher_priority_trigger(p, retained).token = p.token
         /\ preserve_higher_priority_trigger(p, retained).current = p.current
BY Zenon DEF preserve_higher_priority_trigger, Seed

PlanningType == [job : Slots \cup {"none"}, trigger : Trigger]

(* dispatch_planning adds at most one job, for the seed it is given.        *)
LEMMA DispatchPlanning ==
  ASSUME NEW p \in Seed, NEW js \in SUBSET Job, NEW owing \in BOOLEAN,
         dispatch_planning(p, js, owing)
  PROVE  /\ jobs' \in SUBSET Job
         /\ planning' \in PlanningType
         /\ owed' \in BOOLEAN
         /\ \A j \in jobs' : j \in js \/ j.seed = p
<1>1. CASE \E slot \in Slots :
             /\ jobs' = js \cup {[slot |-> slot, seed |-> p, stopped |-> FALSE]}
             /\ planning' = [job |-> slot, trigger |-> p.trigger]
             /\ owed' = owing
  <2>1. PICK slot \in Slots :
           /\ jobs' = js \cup {[slot |-> slot, seed |-> p, stopped |-> FALSE]}
           /\ planning' = [job |-> slot, trigger |-> p.trigger]
           /\ owed' = owing
    BY Zenon, <1>1
  <2>2. [slot |-> slot, seed |-> p, stopped |-> FALSE] \in Job
    BY Zenon DEF Job
  <2>3. p.trigger \in Trigger
    BY Zenon DEF Seed
  <2>4. [slot |-> slot, seed |-> p, stopped |-> FALSE].seed = p
    BY Zenon
  <2>5. planning' \in PlanningType
    BY Zenon, <2>1, <2>3 DEF PlanningType
  <2>6. jobs' \in SUBSET Job /\ \A j \in jobs' : j \in js \/ j.seed = p
    BY Zenon, <2>1, <2>2, <2>4
  <2> QED
    BY Zenon, <2>1, <2>5, <2>6
<1>2. CASE jobs' = js /\ planning' = NoPlanning /\ owed' = FALSE
  BY Zenon, <1>2, NoPendingType DEF PlanningType, NoPlanning
<1> QED
  BY Zenon, <1>1, <1>2 DEF dispatch_planning

(* dispatch_pending keeps the attempt or starts a job for it.               *)
LEMMA DispatchPending ==
  ASSUME NEW p \in Seed, NEW js \in SUBSET Job, NEW queue, NEW owing \in BOOLEAN,
         dispatch_pending(p, js, queue, owing)
  PROVE  /\ jobs' \in SUBSET Job
         /\ planning' \in PlanningType
         /\ owed' \in BOOLEAN
         /\ pending' \in {p, NoPending}
         /\ \A j \in jobs' : j \in js \/ (p # NoPending /\ j.seed = p)
<1>1. CASE /\ pending' = p
           /\ planning' = NoPlanning
           /\ jobs' = js
           /\ owed' = owing
  BY Zenon, <1>1, NoPendingType DEF PlanningType, NoPlanning
<1>2. CASE /\ p # NoPending
           /\ pending' = NoPending
           /\ dispatch_planning(p, js, owing)
  BY Zenon, <1>2, DispatchPlanning
<1> QED
  BY Zenon, <1>1, <1>2 DEF dispatch_pending

(* After a replan every job and the pending attempt is an old job or plans  *)
(* the seed of the event.                                                   *)
LEMMA ReplanWork ==
  ASSUME TypeOK, NEW p \in Seed, NEW js \in SUBSET Job, NEW queue, Replan(p, js, queue),
         p.token.epoch # 0
  PROVE  /\ jobs' \in SUBSET Job
         /\ planning' \in PlanningType
         /\ owed' \in BOOLEAN
         /\ pending' \in Seed
         /\ pending' = NoPending \/ (pending'.token = p.token /\ pending'.current = p.current)
         /\ \A j \in jobs' : \/ \E k \in js : j.seed = k.seed
                             \/ j.seed.token = p.token /\ j.seed.current = p.current
<1> USE NoPendingType
<1>1. /\ planning \in PlanningType /\ planning.trigger \in Trigger
      /\ pending \in Seed /\ pending.trigger \in Trigger
  BY Zenon DEF TypeOK, PlanningType, Seed
<1>2. (binding # NoStream) \in BOOLEAN
  BY Zenon
<1>3. CASE IsRunning
  <2> DEFINE first == preserve_higher_priority_trigger(p, planning.trigger)
             second == preserve_higher_priority_trigger(first, pending.trigger)
  <2>1. first \in Seed /\ first.token = p.token /\ first.current = p.current
    BY Zenon, <1>1, PreservedSeed
  <2>2. second \in Seed /\ second.token = p.token /\ second.current = p.current
    BY Zenon, <1>1, <2>1, PreservedSeed
  <2>3. /\ pending' \in {first, second}
        /\ jobs' = Stopped(js)
        /\ planning' = planning
        /\ owed' = (binding # NoStream)
    BY Zenon, <1>3 DEF Replan
  <2>4. pending' \in Seed /\ pending'.token = p.token /\ pending'.current = p.current
    BY Zenon, <2>1, <2>2, <2>3
  <2> QED
    BY Zenon, <1>1, <1>2, <2>3, <2>4, StoppedJobs
<1>4. CASE ~IsRunning /\ HasPending
  <2> DEFINE q == preserve_higher_priority_trigger(p, pending.trigger)
  <2>1. q \in Seed /\ q.token = p.token /\ q.current = p.current
    BY Zenon, <1>1, PreservedSeed
  <2>2. dispatch_pending(q, js, queue, binding # NoStream)
    BY Zenon, <1>4 DEF Replan
  <2> HIDE DEF q
  <2>3. /\ jobs' \in SUBSET Job
        /\ planning' \in PlanningType
        /\ owed' \in BOOLEAN
        /\ pending' \in {q, NoPending}
        /\ \A j \in jobs' : j \in js \/ j.seed = q
    BY Zenon, <1>2, <2>1, <2>2, DispatchPending
  <2> QED
    BY Zenon, <2>1, <2>3
<1>5. CASE ~IsRunning /\ ~HasPending
  <2>1. pending' = NoPending /\ dispatch_planning(p, js, binding # NoStream)
    BY Zenon, <1>5 DEF Replan
  <2>2. /\ jobs' \in SUBSET Job
        /\ planning' \in PlanningType
        /\ owed' \in BOOLEAN
        /\ \A j \in jobs' : j \in js \/ j.seed = p
    BY Zenon, <1>2, <2>1, DispatchPlanning
  <2> QED
    BY Zenon, <2>1, <2>2
<1> QED
  BY Zenon, <1>3, <1>4, <1>5

-----------------------------------------------------------------------------
(* The inductive invariant.  ProposalIsCurrent and PendingIsLatest are not  *)
(* inductive alone: a completion may commit any token equal to the trip's   *)
(* versions, so what is known of the tokens of running jobs is needed too.  *)
Fences == WorkIsFenced /\ PendingIsLatest /\ ProposalIsCurrent

IInv == TypeOK /\ Fences

(* The coordinator's seed is a seed.                                        *)
LEMMA SeedType ==
  ASSUME NEW v \in Versions, NEW q \in Plans \cup {NoPlan}, NEW priority \in 0 .. 3,
         NEW ordinary \in BOOLEAN
  PROVE  /\ SeedOf(v, q, priority, ordinary) \in Seed
         /\ SeedOf(v, q, priority, ordinary).token = capture_planning_work(v)
         /\ SeedOf(v, q, priority, ordinary).current = TRUE
<1>1. v.epoch \in Counter
  BY Zenon DEF Versions
<1> QED
  BY Zenon, <1>1, TokenType DEF SeedOf, Seed, Trigger

(* A step that changes the trip state leaves every earlier token behind.    *)
LEMMA AdvanceKeepsFences ==
  ASSUME IInv, versions' \in Versions,
         versions.epoch # 0, versions'.epoch = versions.epoch,
         versions'.psv = versions.psv + 1,
         issued' = issued, proposal' = NoProposal,
         pending' = NoPending \/ (/\ pending'.token = capture_planning_work(versions')
                                  /\ pending'.current = TRUE),
         \A j \in jobs' : \/ \E k \in jobs : j.seed.token = k.seed.token
                         \/ /\ j.seed.token = capture_planning_work(versions')
                            /\ j.seed.current = TRUE
  PROVE  Fences'
<1>1. /\ versions \in Versions /\ issued \in Counter
      /\ versions.epoch \in Nat /\ versions.psv \in Nat /\ issued \in Nat
      /\ versions'.psv \in Nat
  BY MaxU64Assumption DEF IInv, TypeOK, Versions, Counter
<1>2. versions.epoch <= issued
  BY Zenon DEF IInv, Fences, WorkIsFenced
<1>3. /\ capture_planning_work(versions').epoch = versions.epoch
      /\ capture_planning_work(versions').psv = versions.psv + 1
  BY Zenon, TokenType
<1>4. ASSUME NEW j \in jobs'
      PROVE  Fenced(j.seed)'
  <2>1. CASE \E k \in jobs : j.seed.token = k.seed.token
    <3>1. PICK k \in jobs : j.seed.token = k.seed.token
      BY Zenon, <2>1
    <3>2. Fenced(k.seed) /\ k.seed.token.psv \in Nat
      BY MaxU64Assumption
         DEF IInv, TypeOK, Fences, WorkIsFenced, Job, Seed, PlanningWorkToken, Counter
    <3>3. /\ j.seed.token.epoch \in 1 .. issued
          /\ j.seed.token.epoch = versions.epoch => j.seed.token.psv <= versions.psv
      BY Zenon, <3>1, <3>2 DEF Fenced
    <3>4. j.seed.token # capture_planning_work(versions')
      BY <1>1, <1>3, <3>1, <3>2, <3>3
    <3> QED
      BY <1>1, <3>1, <3>2, <3>3, <3>4 DEF Fenced
  <2>2. CASE j.seed.token = capture_planning_work(versions') /\ j.seed.current = TRUE
    BY <1>1, <1>2, <1>3, <2>2 DEF Fenced
  <2> QED
    BY Zenon, <1>4, <2>1, <2>2
<1>5. WorkIsFenced'
  BY Zenon, <1>2, <1>4 DEF WorkIsFenced
<1>6. PendingIsLatest'
  BY Zenon, <1>3 DEF PendingIsLatest, HasPending, can_commit_planning_work, IsActive
<1>7. ProposalIsCurrent'
  BY Zenon DEF ProposalIsCurrent
<1> QED
  BY Zenon, <1>5, <1>6, <1>7 DEF Fences

(* A step that leaves the trip state alone may only drop work.              *)
LEMMA SameStateKeepsFences ==
  ASSUME IInv, capture_planning_work(versions') = capture_planning_work(versions),
         versions' \in Versions,
         issued' = issued, plan' = plan, proposal' = proposal \/ ProposalIsCurrent',
         pending' = NoPending \/ pending' = pending,
         \A j \in jobs' : \/ \E k \in jobs : j.seed = k.seed
                         \/ /\ j.seed.token = capture_planning_work(versions)
                            /\ j.seed.current = TRUE
                            /\ versions.epoch # 0
  PROVE  Fences'
<1>1. versions \in Versions /\ issued \in Nat /\ versions.epoch \in Nat /\ versions.psv \in Nat
  BY MaxU64Assumption DEF IInv, TypeOK, Versions, Counter
<1>2. versions'.epoch = versions.epoch /\ versions'.psv = versions.psv
  BY <1>1, TokenType
<1>3. versions.epoch <= issued
  BY Zenon DEF IInv, Fences, WorkIsFenced
<1>4. ASSUME NEW j \in jobs'
      PROVE  Fenced(j.seed)'
  <2>1. CASE \E k \in jobs : j.seed = k.seed
    <3>1. PICK k \in jobs : j.seed = k.seed
      BY Zenon, <2>1
    <3>2. Fenced(k.seed)
      BY Zenon DEF IInv, Fences, WorkIsFenced
    <3> QED
      BY Zenon, <1>2, <3>1, <3>2 DEF Fenced
  <2>2. CASE /\ j.seed.token = capture_planning_work(versions)
             /\ j.seed.current = TRUE
             /\ versions.epoch # 0
    BY <1>1, <1>2, <1>3, <2>2, TokenType DEF Fenced
  <2> QED
    BY Zenon, <1>4, <2>1, <2>2
<1>5. WorkIsFenced'
  BY Zenon, <1>2, <1>3, <1>4 DEF WorkIsFenced
<1>6. PendingIsLatest'
  BY Zenon, <1>2 DEF IInv, Fences, PendingIsLatest, HasPending, can_commit_planning_work, IsActive
<1>7. ProposalIsCurrent'
  BY Zenon, <1>2 DEF IInv, Fences, ProposalIsCurrent
<1> QED
  BY Zenon, <1>5, <1>6, <1>7 DEF Fences

(* A bootstrap or an erasure takes the trip to an epoch no token names.     *)
LEMMA ResetKeepsFences ==
  ASSUME IInv, versions' \in Versions, issued' \in Counter,
         issued <= issued', versions'.epoch <= issued',
         versions'.epoch = 0 \/ versions'.epoch > issued,
         proposal' = NoProposal, pending' = NoPending,
         \A j \in jobs' : \E k \in jobs : j.seed.token = k.seed.token
  PROVE  Fences'
<1>1. issued \in Nat /\ issued' \in Nat /\ versions'.epoch \in Nat
  BY MaxU64Assumption DEF IInv, TypeOK, Versions, Counter
<1>2. capture_planning_work(versions').epoch = versions'.epoch
  BY Zenon, TokenType
<1>3. ASSUME NEW j \in jobs'
      PROVE  Fenced(j.seed)'
  <2>1. PICK k \in jobs : j.seed.token = k.seed.token
    BY Zenon, <1>3
  <2>2. j.seed.token.epoch \in 1 .. issued
    BY Zenon, <2>1 DEF IInv, Fences, WorkIsFenced, Fenced
  <2> QED
    BY <1>1, <1>2, <2>2 DEF Fenced
<1>4. WorkIsFenced'
  BY Zenon, <1>3 DEF WorkIsFenced
<1> QED
  BY Zenon, <1>4 DEF Fences, PendingIsLatest, HasPending, ProposalIsCurrent

-----------------------------------------------------------------------------
(* One lemma per group of requests: the group preserves the invariant.      *)

(* Requests carry 64-bit counters.                                          *)
LEMMA ConstantTypes ==
  /\ \A n \in Epochs \cup Mutations \cup Observations : n \in Counter /\ n # 0
  /\ NoProposal \in [epoch : Counter, psv : Counter, base : Plans \cup {NoPlan},
                     current : BOOLEAN]
  /\ NoClosing \in [op : {"none", "erase", "abort"}, epoch : Counter,
                    revision : Counter, covered : Counter]
  /\ NoPlanning \in PlanningType
  /\ Inactive \in Versions
  /\ 0 \in Counter
<1>1. 0 \in Counter /\ \A n \in Epochs \cup Mutations \cup Observations : n \in Counter /\ n # 0
  BY MaxU64Assumption, TripRuntimeAssumption DEF Counter
<1> QED
  BY Zenon, <1>1, NoPendingType
     DEF NoProposal, NoClosing, NoPlanning, PlanningType, Inactive, Versions

(* An admitted event that changes the trip state and replans.               *)
LEMMA ChangeAndReplan ==
  ASSUME IInv, NEW v \in Versions, NEW q \in Plans \cup {NoPlan},
         NEW priority \in 0 .. 3, NEW ordinary \in BOOLEAN, NEW queue,
         versions.epoch # 0, v.epoch = versions.epoch, v.psv = versions.psv + 1,
         versions' = v, plan' = q, proposal' = NoProposal, issued' = issued,
         Replan(SeedOf(v, q, priority, ordinary), Outdated(jobs), queue)
  PROVE  /\ Fences'
         /\ jobs' \in SUBSET Job /\ planning' \in PlanningType /\ owed' \in BOOLEAN
         /\ pending' \in Seed
<1> DEFINE p == SeedOf(v, q, priority, ordinary)
<1>1. p \in Seed /\ p.token = capture_planning_work(v) /\ p.current = TRUE
  BY Zenon, SeedType
<1>2. p.token.epoch # 0
  BY Zenon, <1>1, TokenType
<1>3. /\ Outdated(jobs) \in SUBSET Job
      /\ \A j \in Outdated(jobs) : \E k \in jobs : j.seed.token = k.seed.token
  BY OutdatedJobs DEF IInv, TypeOK
<1> HIDE DEF p
<1>4. Replan(p, Outdated(jobs), queue)
  BY Zenon DEF p
<1>5. /\ jobs' \in SUBSET Job
      /\ planning' \in PlanningType
      /\ owed' \in BOOLEAN
      /\ pending' \in Seed
      /\ pending' = NoPending \/ (pending'.token = p.token /\ pending'.current = p.current)
      /\ \A j \in jobs' : \/ \E k \in Outdated(jobs) : j.seed = k.seed
                          \/ j.seed.token = p.token /\ j.seed.current = p.current
  BY Zenon, <1>1, <1>2, <1>3, <1>4, ReplanWork DEF IInv
<1>6. \A j \in jobs' : \/ \E k \in jobs : j.seed.token = k.seed.token
                       \/ /\ j.seed.token = capture_planning_work(versions')
                          /\ j.seed.current = TRUE
  BY <1>1, <1>3, <1>5
<1>7. Fences'
  BY Zenon, <1>1, <1>5, <1>6, AdvanceKeepsFences
<1> QED
  BY Zenon, <1>5, <1>7

(* A durable event, whatever plan and priority it results in.               *)
LEMMA DurableStep ==
  ASSUME IInv, NEW epoch \in Epochs, NEW seq \in Mutations, NEW revision, NEW psv,
         NEW q \in Plans \cup {NoPlan}, NEW priority \in 0 .. 3,
         preview_durable(versions, epoch, seq, revision, psv) = "accepted",
         CommitDurable(seq, q, priority)
  PROVE  IInv'
<1>1. versions \in Versions /\ seq \in Counter
  BY Zenon, ConstantTypes DEF IInv, TypeOK
<1> DEFINE v == accept_durable(versions, seq)
<1>2. v \in Versions /\ versions.epoch # 0 /\ v.epoch = versions.epoch /\ v.psv = versions.psv + 1
  BY <1>1, DurableAccepted
<1>3. /\ versions' = v /\ plan' = q /\ proposal' = NoProposal /\ issued' = issued
      /\ Replan(SeedOf(v, q, priority, FALSE), Outdated(jobs), lane)
      /\ UNCHANGED <<binding, deactivation_pending, lane, sent, rest>>
  BY Zenon DEF CommitDurable, rest
<1> HIDE DEF v
<1>4. /\ Fences'
      /\ jobs' \in SUBSET Job /\ planning' \in PlanningType /\ owed' \in BOOLEAN
      /\ pending' \in Seed
  BY Zenon, <1>2, <1>3, ChangeAndReplan
<1>5. TypeOK'
  BY <1>2, <1>3, <1>4, ConstantTypes DEF IInv, TypeOK, PlanningType, rest
<1> QED
  BY Zenon, <1>4, <1>5 DEF IInv

(* ApplyMutation, ApplyMirror, ApplyDecision and RejectDurable.             *)
LEMMA DurableRequestStep ==
  ASSUME IInv, DurableRequest
  PROVE  IInv'
<1>1. PICK epoch \in Epochs, seq \in Mutations, revision \in 1 .. MaxU64 :
        \/ \E priority \in {Critical, High} : ApplyMutation(epoch, seq, revision, priority)
        \/ \E q \in Plans : ApplyMirror(epoch, seq, revision, q)
        \/ \E q \in Plans : ApplyDecision(epoch, seq, revision, q)
        \/ RejectDurable(epoch, seq, revision)
  BY Zenon DEF DurableRequest
<1>2. plan \in Plans \cup {NoPlan}
  BY Zenon DEF IInv, TypeOK
<1>3. CASE \E priority \in {Critical, High} : ApplyMutation(epoch, seq, revision, priority)
  BY <1>2, <1>3, DurableStep DEF ApplyMutation
<1>4. CASE \E q \in Plans : ApplyMirror(epoch, seq, revision, q)
  BY <1>4, DurableStep DEF ApplyMirror
<1>5. CASE \E q \in Plans : ApplyDecision(epoch, seq, revision, q)
  BY <1>5, DurableStep DEF ApplyDecision
<1>6. CASE RejectDurable(epoch, seq, revision)
  <2>1. versions \in Versions /\ seq \in Counter
    BY Zenon, ConstantTypes DEF IInv, TypeOK
  <2>2. /\ preview_durable(versions, epoch, seq, revision, Unspecified) = "accepted"
        /\ versions' = resolve_terminal_durable(versions, seq)
        /\ UNCHANGED <<plan, proposal, binding, deactivation_pending, work, lane, sent, rest>>
    BY Zenon, <1>6 DEF RejectDurable
  <2>3. /\ versions' \in Versions
        /\ capture_planning_work(versions') = capture_planning_work(versions)
    BY <2>1, <2>2, DurableAccepted
  <2>4. Fences'
    BY Zenon, <2>2, <2>3, SameStateKeepsFences DEF work, rest
  <2>5. TypeOK'
    BY <2>2, <2>3 DEF IInv, TypeOK, work, rest
  <2> QED
    BY Zenon, <2>4, <2>5 DEF IInv
<1> QED
  BY Zenon, <1>1, <1>3, <1>4, <1>5, <1>6

(* An observation that replans.                                             *)
LEMMA ObservationStep ==
  ASSUME IInv, NEW epoch, NEW obs \in Counter, NEW priority \in 0 .. 3,
         NEW ordinary \in BOOLEAN, NEW queue,
         preview_observation(versions, epoch, obs) = "accepted",
         versions' = accept_observation(versions, obs), proposal' = NoProposal,
         Replan(SeedOf(accept_observation(versions, obs), plan, priority, ordinary),
                Outdated(jobs), queue),
         UNCHANGED <<plan, issued>>
  PROVE  /\ Fences' /\ versions' \in Versions
         /\ jobs' \in SUBSET Job /\ planning' \in PlanningType /\ owed' \in BOOLEAN
         /\ pending' \in Seed
<1> DEFINE v == accept_observation(versions, obs)
<1>1. v \in Versions /\ versions.epoch # 0 /\ v.epoch = versions.epoch /\ v.psv = versions.psv + 1
  BY ObservationAccepted DEF IInv, TypeOK
<1>2. plan \in Plans \cup {NoPlan}
  BY Zenon DEF IInv, TypeOK
<1>3. versions' = v /\ Replan(SeedOf(v, plan, priority, ordinary), Outdated(jobs), queue)
  BY Zenon
<1> HIDE DEF v
<1> QED
  BY Zenon, <1>1, <1>2, <1>3, ChangeAndReplan

(* An ordinary observation taken from the Normal lane.                      *)
LEMMA ApplyObservationStep ==
  ASSUME IInv, ApplyObservation
  PROVE  IInv'
<1> DEFINE h == Head(lane)
           v == accept_observation(versions, h.obs)
<1>1. h.obs \in Counter /\ lane' \in Seq(Queued)
  <2>1. lane \in Seq(Queued) /\ lane # <<>> /\ lane' = Tail(lane)
    BY Zenon DEF IInv, TypeOK, ApplyObservation
  <2>2. h \in Queued /\ Tail(lane) \in Seq(Queued)
    BY <2>1
  <2> QED
    BY Zenon, <2>1, <2>2 DEF Queued
<1>2. UNCHANGED <<plan, binding, deactivation_pending, sent, closing, accepting, issued>>
  BY Zenon DEF ApplyObservation, rest
<1>3. CASE Admits(h.epoch) /\ preview_observation(versions, h.epoch, h.obs) = "accepted"
  <2>1. /\ versions' = v
        /\ proposal' = NoProposal
        /\ IF IsRunning \/ HasPending
           THEN Replan(SeedOf(v, plan, Normal, TRUE), Outdated(jobs), Tail(lane))
           ELSE jobs' = Outdated(jobs) /\ UNCHANGED <<planning, pending, owed>>
    BY Zenon, <1>3 DEF ApplyObservation
  <2>2. CASE IsRunning \/ HasPending
    <3>1. Normal \in 0 .. 3 /\ TRUE \in BOOLEAN
      OBVIOUS
    <3>2. Replan(SeedOf(v, plan, Normal, TRUE), Outdated(jobs), Tail(lane))
      BY Zenon, <2>1, <2>2
    <3>3. /\ Fences' /\ versions' \in Versions
          /\ jobs' \in SUBSET Job /\ planning' \in PlanningType /\ owed' \in BOOLEAN
          /\ pending' \in Seed
      BY Zenon, <1>1, <1>2, <1>3, <2>1, <3>1, <3>2, ObservationStep
    <3>4. TypeOK'
      BY <1>1, <1>2, <2>1, <3>3, ConstantTypes DEF IInv, TypeOK, PlanningType
    <3> QED
      BY Zenon, <3>3, <3>4 DEF IInv
  <2>3. CASE ~IsRunning /\ ~HasPending
    <3>1. /\ v \in Versions /\ versions.epoch # 0
          /\ v.epoch = versions.epoch /\ v.psv = versions.psv + 1
      BY <1>1, <1>3, ObservationAccepted DEF IInv, TypeOK
    <3>2. jobs' = Outdated(jobs) /\ UNCHANGED <<planning, pending, owed>> /\ pending' = NoPending
      BY Zenon, <2>1, <2>3 DEF HasPending
    <3>3. jobs' \in SUBSET Job /\ \A j \in jobs' : \E k \in jobs : j.seed.token = k.seed.token
      BY <3>2, OutdatedJobs DEF IInv, TypeOK
    <3>4. Fences'
      BY Zenon, <1>2, <2>1, <3>1, <3>2, <3>3, AdvanceKeepsFences
    <3>5. TypeOK'
      BY <1>1, <1>2, <2>1, <3>1, <3>2, <3>3, ConstantTypes DEF IInv, TypeOK
    <3> QED
      BY Zenon, <3>4, <3>5 DEF IInv
  <2> QED
    BY Zenon, <2>2, <2>3
<1>4. CASE ~(Admits(h.epoch) /\ preview_observation(versions, h.epoch, h.obs) = "accepted")
  <2>1. UNCHANGED <<versions, proposal, work>>
    BY Zenon, <1>4 DEF ApplyObservation
  <2>2. versions' \in Versions
    BY Zenon, <2>1 DEF IInv, TypeOK
  <2>3. Fences'
    BY Zenon, <1>2, <2>1, <2>2, SameStateKeepsFences DEF work
  <2>4. TypeOK'
    BY <1>1, <1>2, <2>1 DEF IInv, TypeOK, work
  <2> QED
    BY Zenon, <2>3, <2>4 DEF IInv
<1> QED
  BY Zenon, <1>3, <1>4

(* SubmitObservation, ApplyDeviation and ApplyAdvisory.                     *)
LEMMA ObservationRequestStep ==
  ASSUME IInv, ObservationRequest
  PROVE  IInv'
<1>1. CASE \E obs \in Observations : SubmitObservation(obs)
  <2>1. PICK obs \in Observations : SubmitObservation(obs)
    BY Zenon, <1>1
  <2>2. obs \in Counter /\ versions.epoch \in Counter /\ versions \in Versions
    BY Zenon, ConstantTypes DEF IInv, TypeOK, Versions
  <2>3. /\ UNCHANGED <<shard, work, rest>> /\ sent' = obs
        /\ lane' = Append(lane, [epoch |-> versions.epoch, obs |-> obs])
    BY Zenon, <2>1 DEF SubmitObservation
  <2>4. lane' \in Seq(Queued)
    <3>1. [epoch |-> versions.epoch, obs |-> obs] \in Queued /\ lane \in Seq(Queued)
      BY Zenon, <2>2 DEF Queued, IInv, TypeOK
    <3> QED
      BY <2>3, <3>1
  <2>5. Fences'
    BY Zenon, <2>2, <2>3, SameStateKeepsFences DEF shard, work, rest
  <2>6. TypeOK'
    BY <2>2, <2>3, <2>4 DEF IInv, TypeOK, shard, work, rest
  <2> QED
    BY Zenon, <2>5, <2>6 DEF IInv
<1>2. CASE \E epoch \in Epochs, obs \in Observations : ApplyDeviation(epoch, obs)
  <2>1. PICK epoch \in Epochs, obs \in Observations : ApplyDeviation(epoch, obs)
    BY Zenon, <1>2
  <2>2. obs \in Counter /\ High \in 0 .. 3 /\ FALSE \in BOOLEAN
    BY ConstantTypes
  <2>3. /\ preview_observation(versions, epoch, obs) = "accepted"
        /\ versions' = accept_observation(versions, obs)
        /\ proposal' = NoProposal
        /\ Replan(SeedOf(accept_observation(versions, obs), plan, High, FALSE),
                  Outdated(jobs), lane)
        /\ sent' \in {sent, obs}
        /\ UNCHANGED <<plan, binding, deactivation_pending, lane, closing, accepting, issued>>
    BY Zenon, <2>1 DEF ApplyDeviation, rest
  <2>4. /\ Fences' /\ versions' \in Versions
        /\ jobs' \in SUBSET Job /\ planning' \in PlanningType /\ owed' \in BOOLEAN
        /\ pending' \in Seed
    BY Zenon, <2>2, <2>3, ObservationStep
  <2>5. TypeOK'
    BY <2>2, <2>3, <2>4, ConstantTypes DEF IInv, TypeOK, PlanningType
  <2> QED
    BY Zenon, <2>4, <2>5 DEF IInv
<1>3. CASE \E epoch \in Epochs, obs \in Observations, refresh \in BOOLEAN :
             ApplyAdvisory(epoch, obs, refresh)
  <2>1. PICK epoch \in Epochs, obs \in Observations, refresh \in BOOLEAN :
               ApplyAdvisory(epoch, obs, refresh)
    BY Zenon, <1>3
  <2>2. /\ versions \in Versions /\ obs \in Counter /\ plan \in Plans \cup {NoPlan}
        /\ Advisory \in 0 .. 3 /\ FALSE \in BOOLEAN
    BY ConstantTypes DEF IInv, TypeOK
  <2>3. /\ versions' = accept_advisory(versions, obs) /\ versions.epoch # 0
        /\ sent' \in {sent, obs}
        /\ UNCHANGED <<plan, proposal, binding, deactivation_pending, lane,
                       closing, accepting, issued>>
    BY Zenon, <2>1 DEF ApplyAdvisory, Admits, HasTrip, IsActive, rest
  <2>4. /\ versions' \in Versions
        /\ capture_planning_work(versions') = capture_planning_work(versions)
    BY Zenon, <2>2, <2>3, AdvisoryAccepted
  <2>5. CASE UNCHANGED work
    <3>1. Fences'
      BY Zenon, <2>3, <2>4, <2>5, SameStateKeepsFences DEF work
    <3>2. TypeOK'
      BY <2>2, <2>3, <2>4, <2>5 DEF IInv, TypeOK, work
    <3> QED
      BY Zenon, <3>1, <3>2 DEF IInv
  <2>6. CASE ~IsRunning /\ ~HasPending /\ Replan(SeedOf(versions, plan, Advisory, FALSE), jobs, lane)
    <3> DEFINE p == SeedOf(versions, plan, Advisory, FALSE)
    <3>1. p \in Seed /\ p.token = capture_planning_work(versions) /\ p.current = TRUE
      BY Zenon, <2>2, SeedType
    <3> HIDE DEF p
    <3>2. pending' = NoPending /\ dispatch_planning(p, jobs, binding # NoStream)
      BY Zenon, <2>6 DEF Replan, p
    <3>3. jobs \in SUBSET Job /\ (binding # NoStream) \in BOOLEAN
      BY Zenon DEF IInv, TypeOK
    <3>4. /\ jobs' \in SUBSET Job
          /\ planning' \in PlanningType
          /\ owed' \in BOOLEAN
          /\ \A j \in jobs' : j \in jobs \/ j.seed = p
      BY Zenon, <3>1, <3>2, <3>3, DispatchPlanning
    <3>5. Fences'
      BY Zenon, <2>3, <2>4, <3>1, <3>2, <3>4, SameStateKeepsFences
    <3>6. TypeOK'
      BY <2>2, <2>3, <2>4, <3>2, <3>4, NoPendingType DEF IInv, TypeOK, PlanningType
    <3> QED
      BY Zenon, <3>5, <3>6 DEF IInv
  <2> QED
    BY Zenon, <2>1, <2>5, <2>6 DEF ApplyAdvisory
<1> QED
  BY Zenon, <1>1, <1>2, <1>3 DEF ObservationRequest

(* A higher-epoch bootstrap.                                                *)
LEMMA BootstrapStep ==
  ASSUME IInv, NEW epoch \in Epochs, NEW finalized \in Mutations, NEW revision \in 1 .. finalized,
         NEW q \in Plans, NEW stream \in Streams,
         Bootstrap(epoch, revision, finalized, q, stream)
  PROVE  IInv'
<1>1. epoch \in Counter /\ finalized \in Counter /\ revision \in Counter /\ 0 \in Counter
  <2>1. epoch \in Counter /\ finalized \in Counter /\ 0 \in Counter
    BY Zenon, ConstantTypes
  <2> QED
    BY <2>1, MaxU64Assumption DEF Counter
<1>2. /\ versions' = Bootstrapped(epoch, revision, finalized, 0)
      /\ plan' = q /\ proposal' = NoProposal /\ binding' = stream
      /\ deactivation_pending' = FALSE /\ pending' = NoPending
      /\ jobs' = Outdated(Stopped(jobs))
      /\ epoch > issued /\ issued' = epoch /\ sent' = 0 /\ owed' = FALSE
      /\ UNCHANGED <<planning, lane, closing, accepting>>
  BY Zenon DEF Bootstrap, FreshEpoch
<1>3. versions' \in Versions /\ versions'.epoch = epoch
  BY Zenon, <1>1, <1>2 DEF Bootstrapped, Versions
<1>4. jobs' \in SUBSET Job /\ \A j \in jobs' : \E k \in jobs : j.seed.token = k.seed.token
  BY <1>2, StoppedJobs, OutdatedJobs DEF IInv, TypeOK
<1>5. issued <= issued' /\ versions'.epoch <= issued'
  BY <1>1, <1>2, <1>3, MaxU64Assumption DEF IInv, TypeOK, Counter
<1>6. Fences'
  BY Zenon, <1>1, <1>2, <1>3, <1>4, <1>5, ResetKeepsFences
<1>7. TypeOK'
  BY Zenon, <1>1, <1>2, <1>3, <1>4, ConstantTypes, NoPendingType DEF IInv, TypeOK
<1> QED
  BY Zenon, <1>6, <1>7 DEF IInv

(* Bootstrap, Rebind, ConfirmFinalized and Unbind.                          *)
LEMMA ControlRequestStep ==
  ASSUME IInv, ControlRequest
  PROVE  IInv'
<1>1. CASE \E epoch \in Epochs, finalized \in Mutations, q \in Plans, stream \in Streams :
             \E revision \in 1 .. finalized : Bootstrap(epoch, revision, finalized, q, stream)
  BY Zenon, <1>1, BootstrapStep
<1>2. CASE \E stream \in Streams :
             Rebind(versions.revision, versions.finalized, versions.observation, stream)
  <2>1. PICK stream \in Streams :
           /\ binding' = stream
           /\ UNCHANGED <<versions, plan, proposal, deactivation_pending, work, lane, sent, rest>>
    BY Zenon, <1>2 DEF Rebind
  <2>2. versions' \in Versions
    BY Zenon, <2>1 DEF IInv, TypeOK
  <2>3. Fences'
    BY Zenon, <2>1, <2>2, SameStateKeepsFences DEF work, rest
  <2>4. TypeOK'
    BY <2>1 DEF IInv, TypeOK, work, rest
  <2> QED
    BY Zenon, <2>3, <2>4 DEF IInv
<1>3. CASE \E epoch \in Epochs, seq \in Mutations : ConfirmFinalized(epoch, seq)
  <2>1. PICK seq \in Mutations :
           /\ versions' = confirm_finalized(versions, seq)
           /\ UNCHANGED <<plan, proposal, binding, deactivation_pending, work, lane, sent, rest>>
    BY Zenon, <1>3 DEF ConfirmFinalized
  <2>2. /\ versions' \in Versions
        /\ capture_planning_work(versions') = capture_planning_work(versions)
    BY Zenon, <2>1, ConstantTypes, ConfirmationAccepted DEF IInv, TypeOK
  <2>3. Fences'
    BY Zenon, <2>1, <2>2, SameStateKeepsFences DEF work, rest
  <2>4. TypeOK'
    BY <2>1, <2>2 DEF IInv, TypeOK, work, rest
  <2> QED
    BY Zenon, <2>3, <2>4 DEF IInv
<1>4. CASE \E epoch \in Epochs, stream \in Streams : Unbind(epoch, stream)
  <2>1. /\ binding' = NoStream /\ pending' = NoPending
        /\ jobs' = Stopped(jobs) /\ owed' = FALSE
        /\ UNCHANGED <<versions, plan, proposal, deactivation_pending, planning, lane, sent,
                       closing, accepting, issued>>
    BY Zenon, <1>4 DEF Unbind, rest
  <2>2. jobs' \in SUBSET Job /\ \A j \in jobs' : \E k \in jobs : j.seed = k.seed
    BY <2>1, StoppedJobs DEF IInv, TypeOK
  <2>3. versions' \in Versions
    BY Zenon, <2>1 DEF IInv, TypeOK
  <2>4. Fences'
    BY Zenon, <2>1, <2>2, <2>3, SameStateKeepsFences
  <2>5. TypeOK'
    BY Zenon, <2>1, <2>2, NoPendingType DEF IInv, TypeOK
  <2> QED
    BY Zenon, <2>4, <2>5 DEF IInv
<1> QED
  BY Zenon, <1>1, <1>2, <1>3, <1>4 DEF ControlRequest

(* The trip leaves the shard's map.                                         *)
LEMMA EraseStep ==
  ASSUME IInv, Erase, UNCHANGED <<lane, sent, accepting, issued>>,
         closing' \in {closing, NoClosing}
  PROVE  IInv'
<1>1. /\ versions' = Inactive /\ plan' = NoPlan /\ proposal' = NoProposal
      /\ binding' = NoStream /\ deactivation_pending' = FALSE
      /\ planning' = NoPlanning /\ pending' = NoPending
      /\ jobs' = Outdated(Stopped(jobs)) /\ owed' = FALSE
  BY Zenon DEF Erase
<1>2. versions' \in Versions /\ versions'.epoch = 0
  BY Zenon, <1>1, ConstantTypes DEF Inactive
<1>3. jobs' \in SUBSET Job /\ \A j \in jobs' : \E k \in jobs : j.seed.token = k.seed.token
  BY <1>1, StoppedJobs, OutdatedJobs DEF IInv, TypeOK
<1>4. issued' \in Counter /\ issued <= issued' /\ versions'.epoch <= issued'
  BY <1>2, MaxU64Assumption DEF IInv, TypeOK, Counter
<1>5. Fences'
  BY Zenon, <1>1, <1>2, <1>3, <1>4, ResetKeepsFences
<1>6. TypeOK'
  BY Zenon, <1>1, <1>2, <1>3, ConstantTypes, NoPendingType DEF IInv, TypeOK, PlanningType
<1> QED
  BY Zenon, <1>5, <1>6 DEF IInv

(* Every step of a DeactivateTrip request.                                  *)
LEMMA DeactivationStep ==
  ASSUME IInv, DeactivationRequest \/ FinishDeactivation \/ AbortDeactivation
  PROVE  IInv'
<1>1. CASE \E epoch \in Epochs : Deactivate(epoch)
  BY Zenon, <1>1, EraseStep DEF Deactivate, rest
<1>2. CASE \E epoch \in Epochs, op \in {"erase", "abort", "none"} : DeactivateWithSnapshot(epoch, op)
  <2>1. PICK epoch \in Epochs, op \in {"erase", "abort", "none"} : DeactivateWithSnapshot(epoch, op)
    BY Zenon, <1>2
  <2>2. versions \in Versions /\ epoch \in Counter
        /\ versions.revision \in Counter /\ versions.accepted \in Counter
    BY Zenon, ConstantTypes DEF IInv, TypeOK, Versions
  <2>3. /\ deactivation_pending' = TRUE /\ pending' = NoPending
        /\ jobs' = Stopped(jobs) /\ owed' = FALSE
        /\ closing' \in {NoClosing, [op |-> op, epoch |-> epoch, revision |-> versions.revision,
                                     covered |-> versions.accepted]}
        /\ UNCHANGED <<versions, plan, proposal, binding, planning, lane, sent, accepting, issued>>
    BY Zenon, <2>1 DEF DeactivateWithSnapshot
  <2>4. jobs' \in SUBSET Job /\ \A j \in jobs' : \E k \in jobs : j.seed = k.seed
    <3>1. jobs \in SUBSET Job
      BY Zenon DEF IInv, TypeOK
    <3> QED
      BY Zenon, <2>3, <3>1, StoppedJobs
  <2>5. Fences'
    BY Zenon, <2>2, <2>3, <2>4, SameStateKeepsFences
  <2>6. closing' \in [op : {"none", "erase", "abort"}, epoch : Counter,
                     revision : Counter, covered : Counter]
    BY <2>2, <2>3, ConstantTypes
  <2>7. TypeOK'
    BY Zenon, <2>3, <2>4, <2>6, NoPendingType DEF IInv, TypeOK
  <2> QED
    BY Zenon, <2>5, <2>7 DEF IInv
<1>3. CASE FinishDeactivation
  <2>1. closing' = NoClosing /\ UNCHANGED <<lane, sent, accepting, issued>>
    BY Zenon, <1>3 DEF FinishDeactivation
  <2>2. CASE Erase
    BY Zenon, <2>1, <2>2, EraseStep
  <2>3. CASE UNCHANGED <<shard, work>>
    <3>1. versions' \in Versions
      BY Zenon, <2>3 DEF IInv, TypeOK, shard
    <3>2. Fences'
      BY Zenon, <2>1, <2>3, <3>1, SameStateKeepsFences DEF shard, work
    <3>3. TypeOK'
      BY Zenon, <2>1, <2>3, ConstantTypes DEF IInv, TypeOK, shard, work
    <3> QED
      BY Zenon, <3>2, <3>3 DEF IInv
  <2> QED
    BY Zenon, <1>3, <2>2, <2>3 DEF FinishDeactivation
<1>4. CASE AbortDeactivation
  <2>1. /\ closing' = NoClosing /\ deactivation_pending' \in BOOLEAN
        /\ UNCHANGED <<versions, plan, proposal, binding, work, lane, sent, accepting, issued>>
    BY Zenon, <1>4 DEF AbortDeactivation
  <2>2. versions' \in Versions
    BY Zenon, <2>1 DEF IInv, TypeOK
  <2>3. Fences'
    BY Zenon, <2>1, <2>2, SameStateKeepsFences DEF work
  <2>4. TypeOK'
    BY <2>1, ConstantTypes DEF IInv, TypeOK, work
  <2> QED
    BY Zenon, <2>3, <2>4 DEF IInv
<1> QED
  BY Zenon, <1>1, <1>2, <1>3, <1>4 DEF DeactivationRequest

(* A completion: what dispatch_pending starts plans the current state.      *)
LEMMA CompletionWork ==
  ASSUME IInv, NEW j \in jobs, NEW owing \in BOOLEAN, HasTrip,
         dispatch_pending(pending, jobs \ {j}, lane, owing)
  PROVE  /\ jobs' \in SUBSET Job /\ planning' \in PlanningType /\ owed' \in BOOLEAN
         /\ pending' \in Seed /\ pending' \in {pending, NoPending}
         /\ \A k \in jobs' : \/ \E l \in jobs : k.seed = l.seed
                             \/ /\ k.seed.token = capture_planning_work(versions)
                                /\ k.seed.current = TRUE
                                /\ versions.epoch # 0
<1>1. pending \in Seed /\ jobs \ {j} \in SUBSET Job
  BY Zenon DEF IInv, TypeOK
<1>2. /\ jobs' \in SUBSET Job
      /\ planning' \in PlanningType
      /\ owed' \in BOOLEAN
      /\ pending' \in {pending, NoPending}
      /\ \A k \in jobs' : k \in jobs \ {j} \/ (pending # NoPending /\ k.seed = pending)
  BY <1>1, DispatchPending
<1>3. pending # NoPending => /\ pending.token = capture_planning_work(versions)
                             /\ pending.current = TRUE
                             /\ versions.epoch # 0
  <2>1. pending.current \in BOOLEAN
    BY Zenon, <1>1 DEF Seed
  <2> QED
    BY Zenon, <2>1 DEF IInv, Fences, PendingIsLatest, HasPending, can_commit_planning_work, IsActive
<1> QED
  BY Zenon, <1>1, <1>2, <1>3, NoPendingType

(* The completion of a planning attempt, of whatever outcome.               *)
LEMMA FinishStep ==
  ASSUME IInv, Finish
  PROVE  IInv'
<1>1. PICK j \in jobs : FinishOrphan(j) \/ FinishStale(j) \/ FinishPlanning(j) \/ FinishFailure(j)
  BY Zenon DEF Finish
<1>2. versions \in Versions /\ owed \in BOOLEAN /\ FALSE \in BOOLEAN
  BY Zenon DEF IInv, TypeOK
<1>3. CASE FinishOrphan(j)
  <2>1. jobs' = jobs \ {j} /\ UNCHANGED <<shard, planning, pending, owed, lane, sent, rest>>
    BY Zenon, <1>3 DEF FinishOrphan
  <2>2. Fences'
    BY Zenon, <1>2, <2>1, SameStateKeepsFences DEF shard, rest
  <2>3. TypeOK'
    BY <2>1 DEF IInv, TypeOK, shard, rest
  <2> QED
    BY Zenon, <2>2, <2>3 DEF IInv
<1>4. CASE FinishStale(j) \/ FinishFailure(j)
  <2>1. PICK owing \in BOOLEAN :
           /\ HasTrip
           /\ dispatch_pending(pending, jobs \ {j}, lane, owing)
           /\ UNCHANGED <<shard, lane, sent, rest>>
    BY Zenon, <1>2, <1>4 DEF FinishStale, FinishFailure
  <2>2. /\ jobs' \in SUBSET Job /\ planning' \in PlanningType /\ owed' \in BOOLEAN
        /\ pending' \in Seed /\ pending' \in {pending, NoPending}
        /\ \A k \in jobs' : \/ \E l \in jobs : k.seed = l.seed
                            \/ /\ k.seed.token = capture_planning_work(versions)
                               /\ k.seed.current = TRUE
                               /\ versions.epoch # 0
    BY Zenon, <2>1, CompletionWork
  <2>3. Fences'
    BY Zenon, <1>2, <2>1, <2>2, SameStateKeepsFences DEF shard, rest
  <2>4. TypeOK'
    BY Zenon, <2>1, <2>2 DEF IInv, TypeOK, shard, rest, PlanningType
  <2> QED
    BY Zenon, <2>3, <2>4 DEF IInv
<1>5. CASE FinishPlanning(j)
  <2>1. /\ HasTrip
        /\ can_commit_planning_work(versions, j.seed.token)
        /\ dispatch_pending(pending, jobs \ {j}, lane, FALSE)
        /\ UNCHANGED <<versions, plan, binding, deactivation_pending, lane, sent, rest>>
    BY Zenon, <1>5 DEF FinishPlanning
  <2>2. /\ jobs' \in SUBSET Job /\ planning' \in PlanningType /\ owed' \in BOOLEAN
        /\ pending' \in Seed /\ pending' \in {pending, NoPending}
        /\ \A k \in jobs' : \/ \E l \in jobs : k.seed = l.seed
                            \/ /\ k.seed.token = capture_planning_work(versions)
                               /\ k.seed.current = TRUE
                               /\ versions.epoch # 0
    BY Zenon, <1>2, <2>1, CompletionWork
  <2> DEFINE made == [epoch |-> j.seed.token.epoch, psv |-> j.seed.token.psv,
                      base |-> j.seed.base, current |-> j.seed.current]
  <2>3. /\ j.seed.token = capture_planning_work(versions)
        /\ j.seed.token.epoch = versions.epoch
        /\ j.seed.token.psv = versions.psv
    BY Zenon, <1>2, <2>1, TokenType DEF can_commit_planning_work
  <2>4. j.seed.current
    BY Zenon, <2>3 DEF IInv, Fences, WorkIsFenced, Fenced
  <2>5. made \in [epoch : Counter, psv : Counter, base : Plans \cup {NoPlan}, current : BOOLEAN]
    <3>1. j.seed \in Seed
      BY Zenon DEF IInv, TypeOK, Job
    <3> QED
      BY Zenon, <3>1 DEF Seed, PlanningWorkToken
  <2>6. proposal' = IF j.seed.base = plan THEN made ELSE proposal
    BY Zenon, <1>5 DEF FinishPlanning
  <2>7. ASSUME j.seed.base = plan
        PROVE  ProposalIsCurrent'
    <3>1. proposal' = made
      BY Zenon, <2>6, <2>7
    <3>2. /\ made.current = j.seed.current /\ made.epoch = j.seed.token.epoch
          /\ made.psv = j.seed.token.psv /\ made.base = j.seed.base
      BY Zenon
    <3> HIDE DEF made
    <3>3. /\ proposal'.current /\ proposal'.epoch = versions'.epoch
          /\ proposal'.psv = versions'.psv /\ proposal'.base = plan'
      BY Zenon, <2>1, <2>3, <2>4, <2>7, <3>1, <3>2
    <3> QED
      BY Zenon, <3>3 DEF ProposalIsCurrent
  <2>8. proposal' = proposal \/ ProposalIsCurrent'
    BY Zenon, <2>6, <2>7
  <2>9. Fences'
    BY Zenon, <1>2, <2>1, <2>2, <2>8, SameStateKeepsFences DEF rest
  <2>10. TypeOK'
    BY Zenon, <2>1, <2>2, <2>5, <2>6 DEF IInv, TypeOK, rest, PlanningType
  <2> QED
    BY Zenon, <2>9, <2>10 DEF IInv
<1> QED
  BY Zenon, <1>1, <1>3, <1>4, <1>5

-----------------------------------------------------------------------------
(* A process that holds no trip satisfies the invariant.                    *)
LEMMA InitEstablishes == Init => IInv
<1> SUFFICES ASSUME Init PROVE IInv
  BY Zenon
<1>1. TypeOK
  <2>1. lane \in Seq(Queued)
    BY DEF Init
  <2>2. planning \in PlanningType /\ pending \in Seed /\ jobs \subseteq Job
    BY Zenon, ConstantTypes, NoPendingType DEF Init
  <2> QED
    BY Zenon, <2>1, <2>2, ConstantTypes DEF Init, TypeOK, PlanningType
<1>2. versions.epoch = 0 /\ issued = 0
  BY Zenon DEF Init, Inactive
<1>3. Fences
  BY <1>2 DEF Init, Fences, WorkIsFenced, PendingIsLatest, HasPending, ProposalIsCurrent
<1> QED
  BY Zenon, <1>1, <1>3 DEF IInv

(* Every step of the runtime preserves it.                                  *)
LEMMA NextPreserves == IInv /\ [Next]_vars => IInv'
<1> SUFFICES ASSUME IInv, [Next]_vars PROVE IInv'
  BY Zenon
<1>1. CASE DurableRequest
  BY Zenon, <1>1, DurableRequestStep
<1>2. CASE ObservationRequest
  BY Zenon, <1>2, ObservationRequestStep
<1>3. CASE ApplyObservation
  BY Zenon, <1>3, ApplyObservationStep
<1>4. CASE ControlRequest
  BY Zenon, <1>4, ControlRequestStep
<1>5. CASE DeactivationRequest \/ FinishDeactivation \/ AbortDeactivation
  BY Zenon, <1>5, DeactivationStep
<1>6. CASE Finish
  BY Zenon, <1>6, FinishStep
<1>7. CASE stop_accepting \/ UNCHANGED vars
  <2>1. /\ accepting' \in BOOLEAN
        /\ UNCHANGED <<shard, work, lane, sent, closing, issued>>
    BY Zenon, <1>7 DEF stop_accepting, vars, rest, IInv, TypeOK
  <2>2. versions' \in Versions
    BY Zenon, <2>1 DEF IInv, TypeOK, shard
  <2>3. Fences'
    BY Zenon, <2>1, <2>2, SameStateKeepsFences DEF shard, work
  <2>4. TypeOK'
    BY <2>1 DEF IInv, TypeOK, shard, work
  <2> QED
    BY Zenon, <2>3, <2>4 DEF IInv
<1> QED
  BY Zenon, <1>1, <1>2, <1>3, <1>4, <1>5, <1>6, <1>7 DEF Next

(* The invariant holds in every reachable state, whatever the constants.    *)
THEOREM Invariance == Spec => []IInv
<1>1. Init => IInv
  BY Zenon, InitEstablishes
<1>2. IInv /\ [Next]_vars => IInv'
  BY Zenon, NextPreserves
<1> QED
  BY <1>1, <1>2, PTL DEF Spec

(* Type correctness: in particular no 64-bit counter of the trip wraps,     *)
(* since every increment is guarded by can_increment.                       *)
THEOREM TypeCorrectness == Spec => []TypeOK
<1>1. IInv => TypeOK
  BY Zenon DEF IInv
<1> QED
  BY <1>1, Invariance, PTL

(* No result of an overtaken attempt ever becomes the active proposal: the  *)
(* comparison of the three token fields in can_commit_planning_work is      *)
(* enough, across bootstraps, reactivations and every order of completions. *)
THEOREM ProposalSafety == Spec => []ProposalIsCurrent
<1>1. IInv => ProposalIsCurrent
  BY Zenon DEF IInv, Fences
<1> QED
  BY <1>1, Invariance, PTL

(* The pending replacement attempt always plans the newest admitted state.  *)
THEOREM PendingSafety == Spec => []PendingIsLatest
<1>1. IInv => PendingIsLatest
  BY Zenon DEF IInv, Fences
<1> QED
  BY <1>1, Invariance, PTL

(* A planning token of an earlier state never becomes equal to the versions *)
(* of the trip again.                                                       *)
THEOREM FenceSafety == Spec => []WorkIsFenced
<1>1. IInv => WorkIsFenced
  BY Zenon DEF IInv, Fences
<1> QED
  BY <1>1, Invariance, PTL
-----------------------------------------------------------------------------
(* Planning work of a process that gets no DeactivateTrip.  A trip then has *)
(* at most one attempt on the pools, the one planning_running refers to, so *)
(* that a stop request reaches all the work there is.  A deactivation       *)
(* breaks this: the completion of an erased trip's attempt clears the       *)
(* running flag of the trip bootstrapped in its place.                      *)
OneAttempt ==
  /\ closing.op = "none"
  /\ \A j \in jobs : IsRunning /\ j.slot = planning.job /\ HasTrip
  /\ \A j, k \in jobs : j = k

WorkInv == OneAttempt /\ SupersededWorkIsStopped /\ OwedReplanIsBacked

(* A stop request reaches the one attempt.                                  *)
LEMMA StoppedAll ==
  ASSUME NEW js \in SUBSET Job, \A j \in js : j.slot = planning.job, \A j, k \in js : j = k
  PROVE  /\ \A j \in Stopped(js) : j.stopped = TRUE /\ j.slot = planning.job /\ js # {}
         /\ \A j, k \in Stopped(js) : j = k
<1> DEFINE Stop(k) == [k EXCEPT !.stopped = @ \/ (k.slot = planning.job)]
<1>1. \A k \in js : Stop(k).stopped = TRUE /\ Stop(k).slot = planning.job
  BY Zenon DEF Job
<1>2. \A j \in Stopped(js) : \E k \in js : j = Stop(k)
  BY Zenon DEF Stopped
<1> HIDE DEF Stop
<1>3. \A j, k \in Stopped(js) : j = k
  <2>1. SUFFICES ASSUME NEW j \in Stopped(js), NEW k \in Stopped(js)
                 PROVE  j = k
    BY Zenon
  <2>2. PICK l \in js : j = Stop(l)
    BY Zenon, <1>2
  <2>3. PICK m \in js : k = Stop(m)
    BY Zenon, <1>2
  <2>4. l = m
    BY Zenon
  <2> QED
    BY Zenon, <2>2, <2>3, <2>4
<1> QED
  BY Zenon, <1>1, <1>2, <1>3

(* A change of the trip state leaves the attempts where they are.           *)
LEMMA OutdatedAll ==
  ASSUME NEW js \in SUBSET Job, \A j, k \in js : j = k
  PROVE  /\ \A j \in Outdated(js) : \E k \in js : j.slot = k.slot /\ j.stopped = k.stopped
         /\ \A j, k \in Outdated(js) : j = k
<1>1. ASSUME NEW k \in js
      PROVE  LET j == [k EXCEPT !.seed.current = FALSE]
             IN  j.slot = k.slot /\ j.stopped = k.stopped
  BY Zenon DEF Job
<1> QED
  BY Zenon, <1>1 DEF Outdated

(* An attempt that is started while there is none is the only one, and it   *)
(* plans what it is given.                                                  *)
LEMMA StartedAlone ==
  ASSUME NEW p \in Seed, NEW owing, dispatch_planning(p, {}, owing),
         versions'.epoch # 0, p.token.epoch # 0, p.token = capture_planning_work(versions'),
         closing'.op = "none"
  PROVE  WorkInv'
<1>1. CASE \E slot \in Slots :
             /\ jobs' = {} \cup {[slot |-> slot, seed |-> p, stopped |-> FALSE]}
             /\ planning' = [job |-> slot, trigger |-> p.trigger]
             /\ owed' = owing
  <2>1. PICK slot \in Slots :
           /\ jobs' = {} \cup {[slot |-> slot, seed |-> p, stopped |-> FALSE]}
           /\ planning' = [job |-> slot, trigger |-> p.trigger]
    BY Zenon, <1>1
  <2> DEFINE job == [slot |-> slot, seed |-> p, stopped |-> FALSE]
  <2>2. job.slot = slot /\ job.seed = p /\ job.stopped = FALSE
    BY Zenon
  <2>3. planning'.job = slot /\ planning' # NoPlanning
    BY Zenon, <2>1, TripRuntimeAssumption DEF NoPlanning
  <2>4. jobs' = {job}
    BY Zenon, <2>1
  <2> HIDE DEF job
  <2>5. can_commit_planning_work(versions', job.seed.token)
    BY Zenon, <2>2 DEF can_commit_planning_work, IsActive
  <2>6. OneAttempt'
    BY Zenon, <2>2, <2>3, <2>4 DEF OneAttempt, IsRunning, HasTrip, IsActive
  <2>7. SupersededWorkIsStopped'
    BY Zenon, <2>4, <2>5 DEF SupersededWorkIsStopped
  <2>8. OwedReplanIsBacked'
    BY Zenon, <2>2, <2>4, <2>5 DEF OwedReplanIsBacked
  <2> QED
    BY Zenon, <2>6, <2>7, <2>8 DEF WorkInv
<1>2. CASE jobs' = {} /\ planning' = NoPlanning /\ owed' = FALSE
  BY Zenon, <1>2 DEF WorkInv, OneAttempt, SupersededWorkIsStopped, OwedReplanIsBacked
<1> QED
  BY Zenon, <1>1, <1>2 DEF dispatch_planning

(* All the work there is has been asked to stop, and another attempt is     *)
(* pending or nothing is owed.                                              *)
LEMMA StoppedWork ==
  ASSUME \A j \in jobs' : j.stopped = TRUE /\ j.slot = planning'.job,
         \A j, k \in jobs' : j = k,
         jobs' # {} => planning' # NoPlanning /\ versions'.epoch # 0,
         pending' # NoPending \/ owed' = FALSE,
         closing'.op = "none"
  PROVE  WorkInv'
<1>1. OneAttempt'
  BY Zenon DEF OneAttempt, IsRunning, HasTrip, IsActive
<1>2. SupersededWorkIsStopped'
  BY Zenon DEF SupersededWorkIsStopped
<1>3. OwedReplanIsBacked'
  BY Zenon DEF OwedReplanIsBacked, HasPending
<1> QED
  BY Zenon, <1>1, <1>2, <1>3 DEF WorkInv

(* dispatch_pending while there is no attempt.                              *)
LEMMA DispatchedAlone ==
  ASSUME NEW p \in Seed, NEW queue, NEW owing, dispatch_pending(p, {}, queue, owing),
         p = NoPending => owing = FALSE,
         p # NoPending => /\ versions'.epoch # 0 /\ p.token.epoch # 0
                          /\ p.token = capture_planning_work(versions'),
         closing'.op = "none"
  PROVE  WorkInv'
<1>1. CASE pending' = p /\ planning' = NoPlanning /\ jobs' = {} /\ owed' = owing
  BY Zenon, <1>1, StoppedWork
<1>2. CASE p # NoPending /\ pending' = NoPending /\ dispatch_planning(p, {}, owing)
  BY Zenon, <1>2, StartedAlone
<1> QED
  BY Zenon, <1>1, <1>2 DEF dispatch_pending

(* The replan of an event that is admitted, whatever it finds under way.    *)
LEMMA ReplanIsBacked ==
  ASSUME TypeOK, WorkInv, NEW p \in Seed, NEW js \in SUBSET Job, NEW queue,
         Replan(p, js, queue), js = jobs \/ js = Outdated(jobs),
         versions'.epoch # 0, p.token.epoch # 0, p.token = capture_planning_work(versions'),
         closing'.op = "none"
  PROVE  WorkInv'
<1>1. /\ pending \in Seed /\ pending.trigger \in Trigger /\ planning.trigger \in Trigger
      /\ jobs \in SUBSET Job
  BY Zenon DEF TypeOK, Seed
<1>2. /\ \A j \in jobs : IsRunning /\ j.slot = planning.job
      /\ \A j, k \in jobs : j = k
  BY Zenon DEF WorkInv, OneAttempt
<1>3. /\ \A j \in js : IsRunning /\ j.slot = planning.job
      /\ \A j, k \in js : j = k
  <2>1. /\ \A j \in Outdated(jobs) : \E k \in jobs : j.slot = k.slot
        /\ \A j, k \in Outdated(jobs) : j = k
    BY Zenon, <1>1, <1>2, OutdatedAll
  <2>2. \A j \in Outdated(jobs) : IsRunning /\ j.slot = planning.job
    BY Zenon, <1>2, <2>1
  <2> QED
    BY Zenon, <1>2, <2>1, <2>2
<1>4. NoPending.token.epoch = 0
  BY Zenon DEF NoPending
<1>5. CASE IsRunning
  <2> DEFINE first == preserve_higher_priority_trigger(p, planning.trigger)
             second == preserve_higher_priority_trigger(first, pending.trigger)
  <2>1. first \in Seed /\ first.token = p.token
    BY Zenon, <1>1, PreservedSeed
  <2>2. second \in Seed /\ second.token = p.token
    BY Zenon, <1>1, <2>1, PreservedSeed
  <2>3. pending' \in {first, second} /\ jobs' = Stopped(js) /\ planning' = planning
    BY Zenon, <1>5 DEF Replan
  <2>4. pending' # NoPending
    BY Zenon, <1>4, <2>1, <2>2, <2>3
  <2>5. /\ \A j \in jobs' : j.stopped = TRUE /\ j.slot = planning.job
        /\ \A j, k \in jobs' : j = k
    BY Zenon, <1>3, <2>3, StoppedAll
  <2> QED
    BY Zenon, <1>5, <2>3, <2>4, <2>5, StoppedWork DEF IsRunning
<1>6. CASE ~IsRunning
  <2>1. js = {}
    BY Zenon, <1>3, <1>6
  <2>2. CASE HasPending
    <3> DEFINE q == preserve_higher_priority_trigger(p, pending.trigger)
    <3>1. q \in Seed /\ q.token = p.token
      BY Zenon, <1>1, PreservedSeed
    <3>2. dispatch_pending(q, {}, queue, binding # NoStream)
      BY Zenon, <1>6, <2>1, <2>2 DEF Replan
    <3> HIDE DEF q
    <3>3. q # NoPending
      BY Zenon, <1>4, <3>1
    <3> QED
      BY Zenon, <3>1, <3>2, <3>3, DispatchedAlone
  <2>3. CASE ~HasPending
    <3>1. dispatch_planning(p, {}, binding # NoStream)
      BY Zenon, <1>6, <2>1, <2>3 DEF Replan
    <3> QED
      BY Zenon, <3>1, StartedAlone
  <2> QED
    BY Zenon, <2>2, <2>3
<1> QED
  BY Zenon, <1>5, <1>6

(* A step that leaves the work and the planning token alone.                *)
LEMMA SameWork ==
  ASSUME WorkInv, UNCHANGED work, closing'.op = "none",
         capture_planning_work(versions') = capture_planning_work(versions),
         versions'.epoch = versions.epoch
  PROVE  WorkInv'
<1>1. \A token : can_commit_planning_work(versions', token) = can_commit_planning_work(versions, token)
  BY Zenon DEF can_commit_planning_work, IsActive
<1>2. OneAttempt'
  BY Zenon DEF WorkInv, OneAttempt, work, IsRunning, HasTrip, IsActive
<1>3. SupersededWorkIsStopped'
  BY Zenon, <1>1 DEF WorkInv, SupersededWorkIsStopped, work
<1>4. OwedReplanIsBacked'
  BY Zenon, <1>1 DEF WorkInv, OwedReplanIsBacked, HasPending, work
<1> QED
  BY Zenon, <1>2, <1>3, <1>4 DEF WorkInv

(* An admitted event that changes the trip state replans it.                *)
LEMMA ChangeIsBacked ==
  ASSUME IInv, WorkInv, NEW v \in Versions, NEW q \in Plans \cup {NoPlan},
         NEW priority \in 0 .. 3, NEW ordinary \in BOOLEAN, NEW queue,
         v.epoch # 0, versions' = v, closing' = closing,
         Replan(SeedOf(v, q, priority, ordinary), Outdated(jobs), queue)
  PROVE  WorkInv'
<1> DEFINE p == SeedOf(v, q, priority, ordinary)
<1>1. p \in Seed /\ p.token = capture_planning_work(v)
  BY Zenon, SeedType
<1>2. p.token.epoch # 0
  BY Zenon, <1>1, TokenType
<1>3. Outdated(jobs) \in SUBSET Job /\ TypeOK
  BY Zenon, OutdatedJobs DEF IInv, TypeOK
<1>4. closing'.op = "none"
  BY Zenon DEF WorkInv, OneAttempt
<1> HIDE DEF p
<1>5. Replan(p, Outdated(jobs), queue)
  BY Zenon DEF p
<1> QED
  BY Zenon, <1>1, <1>2, <1>3, <1>4, <1>5, ReplanIsBacked

(* Durable events.                                                          *)
LEMMA DurableIsBacked ==
  ASSUME IInv, WorkInv, DurableRequest
  PROVE  WorkInv'
<1>1. PICK epoch \in Epochs, seq \in Mutations, revision \in 1 .. MaxU64 :
        \/ \E priority \in {Critical, High} : ApplyMutation(epoch, seq, revision, priority)
        \/ \E q \in Plans : ApplyMirror(epoch, seq, revision, q)
        \/ \E q \in Plans : ApplyDecision(epoch, seq, revision, q)
        \/ RejectDurable(epoch, seq, revision)
  BY Zenon DEF DurableRequest
<1>2. versions \in Versions /\ seq \in Counter /\ plan \in Plans \cup {NoPlan}
  BY Zenon, ConstantTypes DEF IInv, TypeOK
<1>3. ASSUME NEW psv, NEW q \in Plans \cup {NoPlan}, NEW priority \in 0 .. 3,
             preview_durable(versions, epoch, seq, revision, psv) = "accepted",
             CommitDurable(seq, q, priority)
      PROVE  WorkInv'
  <2> DEFINE v == accept_durable(versions, seq)
  <2>1. v \in Versions /\ v.epoch # 0
    BY <1>2, <1>3, DurableAccepted
  <2>2. /\ versions' = v /\ closing' = closing
        /\ Replan(SeedOf(v, q, priority, FALSE), Outdated(jobs), lane)
    BY Zenon, <1>3 DEF CommitDurable, rest
  <2> HIDE DEF v
  <2> QED
    BY Zenon, <2>1, <2>2, ChangeIsBacked
<1>4. CASE \E priority \in {Critical, High} : ApplyMutation(epoch, seq, revision, priority)
  BY <1>2, <1>3, <1>4 DEF ApplyMutation
<1>5. CASE \E q \in Plans : ApplyMirror(epoch, seq, revision, q)
  BY <1>3, <1>5 DEF ApplyMirror
<1>6. CASE \E q \in Plans : ApplyDecision(epoch, seq, revision, q)
  BY <1>3, <1>6 DEF ApplyDecision
<1>7. CASE RejectDurable(epoch, seq, revision)
  <2>1. /\ preview_durable(versions, epoch, seq, revision, Unspecified) = "accepted"
        /\ versions' = resolve_terminal_durable(versions, seq)
        /\ UNCHANGED work /\ closing' = closing
    BY Zenon, <1>7 DEF RejectDurable, rest
  <2>2. /\ versions' \in Versions
        /\ capture_planning_work(versions') = capture_planning_work(versions)
    BY <1>2, <2>1, DurableAccepted
  <2>3. versions'.epoch = versions.epoch
    BY Zenon, <1>2, <2>2, TokenType
  <2> QED
    BY Zenon, <2>1, <2>2, <2>3, SameWork DEF WorkInv, OneAttempt
<1> QED
  BY Zenon, <1>1, <1>4, <1>5, <1>6, <1>7

(* An observation from the lane that finds no attempt starts none, and      *)
(* nothing is owed then.                                                    *)
LEMMA ApplyObservationIsBacked ==
  ASSUME IInv, WorkInv, ApplyObservation
  PROVE  WorkInv'
<1> DEFINE h == Head(lane)
           v == accept_observation(versions, h.obs)
<1>1. h.obs \in Counter
  <2>1. lane \in Seq(Queued) /\ lane # <<>>
    BY Zenon DEF IInv, TypeOK, ApplyObservation
  <2>2. h \in Queued
    BY <2>1
  <2> QED
    BY Zenon, <2>2 DEF Queued
<1>2. closing' = closing /\ closing'.op = "none" /\ plan \in Plans \cup {NoPlan}
  BY DEF ApplyObservation, rest, WorkInv, OneAttempt, IInv, TypeOK
<1>3. CASE Admits(h.epoch) /\ preview_observation(versions, h.epoch, h.obs) = "accepted"
  <2>1. /\ versions' = v
        /\ IF IsRunning \/ HasPending
           THEN Replan(SeedOf(v, plan, Normal, TRUE), Outdated(jobs), Tail(lane))
           ELSE jobs' = Outdated(jobs) /\ UNCHANGED <<planning, pending, owed>>
    BY Zenon, <1>3 DEF ApplyObservation
  <2>2. v \in Versions /\ v.epoch # 0
    <3>1. versions \in Versions
      BY Zenon DEF IInv, TypeOK
    <3> QED
      BY ZenonT(30), <1>1, <1>3, <3>1, ObservationAccepted
  <2> HIDE DEF v
  <2>3. CASE IsRunning \/ HasPending
    <3>1. Normal \in 0 .. 3 /\ TRUE \in BOOLEAN
      OBVIOUS
    <3> QED
      BY Zenon, <1>2, <2>1, <2>2, <2>3, <3>1, ChangeIsBacked
  <2>4. CASE ~IsRunning /\ ~HasPending
    <3>1. jobs = {} /\ owed = FALSE
      <4>1. jobs = {}
        BY Zenon, <2>4 DEF WorkInv, OneAttempt
      <4>2. ~owed
        BY Zenon, <2>4, <4>1 DEF WorkInv, OwedReplanIsBacked
      <4> QED
        BY Zenon, <4>1, <4>2 DEF IInv, TypeOK
    <3>2. jobs' = {} /\ owed' = FALSE
      BY Zenon, <2>1, <2>4, <3>1 DEF Outdated
    <3> QED
      BY Zenon, <1>2, <3>2, StoppedWork
  <2> QED
    BY Zenon, <2>3, <2>4
<1>4. CASE ~(Admits(h.epoch) /\ preview_observation(versions, h.epoch, h.obs) = "accepted")
  <2>1. UNCHANGED <<versions, work>>
    BY Zenon, <1>4 DEF ApplyObservation
  <2> QED
    BY Zenon, <1>2, <2>1, SameWork
<1> QED
  BY Zenon, <1>3, <1>4

(* Observations that reach the lane, deviations and advisories.             *)
LEMMA ObservationIsBacked ==
  ASSUME IInv, WorkInv, ObservationRequest
  PROVE  WorkInv'
<1>1. closing.op = "none" /\ versions \in Versions /\ plan \in Plans \cup {NoPlan}
  BY Zenon DEF WorkInv, OneAttempt, IInv, TypeOK
<1>2. CASE \E obs \in Observations : SubmitObservation(obs)
  BY Zenon, <1>1, <1>2, SameWork DEF SubmitObservation, shard, rest
<1>3. CASE \E epoch \in Epochs, obs \in Observations : ApplyDeviation(epoch, obs)
  <2>1. PICK epoch \in Epochs, obs \in Observations : ApplyDeviation(epoch, obs)
    BY Zenon, <1>3
  <2> DEFINE v == accept_observation(versions, obs)
  <2>2. obs \in Counter /\ High \in 0 .. 3 /\ FALSE \in BOOLEAN
    BY ConstantTypes
  <2>3. /\ preview_observation(versions, epoch, obs) = "accepted"
        /\ versions' = v /\ closing' = closing
        /\ Replan(SeedOf(v, plan, High, FALSE), Outdated(jobs), lane)
    BY Zenon, <2>1 DEF ApplyDeviation, rest
  <2>4. v \in Versions /\ v.epoch # 0
    BY <1>1, <2>2, <2>3, ObservationAccepted
  <2> HIDE DEF v
  <2> QED
    BY Zenon, <1>1, <2>2, <2>3, <2>4, ChangeIsBacked
<1>4. CASE \E epoch \in Epochs, obs \in Observations, refresh \in BOOLEAN :
             ApplyAdvisory(epoch, obs, refresh)
  <2>1. PICK epoch \in Epochs, obs \in Observations, refresh \in BOOLEAN :
               ApplyAdvisory(epoch, obs, refresh)
    BY Zenon, <1>4
  <2>2. /\ obs \in Counter /\ Advisory \in 0 .. 3 /\ FALSE \in BOOLEAN
        /\ jobs \in SUBSET Job /\ TypeOK
    BY ConstantTypes DEF IInv, TypeOK
  <2>3. /\ versions' = accept_advisory(versions, obs) /\ versions.epoch # 0
        /\ closing' = closing
    BY Zenon, <2>1 DEF ApplyAdvisory, Admits, HasTrip, IsActive, rest
  <2>4. /\ versions' \in Versions
        /\ capture_planning_work(versions') = capture_planning_work(versions)
    BY Zenon, <1>1, <2>2, <2>3, AdvisoryAccepted
  <2>5. versions'.epoch = versions.epoch
    BY Zenon, <1>1, <2>4, TokenType
  <2>6. CASE UNCHANGED work
    BY Zenon, <1>1, <2>3, <2>4, <2>5, <2>6, SameWork
  <2>7. CASE Replan(SeedOf(versions, plan, Advisory, FALSE), jobs, lane)
    <3> DEFINE p == SeedOf(versions, plan, Advisory, FALSE)
    <3>1. p \in Seed /\ p.token = capture_planning_work(versions)
      BY Zenon, <1>1, <2>2, SeedType
    <3>2. p.token.epoch # 0
      BY Zenon, <1>1, <2>3, <3>1, TokenType
    <3> HIDE DEF p
    <3>3. Replan(p, jobs, lane)
      BY Zenon, <2>7 DEF p
    <3>4. /\ versions'.epoch # 0 /\ closing'.op = "none"
          /\ p.token = capture_planning_work(versions')
      BY Zenon, <1>1, <2>3, <2>4, <2>5, <3>1
    <3> QED
      BY Zenon, <2>2, <3>1, <3>2, <3>3, <3>4, ReplanIsBacked
  <2> QED
    BY Zenon, <2>1, <2>6, <2>7 DEF ApplyAdvisory
<1> QED
  BY Zenon, <1>2, <1>3, <1>4 DEF ObservationRequest

(* A bootstrap and the end of a stream stop the attempt and owe nothing.    *)
LEMMA ControlIsBacked ==
  ASSUME IInv, WorkInv, ControlRequest
  PROVE  WorkInv'
<1>1. closing.op = "none" /\ versions \in Versions /\ jobs \in SUBSET Job
  BY Zenon DEF WorkInv, OneAttempt, IInv, TypeOK
<1>2. /\ \A j \in jobs : IsRunning /\ j.slot = planning.job /\ HasTrip
      /\ \A j, k \in jobs : j = k
  BY Zenon DEF WorkInv, OneAttempt
<1>3. /\ Stopped(jobs) \in SUBSET Job
      /\ \A j \in Stopped(jobs) : j.stopped = TRUE /\ j.slot = planning.job /\ IsRunning /\ HasTrip
      /\ \A j, k \in Stopped(jobs) : j = k
  <2>1. Stopped(jobs) \in SUBSET Job
    BY Zenon, <1>1, StoppedJobs
  <2>2. /\ \A j \in Stopped(jobs) : j.stopped = TRUE /\ j.slot = planning.job /\ jobs # {}
        /\ \A j, k \in Stopped(jobs) : j = k
    BY Zenon, <1>1, <1>2, StoppedAll
  <2> QED
    BY <1>2, <2>1, <2>2
<1>4. CASE \E epoch \in Epochs, finalized \in Mutations, q \in Plans, stream \in Streams :
             \E revision \in 1 .. finalized : Bootstrap(epoch, revision, finalized, q, stream)
  <2>1. PICK epoch \in Epochs, finalized \in Mutations, q \in Plans, stream \in Streams :
               \E revision \in 1 .. finalized : Bootstrap(epoch, revision, finalized, q, stream)
    BY Zenon, <1>4
  <2>2. /\ versions'.epoch = epoch /\ epoch # 0
        /\ jobs' = Outdated(Stopped(jobs)) /\ owed' = FALSE
        /\ planning' = planning /\ closing' = closing
    <3>1. epoch # 0
      BY Zenon, ConstantTypes
    <3>2. PICK revision \in 1 .. finalized : Bootstrap(epoch, revision, finalized, q, stream)
      BY Zenon, <2>1
    <3> QED
      BY Zenon, <3>1, <3>2 DEF Bootstrap, Bootstrapped
  <2>3. /\ \A j \in Outdated(Stopped(jobs)) :
             \E k \in Stopped(jobs) : j.slot = k.slot /\ j.stopped = k.stopped
        /\ \A j, k \in Outdated(Stopped(jobs)) : j = k
    BY Zenon, <1>3, OutdatedAll
  <2>4. /\ \A j \in jobs' : j.stopped = TRUE /\ j.slot = planning'.job /\ IsRunning
        /\ \A j, k \in jobs' : j = k
    BY Zenon, <1>3, <2>2, <2>3
  <2> QED
    BY Zenon, <1>1, <2>2, <2>4, StoppedWork DEF IsRunning
<1>5. CASE \E stream \in Streams :
             Rebind(versions.revision, versions.finalized, versions.observation, stream)
  BY Zenon, <1>1, <1>5, SameWork DEF Rebind, rest
<1>6. CASE \E epoch \in Epochs, seq \in Mutations : ConfirmFinalized(epoch, seq)
  <2>1. PICK seq \in Mutations :
           /\ versions' = confirm_finalized(versions, seq)
           /\ UNCHANGED work /\ closing' = closing
    BY Zenon, <1>6 DEF ConfirmFinalized, rest
  <2>2. /\ versions' \in Versions
        /\ capture_planning_work(versions') = capture_planning_work(versions)
    BY Zenon, <1>1, <2>1, ConstantTypes, ConfirmationAccepted
  <2>3. versions'.epoch = versions.epoch
    BY Zenon, <1>1, <2>2, TokenType
  <2> QED
    BY Zenon, <1>1, <2>1, <2>2, <2>3, SameWork
<1>7. CASE \E epoch \in Epochs, stream \in Streams : Unbind(epoch, stream)
  <2>1. /\ HasTrip /\ jobs' = Stopped(jobs) /\ owed' = FALSE
        /\ planning' = planning /\ closing' = closing /\ versions' = versions
    BY Zenon, <1>7 DEF Unbind, rest
  <2> QED
    BY Zenon, <1>1, <1>3, <2>1, StoppedWork DEF IsRunning, HasTrip, IsActive
<1> QED
  BY Zenon, <1>4, <1>5, <1>6, <1>7 DEF ControlRequest

(* The one attempt ends: what is pending is started or still owed.          *)
LEMMA FinishIsBacked ==
  ASSUME IInv, WorkInv, Finish
  PROVE  WorkInv'
<1>1. PICK j \in jobs : FinishOrphan(j) \/ FinishStale(j) \/ FinishPlanning(j) \/ FinishFailure(j)
  BY Zenon DEF Finish
<1>2. /\ jobs \ {j} = {} /\ HasTrip /\ closing.op = "none"
      /\ pending \in Seed /\ owed \in BOOLEAN /\ versions \in Versions
  BY Zenon DEF WorkInv, OneAttempt, IInv, TypeOK
<1>3. pending # NoPending => /\ versions.epoch # 0 /\ pending.token.epoch # 0
                             /\ pending.token = capture_planning_work(versions)
  BY Zenon DEF IInv, Fences, PendingIsLatest, HasPending, can_commit_planning_work, IsActive
<1>4. ASSUME NEW owing, pending = NoPending => owing = FALSE,
             dispatch_pending(pending, jobs \ {j}, lane, owing),
             versions' = versions, closing' = closing
      PROVE  WorkInv'
  <2>1. dispatch_pending(pending, {}, lane, owing)
    BY Zenon, <1>2, <1>4
  <2> QED
    BY Zenon, <1>2, <1>3, <1>4, <2>1, DispatchedAlone
<1>5. CASE FinishStale(j)
  <2>1. /\ ~can_commit_planning_work(versions, j.seed.token)
        /\ dispatch_pending(pending, jobs \ {j}, lane, owed)
        /\ versions' = versions /\ closing' = closing
    BY Zenon, <1>5 DEF FinishStale, shard, rest
  <2>2. pending = NoPending => owed = FALSE
    <3>1. \A k \in jobs : ~can_commit_planning_work(versions, k.seed.token)
      BY Zenon, <2>1 DEF WorkInv, OneAttempt
    <3> QED
      BY Zenon, <1>2, <3>1 DEF WorkInv, OwedReplanIsBacked, HasPending
  <2> QED
    BY Zenon, <1>4, <2>1, <2>2
<1>6. CASE FinishPlanning(j) \/ FinishFailure(j)
  <2>1. /\ dispatch_pending(pending, jobs \ {j}, lane, FALSE)
        /\ versions' = versions /\ closing' = closing
    BY Zenon, <1>6 DEF FinishPlanning, FinishFailure, shard, rest
  <2> QED
    BY Zenon, <1>4, <2>1
<1> QED
  BY Zenon, <1>1, <1>2, <1>5, <1>6 DEF FinishOrphan

(* The work stays accounted for as long as no trip is deactivated.          *)
LEMMA WorkNext ==
  ASSUME ~Deactivations, IInv, WorkInv, [Next]_vars
  PROVE  WorkInv'
<1>1. closing.op = "none" /\ versions \in Versions
  BY Zenon DEF WorkInv, OneAttempt, IInv, TypeOK
<1>2. CASE DeactivationRequest \/ FinishDeactivation \/ AbortDeactivation
  BY Zenon, <1>1, <1>2 DEF DeactivationRequest, FinishDeactivation, AbortDeactivation
<1>3. CASE stop_accepting \/ UNCHANGED vars
  <2>1. UNCHANGED <<versions, work, closing>>
    BY Zenon, <1>3 DEF stop_accepting, vars, shard, rest
  <2> QED
    BY Zenon, <1>1, <2>1, SameWork
<1> QED
  BY Zenon, <1>2, <1>3, DurableIsBacked, ObservationIsBacked, ApplyObservationIsBacked,
     ControlIsBacked, FinishIsBacked DEF Next

(* A process that holds no trip has no work.                                *)
LEMMA WorkInit == Init => WorkInv
<1>1. NoClosing.op = "none"
  BY Zenon DEF NoClosing
<1> QED
  BY Zenon, <1>1 DEF Init, WorkInv, OneAttempt, SupersededWorkIsStopped, OwedReplanIsBacked

(* Unless a trip is deactivated, all its work is accounted for.             *)
THEOREM WorkInvariance ==
  ASSUME ~Deactivations
  PROVE  Spec => []WorkInv
<1>1. Init => WorkInv
  BY Zenon, WorkInit
<1>2. IInv /\ WorkInv /\ [Next]_vars => WorkInv'
  BY Zenon, WorkNext
<1> QED
  BY <1>1, <1>2, Invariance, PTL DEF Spec

(* Unless a trip is deactivated, an attempt that can no longer commit has   *)
(* been asked to stop: Replan, Bootstrap and Unbind always reach it.        *)
THEOREM SupersededIsStopped ==
  ASSUME ~Deactivations
  PROVE  Spec => []SupersededWorkIsStopped
<1>1. WorkInv => SupersededWorkIsStopped
  BY Zenon DEF WorkInv
<1> QED
  BY <1>1, WorkInvariance, PTL

(* Unless a trip is deactivated, no order of events and completions drops   *)
(* the last attempt while a stream waits for an acknowledged replan.        *)
THEOREM OwedIsBacked ==
  ASSUME ~Deactivations
  PROVE  Spec => []OwedReplanIsBacked
<1>1. WorkInv => OwedReplanIsBacked
  BY Zenon DEF WorkInv
<1> QED
  BY <1>1, WorkInvariance, PTL

-----------------------------------------------------------------------------
(* What a step may do to the urgency of planning work: the action of        *)
(* UrgencyIsRetained.                                                       *)
RetainsUrgency ==
  /\ HasPending /\ pending' # NoPending => pending'.trigger <= pending.trigger
  /\ HasPending /\ pending' = NoPending /\ planning' \notin {planning, NoPlanning}
       => planning'.trigger <= pending.trigger
  /\ IsRunning /\ planning' = planning /\ ~HasPending /\ pending' # NoPending
       => pending'.trigger <= planning.trigger

(* A retained trigger is at least as urgent as either of the two.           *)
LEMMA PreservedUrgency ==
  ASSUME NEW p \in Seed, NEW retained \in Trigger
  PROVE  /\ preserve_higher_priority_trigger(p, retained).trigger \in Trigger
         /\ preserve_higher_priority_trigger(p, retained).trigger <= retained
         /\ preserve_higher_priority_trigger(p, retained).trigger <= p.trigger
<1>1. p.trigger \in Trigger /\ p.trigger \in Int /\ retained \in Int
  BY DEF Seed, Trigger
<1>2. CASE retained < p.trigger
  <2>1. preserve_higher_priority_trigger(p, retained) = [p EXCEPT !.trigger = retained]
    BY Zenon, <1>2 DEF preserve_higher_priority_trigger
  <2>2. [p EXCEPT !.trigger = retained].trigger = retained
    BY Zenon DEF Seed
  <2>3. preserve_higher_priority_trigger(p, retained).trigger = retained
    BY Zenon, <2>1, <2>2
  <2> QED
    BY <1>1, <1>2, <2>3
<1>3. CASE ~(retained < p.trigger)
  <2>1. preserve_higher_priority_trigger(p, retained) = p
    BY Zenon, <1>3 DEF preserve_higher_priority_trigger
  <2> QED
    BY <1>1, <1>3, <2>1
<1> QED
  BY Zenon, <1>2, <1>3

(* An attempt that is started has the trigger of its seed.                  *)
LEMMA StartedUrgency ==
  ASSUME NEW p \in Seed, NEW js, NEW owing, dispatch_planning(p, js, owing)
  PROVE  planning' = NoPlanning \/ planning'.trigger = p.trigger
BY DEF dispatch_planning

(* dispatch_pending of an attempt at least as urgent as the pending one.    *)
LEMMA DispatchedUrgency ==
  ASSUME TypeOK, NEW p \in Seed, NEW js, NEW queue, NEW owing,
         dispatch_pending(p, js, queue, owing),
         HasPending => p.trigger <= pending.trigger, ~HasPending => p = NoPending
  PROVE  RetainsUrgency
<1>1. CASE pending' = p /\ planning' = NoPlanning
  BY Zenon, <1>1 DEF RetainsUrgency
<1>2. CASE pending' = NoPending /\ dispatch_planning(p, js, owing)
  BY Zenon, <1>2, StartedUrgency DEF RetainsUrgency
<1> QED
  BY Zenon, <1>1, <1>2 DEF dispatch_pending

(* The replan of an event.                                                  *)
LEMMA ReplanUrgency ==
  ASSUME TypeOK, NEW p \in Seed, NEW js, NEW queue, Replan(p, js, queue)
  PROVE  RetainsUrgency
<1>1. /\ pending \in Seed /\ pending.trigger \in Trigger /\ planning.trigger \in Trigger
  BY Zenon DEF TypeOK, Seed
<1>2. CASE IsRunning
  <2> DEFINE first == preserve_higher_priority_trigger(p, planning.trigger)
             second == preserve_higher_priority_trigger(first, pending.trigger)
  <2>1. first \in Seed /\ first.trigger <= planning.trigger
    BY Zenon, <1>1, PreservedSeed, PreservedUrgency
  <2>2. second.trigger <= pending.trigger
    BY Zenon, <1>1, <2>1, PreservedUrgency
  <2>3. pending' = (IF HasPending THEN second ELSE first) /\ planning' = planning
    BY Zenon, <1>2 DEF Replan
  <2> HIDE DEF first, second
  <2> QED
    BY Zenon, <2>1, <2>2, <2>3 DEF RetainsUrgency
<1>3. CASE ~IsRunning /\ HasPending
  <2> DEFINE q == preserve_higher_priority_trigger(p, pending.trigger)
  <2>1. q \in Seed /\ q.trigger <= pending.trigger
    BY Zenon, <1>1, PreservedSeed, PreservedUrgency
  <2>2. dispatch_pending(q, js, queue, binding # NoStream)
    BY Zenon, <1>3 DEF Replan
  <2> HIDE DEF q
  <2> QED
    BY Zenon, <1>3, <2>1, <2>2, DispatchedUrgency
<1>4. CASE ~IsRunning /\ ~HasPending
  BY Zenon, <1>4 DEF RetainsUrgency, Replan
<1> QED
  BY Zenon, <1>2, <1>3, <1>4

(* A step that keeps the pending attempt, or drops it without starting one. *)
LEMMA QuietUrgency ==
  ASSUME TypeOK, \/ pending' = pending
                 \/ pending' = NoPending /\ planning' \in {planning, NoPlanning}
  PROVE  RetainsUrgency
<1>1. pending.trigger \in Int
  BY DEF TypeOK, Seed, Trigger
<1> QED
  BY <1>1 DEF RetainsUrgency, HasPending

(* Every request of the backend.                                            *)
LEMMA RequestUrgency ==
  ASSUME IInv, DurableRequest \/ ObservationRequest \/ ApplyObservation \/ ControlRequest
  PROVE  RetainsUrgency
<1>1. versions \in Versions /\ plan \in Plans \cup {NoPlan} /\ TypeOK
  BY Zenon DEF IInv, TypeOK
<1>2. ASSUME NEW v \in Versions, NEW q \in Plans \cup {NoPlan}, NEW priority \in 0 .. 3,
             NEW ordinary \in BOOLEAN, NEW js, NEW queue,
             Replan(SeedOf(v, q, priority, ordinary), js, queue)
      PROVE  RetainsUrgency
  <2>1. SeedOf(v, q, priority, ordinary) \in Seed
    BY Zenon, SeedType
  <2> QED
    BY Zenon, <1>1, <1>2, <2>1, ReplanUrgency
<1>3. CASE DurableRequest
  <2>1. PICK epoch \in Epochs, seq \in Mutations, revision \in 1 .. MaxU64 :
          \/ \E priority \in {Critical, High} : ApplyMutation(epoch, seq, revision, priority)
          \/ \E q \in Plans : ApplyMirror(epoch, seq, revision, q)
          \/ \E q \in Plans : ApplyDecision(epoch, seq, revision, q)
          \/ RejectDurable(epoch, seq, revision)
    BY Zenon, <1>3 DEF DurableRequest
  <2>2. ASSUME NEW psv, NEW q \in Plans \cup {NoPlan}, NEW priority \in 0 .. 3,
               preview_durable(versions, epoch, seq, revision, psv) = "accepted",
               CommitDurable(seq, q, priority)
        PROVE  RetainsUrgency
    <3>1. accept_durable(versions, seq) \in Versions
      <4>1. seq \in Counter
        BY Zenon, ConstantTypes
      <4>2. preview_durable(versions, epoch, seq, revision, psv) = "accepted"
        BY Zenon, <2>2
      <4> QED
        BY <1>1, <4>1, <4>2, DurableAccepted
    <3>2. Replan(SeedOf(accept_durable(versions, seq), q, priority, FALSE), Outdated(jobs), lane)
      BY Zenon, <2>2 DEF CommitDurable
    <3> QED
      BY Zenon, <1>2, <3>1, <3>2
  <2>3. CASE \E priority \in {Critical, High} : ApplyMutation(epoch, seq, revision, priority)
    BY <1>1, <2>2, <2>3 DEF ApplyMutation
  <2>4. CASE \E q \in Plans : ApplyMirror(epoch, seq, revision, q)
    BY <2>2, <2>4 DEF ApplyMirror
  <2>5. CASE \E q \in Plans : ApplyDecision(epoch, seq, revision, q)
    BY <2>2, <2>5 DEF ApplyDecision
  <2>6. CASE RejectDurable(epoch, seq, revision)
    BY Zenon, <1>1, <2>6, QuietUrgency DEF RejectDurable, work
  <2> QED
    BY Zenon, <2>1, <2>3, <2>4, <2>5, <2>6
<1>4. CASE \E obs \in Observations : SubmitObservation(obs)
  BY Zenon, <1>1, <1>4, QuietUrgency DEF SubmitObservation, work
<1>5. CASE \E epoch \in Epochs, obs \in Observations : ApplyDeviation(epoch, obs)
  <2>1. PICK epoch \in Epochs, obs \in Observations : ApplyDeviation(epoch, obs)
    BY Zenon, <1>5
  <2>2. /\ preview_observation(versions, epoch, obs) = "accepted"
        /\ Replan(SeedOf(accept_observation(versions, obs), plan, High, FALSE),
                  Outdated(jobs), lane)
    BY Zenon, <2>1 DEF ApplyDeviation
  <2>3. accept_observation(versions, obs) \in Versions /\ High \in 0 .. 3
    BY <1>1, <2>2, ConstantTypes, ObservationAccepted
  <2> QED
    BY Zenon, <1>1, <1>2, <2>2, <2>3
<1>6. CASE \E epoch \in Epochs, obs \in Observations, refresh \in BOOLEAN :
             ApplyAdvisory(epoch, obs, refresh)
  <2>1. \/ UNCHANGED work
        \/ Replan(SeedOf(versions, plan, Advisory, FALSE), jobs, lane)
    BY Zenon, <1>6 DEF ApplyAdvisory
  <2>2. Advisory \in 0 .. 3
    OBVIOUS
  <2>3. CASE UNCHANGED work
    BY Zenon, <1>1, <2>3, QuietUrgency DEF work
  <2> QED
    BY Zenon, <1>1, <1>2, <2>1, <2>2, <2>3
<1>7. CASE ApplyObservation
  <2> DEFINE h == Head(lane)
             v == accept_observation(versions, h.obs)
  <2>1. \/ UNCHANGED pending
        \/ /\ preview_observation(versions, h.epoch, h.obs) = "accepted"
           /\ Replan(SeedOf(v, plan, Normal, TRUE), Outdated(jobs), Tail(lane))
    BY Zenon, <1>7 DEF ApplyObservation, work
  <2>2. CASE UNCHANGED pending
    BY Zenon, <1>1, <2>2, QuietUrgency
  <2>3. CASE /\ preview_observation(versions, h.epoch, h.obs) = "accepted"
             /\ Replan(SeedOf(v, plan, Normal, TRUE), Outdated(jobs), Tail(lane))
    <3>1. h.obs \in Counter
      <4>1. lane \in Seq(Queued) /\ lane # <<>>
        BY Zenon, <1>7 DEF IInv, TypeOK, ApplyObservation
      <4>2. h \in Queued
        BY <4>1
      <4> QED
        BY Zenon, <4>2 DEF Queued
    <3>2. v \in Versions
      BY Zenon, <1>1, <2>3, <3>1, ObservationAccepted
    <3>3. Normal \in 0 .. 3
      OBVIOUS
    <3> HIDE DEF v
    <3> QED
      BY Zenon, <1>1, <1>2, <2>3, <3>2, <3>3
  <2> QED
    BY Zenon, <2>1, <2>2, <2>3
<1>8. CASE ControlRequest
  <2>1. planning' = planning /\ pending' \in {pending, NoPending}
    BY Zenon, <1>8 DEF ControlRequest, Bootstrap, Rebind, ConfirmFinalized, Unbind, work
  <2> QED
    BY Zenon, <1>1, <2>1, QuietUrgency
<1> QED
  BY Zenon, <1>3, <1>4, <1>5, <1>6, <1>7, <1>8 DEF ObservationRequest

(* Every step.                                                              *)
LEMMA UrgencyNext == IInv /\ [Next]_vars => RetainsUrgency
<1> SUFFICES ASSUME IInv, [Next]_vars PROVE RetainsUrgency
  BY Zenon
<1>1. TypeOK /\ pending \in Seed
  BY DEF IInv, TypeOK
<1>2. CASE DeactivationRequest \/ FinishDeactivation \/ AbortDeactivation
  <2>1. \/ pending' = pending
        \/ pending' = NoPending /\ planning' \in {planning, NoPlanning}
    BY <1>2 DEF DeactivationRequest, FinishDeactivation, AbortDeactivation, Deactivate, Erase,
                DeactivateWithSnapshot, work
  <2> QED
    BY Zenon, <1>1, <2>1, QuietUrgency
<1>3. CASE Finish
  <2>1. pending' = pending \/ \E js, owing : dispatch_pending(pending, js, lane, owing)
    BY Zenon, <1>3 DEF Finish, FinishOrphan, FinishStale, FinishPlanning, FinishFailure
  <2>2. HasPending => pending.trigger <= pending.trigger
    BY <1>1 DEF Seed, Trigger
  <2>3. ~HasPending => pending = NoPending
    BY Zenon DEF HasPending
  <2> QED
    BY Zenon, <1>1, <2>1, <2>2, <2>3, QuietUrgency, DispatchedUrgency
<1>4. CASE stop_accepting \/ UNCHANGED vars
  BY Zenon, <1>1, <1>4, QuietUrgency DEF stop_accepting, vars, work
<1> QED
  BY Zenon, <1>2, <1>3, <1>4, RequestUrgency DEF Next

(* Coalescing never demotes a replan: what replaces or starts an attempt is *)
(* at least as urgent as every attempt it stands for.                       *)
THEOREM UrgencySafety == Spec => UrgencyIsRetained
<1>1. IInv /\ [Next]_vars => RetainsUrgency
  BY Zenon, UrgencyNext
<1>2. [][RetainsUrgency]_vars => UrgencyIsRetained
  BY Zenon DEF RetainsUrgency, UrgencyIsRetained
<1> QED
  BY <1>1, <1>2, Invariance, PTL DEF Spec

-----------------------------------------------------------------------------
(* A deactivation that has taken its final snapshot and not yet erased the  *)
(* trip keeps the trip as the snapshot has it: deactivation_pending refuses *)
(* every request that would change it, and a bootstrap takes a new epoch.   *)
ClosingInv ==
  closing.op # "none" =>
    /\ closing.epoch <= issued
    /\ HasTrip /\ closing.epoch = versions.epoch =>
         /\ deactivation_pending
         /\ versions.revision = closing.revision
         /\ versions.accepted = closing.covered

(* A request that is admitted, and one that changes neither revision nor    *)
(* accepted sequence, respects the snapshot.                                *)
LEMMA ClosingRespected ==
  ASSUME ClosingInv, UNCHANGED <<closing, deactivation_pending, issued>>,
         versions'.epoch = versions.epoch,
         \/ ~deactivation_pending
         \/ versions'.revision = versions.revision /\ versions'.accepted = versions.accepted
  PROVE  ClosingInv'
BY Zenon DEF ClosingInv, HasTrip, IsActive

(* The requests of the backend.                                             *)
LEMMA ClosingRequest ==
  ASSUME IInv, ClosingInv,
         DurableRequest \/ ObservationRequest \/ ApplyObservation \/ ControlRequest
  PROVE  ClosingInv'
<1>1. versions \in Versions
  BY Zenon DEF IInv, TypeOK
<1>2. CASE DurableRequest
  <2>1. PICK epoch \in Epochs, seq \in Mutations, revision \in 1 .. MaxU64 :
          \/ \E priority \in {Critical, High} : ApplyMutation(epoch, seq, revision, priority)
          \/ \E q \in Plans : ApplyMirror(epoch, seq, revision, q)
          \/ \E q \in Plans : ApplyDecision(epoch, seq, revision, q)
          \/ RejectDurable(epoch, seq, revision)
    BY Zenon, <1>2 DEF DurableRequest
  <2>2. /\ ~deactivation_pending /\ UNCHANGED <<closing, deactivation_pending, issued>>
        /\ versions' \in {accept_durable(versions, seq), resolve_terminal_durable(versions, seq)}
    BY Zenon, <2>1
       DEF ApplyMutation, ApplyMirror, ApplyDecision, RejectDurable, CommitDurable, Admits, rest
  <2>3. /\ accept_durable(versions, seq).epoch = versions.epoch
        /\ resolve_terminal_durable(versions, seq).epoch = versions.epoch
    BY Zenon, <1>1 DEF accept_durable, resolve_terminal_durable, Versions
  <2> QED
    BY Zenon, <2>2, <2>3, ClosingRespected
<1>3. CASE \E obs \in Observations : SubmitObservation(obs)
  BY Zenon, <1>3, ClosingRespected DEF SubmitObservation, shard, rest
<1>4. ASSUME NEW obs
      PROVE  /\ accept_observation(versions, obs).epoch = versions.epoch
             /\ accept_observation(versions, obs).revision = versions.revision
             /\ accept_observation(versions, obs).accepted = versions.accepted
             /\ accept_advisory(versions, obs).epoch = versions.epoch
             /\ accept_advisory(versions, obs).revision = versions.revision
             /\ accept_advisory(versions, obs).accepted = versions.accepted
  BY Zenon, <1>1 DEF accept_observation, accept_advisory, Versions
<1>5. CASE \E epoch \in Epochs, obs \in Observations : ApplyDeviation(epoch, obs)
  BY Zenon, <1>4, <1>5, ClosingRespected DEF ApplyDeviation, rest
<1>6. CASE \E epoch \in Epochs, obs \in Observations, refresh \in BOOLEAN :
             ApplyAdvisory(epoch, obs, refresh)
  BY Zenon, <1>4, <1>6, ClosingRespected DEF ApplyAdvisory, rest
<1>7. CASE ApplyObservation
  <2>1. /\ UNCHANGED <<closing, deactivation_pending, issued>>
        /\ \/ versions' = versions
           \/ versions' = accept_observation(versions, Head(lane).obs)
    BY Zenon, <1>7 DEF ApplyObservation, rest
  <2> QED
    BY Zenon, <1>4, <2>1, ClosingRespected
<1>8. CASE ControlRequest
  <2>1. ASSUME NEW epoch \in Epochs, NEW finalized \in Mutations, NEW q \in Plans,
               NEW stream \in Streams, NEW revision \in 1 .. finalized,
               Bootstrap(epoch, revision, finalized, q, stream)
        PROVE  ClosingInv'
    <3>1. /\ versions'.epoch = epoch /\ epoch > issued /\ issued' = epoch
          /\ closing' = closing
      BY Zenon, <2>1 DEF Bootstrap, Bootstrapped, FreshEpoch
    <3>2. closing.epoch \in Int /\ issued \in Int /\ epoch \in Int
      <4>1. issued \in Counter /\ closing \in [op : {"none", "erase", "abort"},
                     epoch : Counter, revision : Counter, covered : Counter]
        BY Zenon DEF IInv, TypeOK
      <4>2. epoch \in Counter
        BY Zenon, ConstantTypes
      <4> QED
        BY <4>1, <4>2, MaxU64Assumption DEF Counter
    <3> QED
      BY <3>1, <3>2 DEF ClosingInv
  <2>2. CASE \E stream \in Streams :
               Rebind(versions.revision, versions.finalized, versions.observation, stream)
    BY Zenon, <2>2, ClosingRespected DEF Rebind, rest
  <2>3. CASE \E epoch \in Epochs, seq \in Mutations : ConfirmFinalized(epoch, seq)
    <3>1. PICK seq \in Mutations :
             /\ versions' = confirm_finalized(versions, seq)
             /\ UNCHANGED <<closing, deactivation_pending, issued>>
      BY Zenon, <2>3 DEF ConfirmFinalized, rest
    <3>2. /\ confirm_finalized(versions, seq).epoch = versions.epoch
          /\ confirm_finalized(versions, seq).revision = versions.revision
          /\ confirm_finalized(versions, seq).accepted = versions.accepted
      BY Zenon, <1>1 DEF confirm_finalized, Versions
    <3> QED
      BY Zenon, <3>1, <3>2, ClosingRespected
  <2>4. CASE \E epoch \in Epochs, stream \in Streams : Unbind(epoch, stream)
    BY Zenon, <2>4, ClosingRespected DEF Unbind, rest
  <2> QED
    BY Zenon, <1>8, <2>1, <2>2, <2>3, <2>4 DEF ControlRequest
<1> QED
  BY Zenon, <1>2, <1>3, <1>5, <1>6, <1>7, <1>8 DEF ObservationRequest

(* The tasks of a deactivation themselves, and the rest of the steps.       *)
LEMMA ClosingNext == IInv /\ ClosingInv /\ [Next]_vars => ClosingInv'
<1> SUFFICES ASSUME IInv, ClosingInv, [Next]_vars PROVE ClosingInv'
  BY Zenon
<1>1. NoClosing.op = "none" /\ Inactive.epoch = 0
  BY Zenon DEF NoClosing, Inactive
<1>2. CASE \E epoch \in Epochs : Deactivate(epoch)
  <2>1. versions'.epoch = 0 /\ closing' = closing /\ issued' = issued
    BY Zenon, <1>1, <1>2 DEF Deactivate, Erase, rest
  <2> QED
    BY Zenon, <2>1 DEF ClosingInv, HasTrip, IsActive
<1>3. CASE \E epoch \in Epochs, op \in {"erase", "abort", "none"} : DeactivateWithSnapshot(epoch, op)
  <2>1. PICK epoch \in Epochs, op \in {"erase", "abort", "none"} : DeactivateWithSnapshot(epoch, op)
    BY Zenon, <1>3
  <2>2. /\ epoch = versions.epoch /\ deactivation_pending' = TRUE
        /\ versions' = versions /\ issued' = issued
    BY Zenon, <2>1 DEF DeactivateWithSnapshot
  <2>3. \/ closing' = NoClosing
        \/ closing' = [op |-> op, epoch |-> epoch, revision |-> versions.revision,
                       covered |-> versions.accepted]
    BY Zenon, <2>1 DEF DeactivateWithSnapshot
  <2>4. \/ closing'.op = "none"
        \/ /\ closing'.epoch = epoch /\ closing'.revision = versions.revision
           /\ closing'.covered = versions.accepted
    BY <1>1, <2>3
  <2>5. versions.epoch <= issued
    BY Zenon DEF IInv, Fences, WorkIsFenced
  <2> QED
    BY Zenon, <2>2, <2>4, <2>5 DEF ClosingInv
<1>4. CASE FinishDeactivation \/ AbortDeactivation
  BY Zenon, <1>1, <1>4 DEF FinishDeactivation, AbortDeactivation, ClosingInv
<1>5. CASE Finish
  <2>1. UNCHANGED <<versions, deactivation_pending, closing, issued>>
    BY Zenon, <1>5 DEF Finish, FinishOrphan, FinishStale, FinishPlanning, FinishFailure, shard, rest
  <2> QED
    BY Zenon, <2>1, ClosingRespected
<1>6. CASE stop_accepting \/ UNCHANGED vars
  BY Zenon, <1>6, ClosingRespected DEF stop_accepting, vars, shard, rest
<1> QED
  BY Zenon, <1>2, <1>3, <1>4, <1>5, <1>6, ClosingRequest DEF Next, DeactivationRequest

(* What a step that erases a trip after its final snapshot must find: the   *)
(* action of FinalSnapshotCoversTrip.                                       *)
ErasesCovered ==
  (closing.op = "erase" /\ FinishDeactivation /\ HasTrip /\ versions' = Inactive)
    => versions.revision = closing.revision /\ versions.accepted = closing.covered

(* An erasure is of the trip whose snapshot was taken.                      *)
LEMMA ErasureIsCovered == ClosingInv => ErasesCovered
<1> SUFFICES ASSUME ClosingInv, closing.op = "erase", FinishDeactivation, HasTrip,
                    versions' = Inactive
             PROVE  versions.revision = closing.revision /\ versions.accepted = closing.covered
  BY Zenon DEF ErasesCovered
<1>1. versions' # versions
  <2>1. Inactive.epoch = 0
    BY Zenon DEF Inactive
  <2> QED
    BY Zenon, <2>1 DEF HasTrip, IsActive
<1>2. closing.epoch = versions.epoch
  BY Zenon, <1>1 DEF FinishDeactivation, shard
<1> QED
  BY Zenon, <1>2 DEF ClosingInv

(* The final snapshot of a deactivation covers the trip that is erased: no  *)
(* request, bootstrap, completion or second deactivation comes between its  *)
(* two tasks and changes what the snapshot has.                             *)
THEOREM FinalSnapshotIsComplete == Spec => FinalSnapshotCoversTrip
<1>1. Init => ClosingInv
  <2>1. NoClosing.op = "none"
    BY Zenon DEF NoClosing
  <2> QED
    BY Zenon, <2>1 DEF Init, ClosingInv
<1>2. IInv /\ ClosingInv /\ [Next]_vars => ClosingInv'
  BY Zenon, ClosingNext
<1>3. ClosingInv => ErasesCovered
  BY Zenon, ErasureIsCovered
<1>4. [][ErasesCovered]_vars => FinalSnapshotCoversTrip
  BY Zenon DEF ErasesCovered, FinalSnapshotCoversTrip
<1> QED
  BY <1>1, <1>2, <1>3, <1>4, Invariance, PTL DEF Spec
=============================================================================
