------------------------ MODULE TripRuntimeVersions ------------------------
(***************************************************************************)
(* The version record a trip's owner shard keeps for the trip, and the     *)
(* operations on it: class TripRuntimeVersions of the planner runtime.     *)
(* Every operator takes the record, the mutating ones return the record    *)
(* that replaces it.  A previewing operator returns a status; the status   *)
(* of a stale request is its stale reason.                                 *)
(***************************************************************************)
EXTENDS Integers

CONSTANT MaxU64   \* the largest value of a 64-bit counter (2^64 - 1 in the code)

ASSUME MaxU64Assumption == MaxU64 \in Nat /\ MaxU64 > 0

Counter == 0 .. MaxU64

(* An epoch of 0 is a record that was never bootstrapped (active_ = false). *)
Versions ==
  [epoch : Counter, revision : Counter, psv : Counter, generation : Counter,
   accepted : Counter, finalized : Counter, observation : Counter]

Inactive ==
  [epoch |-> 0, revision |-> 0, psv |-> 0, generation |-> 0,
   accepted |-> 0, finalized |-> 0, observation |-> 0]

IsActive(v) == v.epoch # 0

can_increment(n) == n # MaxU64

(* An absent expected_planner_state_version. *)
Unspecified == -1

PsvMatches(v, expectedPsv) == expectedPsv \in {Unspecified, v.psv}

-----------------------------------------------------------------------------
Bootstrapped(epoch, revision, finalized, observation) ==
  [epoch |-> epoch, revision |-> revision, psv |-> 0, generation |-> 0,
   accepted |-> finalized, finalized |-> finalized, observation |-> observation]

bootstrap_status(v, epoch, revision, finalized, observation) ==
  IF epoch = 0 \/ revision = 0 THEN "invalid_argument"
  ELSE IF IsActive(v) /\ epoch < v.epoch THEN "stale_epoch"
  ELSE IF IsActive(v) /\ epoch = v.epoch
  THEN IF /\ revision = v.revision
          /\ finalized = v.finalized
          /\ finalized = v.accepted
          /\ observation = v.observation
       THEN "duplicate" ELSE "invalid_argument"
  ELSE "accepted"

validate_epoch(v, epoch) ==
  IF ~IsActive(v) THEN "inactive"
  ELSE IF epoch # v.epoch THEN "stale_epoch"
  ELSE "accepted"

(* The checks preview_durable and resolve_terminal_durable share. *)
durable_order(v, epoch, seq, revision, expectedPsv) ==
  IF validate_epoch(v, epoch) # "accepted" THEN validate_epoch(v, epoch)
  ELSE IF seq <= v.accepted THEN "duplicate"
  ELSE IF seq # v.accepted + 1 THEN "stale_mutation_sequence"
  ELSE IF revision # v.revision THEN "stale_trip_revision"
  ELSE IF ~PsvMatches(v, expectedPsv) THEN "stale_planner_state_version"
  ELSE "accepted"

preview_durable(v, epoch, seq, revision, expectedPsv) ==
  LET order == durable_order(v, epoch, seq, revision, expectedPsv)
  IN  IF order = "accepted" /\ ~(/\ can_increment(v.psv)
                                 /\ can_increment(v.generation)
                                 /\ can_increment(v.revision))
      THEN "invalid_argument" ELSE order

(* Every durable event the coordinator admits changes the planning input    *)
(* and advances the trip revision, so accept_durable's flags are true.      *)
accept_durable(v, seq) ==
  [v EXCEPT !.accepted = seq, !.psv = @ + 1, !.generation = @ + 1, !.revision = @ + 1]

resolve_terminal_durable(v, seq) == [v EXCEPT !.accepted = seq]

(* Mutant: the counters are not checked before they are incremented.        *)
preview_observation_unchecked(v, epoch, obs) ==
  IF validate_epoch(v, epoch) # "accepted" THEN validate_epoch(v, epoch)
  ELSE IF obs <= v.observation THEN "stale_observation_sequence"
  ELSE "accepted"

preview_observation(v, epoch, obs) ==
  IF validate_epoch(v, epoch) # "accepted" THEN validate_epoch(v, epoch)
  ELSE IF obs <= v.observation THEN "stale_observation_sequence"
  ELSE IF ~(can_increment(v.psv) /\ can_increment(v.generation)) THEN "invalid_argument"
  ELSE "accepted"

(* Mutant: the planner state version does not count observations.           *)
accept_observation_unversioned(v, obs) ==
  [v EXCEPT !.observation = obs]

accept_observation(v, obs) ==
  [v EXCEPT !.observation = obs, !.psv = @ + 1, !.generation = @ + 1]

preview_advisory(v, epoch, obs) ==
  IF validate_epoch(v, epoch) # "accepted" THEN validate_epoch(v, epoch)
  ELSE IF obs <= v.observation THEN "stale_observation_sequence"
  ELSE "accepted"

accept_advisory(v, obs) == [v EXCEPT !.observation = obs]

confirm_finalized_status(v, epoch, finalized) ==
  IF validate_epoch(v, epoch) # "accepted" THEN validate_epoch(v, epoch)
  ELSE IF finalized <= v.finalized THEN "duplicate"
  ELSE IF finalized > v.accepted THEN "invalid_argument"
  ELSE "accepted"

confirm_finalized(v, finalized) == [v EXCEPT !.finalized = finalized]

-----------------------------------------------------------------------------
PlanningWorkToken == [epoch : Counter, psv : Counter, generation : Counter]

capture_planning_work(v) ==
  [epoch |-> v.epoch, psv |-> v.psv, generation |-> v.generation]

(* Mutants: the token is compared without its versions, or its epoch.       *)
can_commit_by_epoch(v, token) == IsActive(v) /\ token.epoch = v.epoch

can_commit_in_any_epoch(v, token) ==
  IsActive(v) /\ token.psv = v.psv /\ token.generation = v.generation

can_commit_planning_work(v, token) ==
  /\ IsActive(v)
  /\ token.epoch # 0
  /\ token = capture_planning_work(v)

snapshot_ready(v) == IsActive(v) /\ v.accepted = v.finalized

=============================================================================
