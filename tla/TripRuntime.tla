----------------------------- MODULE TripRuntime -----------------------------
(***************************************************************************)
(* One trip inside the planner process: the ActiveTrip its owner shard     *)
(* keeps, the requests the shard executes for it, and the planning work    *)
(* that runs on the provider and planner pools and comes back to the shard *)
(* as a completion (ConcurrentTripRuntime).                                *)
(*                                                                         *)
(* The shard thread runs one task at a time, so a request is one step.  A  *)
(* request that is answered with a rejection changes nothing and is not a  *)
(* step.  Completions are taken before queued requests, so posting one and *)
(* running it is one step as well.  The Normal lane is a variable because  *)
(* dispatch_pending reads its length; requests of the other lanes may run  *)
(* in any order, which covers every order the lanes allow.                 *)
(*                                                                         *)
(* Other trips appear as the chance that a shared resource (a completion   *)
(* slot, the provider queue) has no room.                                  *)
(***************************************************************************)
EXTENDS TripRuntimeVersions, Sequences, FiniteSets

CONSTANTS
  Epochs,         \* runtime epochs the backend may send
  Mutations,      \* mutation sequences it may send
  Observations,   \* observation sequences it may send
  Plans,          \* ids of current plans
  Streams,        \* stream bindings
  Slots,          \* completion reservations of the shard this trip can hold
  LaneCapacity,   \* requests of this trip the Normal lane holds
  Deactivations   \* whether the backend sends DeactivateTrip

ASSUME TripRuntimeAssumption ==
  /\ Epochs \subseteq 1 .. MaxU64
  /\ Mutations \subseteq 1 .. MaxU64
  /\ Observations \subseteq 1 .. MaxU64
  /\ "none" \notin Slots
  /\ LaneCapacity \in Nat
  /\ Deactivations \in BOOLEAN

VARIABLES
  versions,     \* TripRuntimeVersions; Inactive when the shard has no such trip
  plan,         \* state.current_plan.plan_id
  proposal,     \* state.active_proposal
  binding,      \* stream_binding
  deactivation_pending,
  planning,     \* planning_running, planning_stop, planning_trigger
  pending,      \* the one replacement attempt
  jobs,         \* planning work on the provider or planner pool
  lane,         \* queued ordinary observations of this trip
  closing,      \* the second task of a DeactivateTrip with a final snapshot
  accepting,
  issued,       \* highest epoch ever bootstrapped
  sent,         \* highest observation sequence the backend used in this epoch
  owed          \* an acknowledged replan has not been answered on the stream

shard == <<versions, plan, proposal, binding, deactivation_pending>>
work  == <<planning, pending, jobs, owed>>
rest  == <<closing, accepting, issued>>
vars  == <<shard, work, lane, sent, rest>>

NoPlan     == "no plan"
NoStream   == "no stream"
NoProposal == [epoch |-> 0, psv |-> 0, base |-> NoPlan, current |-> FALSE]
NoPlanning == [job |-> "none", trigger |-> 3]
NoClosing  == [op |-> "none", epoch |-> 0, revision |-> 0, covered |-> 0]

(* EventPriority.  A trigger is known by the priority of its event.          *)
Critical == 0
High     == 1
Normal   == 2
Advisory == 3
Trigger  == Critical .. Advisory

(* "current" is a history variable: the trip state has not changed since    *)
(* the seed was captured.                                                   *)
Seed == [token : PlanningWorkToken, base : Plans \cup {NoPlan}, trigger : Trigger,
         ordinary : BOOLEAN, current : BOOLEAN]

NoPending == [token |-> [epoch |-> 0, psv |-> 0, generation |-> 0], base |-> NoPlan,
              trigger |-> NoPlanning.trigger, ordinary |-> FALSE, current |-> FALSE]

Job == [slot : Slots, seed : Seed, stopped : BOOLEAN]

Queued == [epoch : Counter, obs : Counter]

IsRunning  == planning # NoPlanning
HasPending == pending # NoPending
HasTrip    == IsActive(versions)

TypeOK ==
  /\ versions \in Versions
  /\ plan \in Plans \cup {NoPlan}
  /\ proposal \in [epoch : Counter, psv : Counter, base : Plans \cup {NoPlan},
                   current : BOOLEAN]
  /\ binding \in Streams \cup {NoStream}
  /\ deactivation_pending \in BOOLEAN
  /\ planning \in [job : Slots \cup {"none"}, trigger : Trigger]
  /\ pending \in Seed
  /\ jobs \subseteq Job
  /\ lane \in Seq(Queued)
  /\ closing \in [op : {"none", "erase", "abort"}, epoch : Counter,
                  revision : Counter, covered : Counter]
  /\ accepting \in BOOLEAN
  /\ issued \in Counter
  /\ sent \in Counter
  /\ owed \in BOOLEAN

Init ==
  /\ versions = Inactive
  /\ plan = NoPlan
  /\ proposal = NoProposal
  /\ binding = NoStream
  /\ deactivation_pending = FALSE
  /\ planning = NoPlanning
  /\ pending = NoPending
  /\ jobs = {}
  /\ lane = <<>>
  /\ closing = NoClosing
  /\ accepting = TRUE
  /\ issued = 0
  /\ sent = 0
  /\ owed = FALSE

-----------------------------------------------------------------------------
(* Mutant: the stop request is forgotten.                                   *)
NeverStopped(js) == js

(* planning_stop->request_stop() on the attempt the trip refers to.         *)
Stopped(js) ==
  {[j EXCEPT !.stopped = @ \/ (j.slot = planning.job)] : j \in js}

(* The trip state has changed: nothing captured before is current.          *)
Outdated(js) == {[j EXCEPT !.seed.current = FALSE] : j \in js}

(* Mutant: the newest event alone explains the attempt.                     *)
preserve_nothing(p, retained) == p

preserve_higher_priority_trigger(p, retained) ==
  IF retained < p.trigger
  THEN [p EXCEPT !.trigger = retained] ELSE p

(* dispatch_planning: take a completion slot and submit to the provider     *)
(* pool, or deliver a failure when either has no room.  owing is whether an *)
(* acknowledged replan is still unanswered if nothing is delivered here.    *)
dispatch_planning(p, js, owing) ==
  \/ \E slot \in Slots :
       /\ \A j \in js : j.slot # slot
       /\ jobs' = js \cup {[slot |-> slot, seed |-> p, stopped |-> FALSE]}
       /\ planning' = [job |-> slot, trigger |-> p.trigger]
       /\ owed' = owing
  \/ /\ jobs' = js
     /\ planning' = NoPlanning
     /\ owed' = FALSE

(* Mutants: a deferred attempt is dropped, or never taken up again.         *)
dispatch_pending_dropping(p, js, queue, owing) ==
  IF p = NoPending \/ ~accepting \/ (p.ordinary /\ queue # <<>>)
  THEN /\ pending' = NoPending
       /\ planning' = NoPlanning
       /\ jobs' = js
       /\ owed' = owing
  ELSE /\ pending' = NoPending
       /\ dispatch_planning(p, js, owing)

dispatch_pending_deferring(p, js, queue, owing) ==
  IF p = NoPending \/ ~accepting \/ p.ordinary
  THEN /\ pending' = p
       /\ planning' = NoPlanning
       /\ jobs' = js
       /\ owed' = owing
  ELSE /\ pending' = NoPending
       /\ dispatch_planning(p, js, owing)

(* dispatch_pending, with queue the Normal lane at that moment.             *)
dispatch_pending(p, js, queue, owing) ==
  IF p = NoPending \/ ~accepting \/ (p.ordinary /\ queue # <<>>)
  THEN /\ pending' = p
       /\ planning' = NoPlanning
       /\ jobs' = js
       /\ owed' = owing
  ELSE /\ pending' = NoPending
       /\ dispatch_planning(p, js, owing)

(* Mutant: the attempt that is already pending is kept instead of replaced. *)
Replan_keeping(p, js, queue) ==
  IF IsRunning
  THEN /\ pending' = IF HasPending THEN pending ELSE p
       /\ jobs' = Stopped(js)
       /\ planning' = planning
       /\ owed' = (binding # NoStream)
  ELSE /\ pending' = NoPending
       /\ dispatch_planning(p, js, binding # NoStream)

(* The tail of try_apply_event for a request that left a seed p.            *)
Replan(p, js, queue) ==
  IF IsRunning
  THEN LET first == preserve_higher_priority_trigger(p, planning.trigger)
       IN  /\ pending' = IF HasPending
                         THEN preserve_higher_priority_trigger(first, pending.trigger)
                         ELSE first
           /\ jobs' = Stopped(js)
           /\ planning' = planning
           /\ owed' = (binding # NoStream)
  ELSE IF HasPending
  THEN dispatch_pending(preserve_higher_priority_trigger(p, pending.trigger),
                        js, queue, binding # NoStream)
  ELSE /\ pending' = NoPending
       /\ dispatch_planning(p, js, binding # NoStream)

(* The seed the coordinator captures from state v and the current plan q.   *)
SeedOf(v, q, priority, ordinary) ==
  [token |-> capture_planning_work(v), base |-> q,
   trigger |-> priority, ordinary |-> ordinary, current |-> TRUE]

(* Mutant: requests are admitted while a deactivation is pending.           *)
AdmitsClosing(epoch) == HasTrip /\ epoch = versions.epoch

Admits(epoch) == HasTrip /\ ~deactivation_pending /\ epoch = versions.epoch
-----------------------------------------------------------------------------
(* What the protocol promises of epochs: every activation has a higher one, *)
(* also of a trip the shard no longer holds.                                *)
FreshEpoch(epoch) == epoch > issued

(* try_bootstrap of a new epoch, which carries no observation.              *)
Bootstrap(epoch, revision, finalized, q, stream) ==
  /\ bootstrap_status(versions, epoch, revision, finalized, 0) = "accepted"
  /\ FreshEpoch(epoch)
  /\ versions' = Bootstrapped(epoch, revision, finalized, 0)
  /\ plan' = q
  /\ proposal' = NoProposal
  /\ binding' = stream
  /\ deactivation_pending' = FALSE
  /\ pending' = NoPending
  /\ jobs' = Outdated(Stopped(jobs))
  /\ issued' = epoch
  /\ sent' = 0
  /\ owed' = FALSE
  /\ UNCHANGED <<planning, lane, closing, accepting>>

(* The same-epoch bootstrap of a reconnecting backend only rebinds.         *)
Rebind(revision, finalized, observation, stream) ==
  /\ HasTrip
  /\ bootstrap_status(versions, versions.epoch, revision, finalized, observation)
       = "duplicate"
  /\ binding' = stream
  /\ UNCHANGED <<versions, plan, proposal, deactivation_pending, work, lane, sent, rest>>

(* An admitted durable event: state, versions, then the replan it causes.   *)
CommitDurable(seq, q, priority) ==
  /\ versions' = accept_durable(versions, seq)
  /\ plan' = q
  /\ proposal' = NoProposal
  /\ Replan(SeedOf(accept_durable(versions, seq), q, priority, FALSE),
            Outdated(jobs), lane)
  /\ UNCHANGED <<binding, deactivation_pending, lane, sent, rest>>

(* A runtime-first mutation of an activity or a travel delay.  Only         *)
(* operating hours of a remaining activity have High priority.              *)
ApplyMutation(epoch, seq, revision, priority) ==
  /\ Admits(epoch)
  /\ preview_durable(versions, epoch, seq, revision, Unspecified) = "accepted"
  /\ CommitDurable(seq, plan, priority)

(* TripEdited and CurrentPlanReplaced, the canonical-first mirrors.         *)
ApplyMirror(epoch, seq, revision, q) ==
  /\ Admits(epoch)
  /\ preview_durable(versions, epoch, seq, revision, Unspecified) = "accepted"
  /\ CommitDurable(seq, q, Critical)

(* A PlanDecision naming the active proposal; q is the plan that results.   *)
ApplyDecision(epoch, seq, revision, q) ==
  /\ Admits(epoch)
  /\ proposal # NoProposal
  /\ proposal.epoch = epoch
  /\ preview_durable(versions, epoch, seq, revision, proposal.psv) = "accepted"
  /\ CommitDurable(seq, q, Critical)

(* A runtime-first command that is expired, does not apply to the state or  *)
(* names another proposal consumes its sequence and changes nothing else.   *)
RejectDurable(epoch, seq, revision) ==
  /\ Admits(epoch)
  /\ preview_durable(versions, epoch, seq, revision, Unspecified) = "accepted"
  /\ versions' = resolve_terminal_durable(versions, seq)
  /\ UNCHANGED <<plan, proposal, binding, deactivation_pending, work, lane, sent, rest>>

(* A location, velocity or heading reaches the Normal lane; the backend     *)
(* sends them in sequence.                                                  *)
SubmitObservation(obs) ==
  /\ accepting
  /\ HasTrip
  /\ obs > sent
  /\ Len(lane) < LaneCapacity
  /\ lane' = Append(lane, [epoch |-> versions.epoch, obs |-> obs])
  /\ sent' = obs
  /\ UNCHANGED <<shard, work, rest>>

(* The shard takes it from the lane.  An ordinary observation starts no     *)
(* attempt of its own: without one running or pending its seed is dropped.  *)
ApplyObservation ==
  /\ lane # <<>>
  /\ lane' = Tail(lane)
  /\ UNCHANGED <<plan, binding, deactivation_pending, sent, rest>>
  /\ LET h == Head(lane)
         v == accept_observation(versions, h.obs)
     IN  IF Admits(h.epoch) /\ preview_observation(versions, h.epoch, h.obs) = "accepted"
         THEN /\ versions' = v
              /\ proposal' = NoProposal
              /\ IF IsRunning \/ HasPending
                 THEN Replan(SeedOf(v, plan, Normal, TRUE), Outdated(jobs), Tail(lane))
                 ELSE jobs' = Outdated(jobs) /\ UNCHANGED <<planning, pending, owed>>
         ELSE UNCHANGED <<versions, proposal, work>>

(* RouteDeviationDetected: an observation with a replan of its own.         *)
ApplyDeviation(epoch, obs) ==
  /\ Admits(epoch)
  /\ preview_observation(versions, epoch, obs) = "accepted"
  /\ versions' = accept_observation(versions, obs)
  /\ proposal' = NoProposal
  /\ Replan(SeedOf(accept_observation(versions, obs), plan, High, FALSE),
            Outdated(jobs), lane)
  /\ sent' = IF obs > sent THEN obs ELSE sent
  /\ UNCHANGED <<plan, binding, deactivation_pending, lane, rest>>

(* AdvisoryUpdate, from the lane that is served when the others are empty.  *)
(* RECOMMENDATION_REFRESH plans the unchanged state when nothing else does. *)
ApplyAdvisory(epoch, obs, refresh) ==
  /\ lane = <<>>
  /\ Admits(epoch)
  /\ preview_advisory(versions, epoch, obs) = "accepted"
  /\ versions' = accept_advisory(versions, obs)
  /\ IF refresh /\ ~IsRunning /\ ~HasPending
     THEN Replan(SeedOf(versions, plan, Advisory, FALSE), jobs, lane)
     ELSE UNCHANGED work
  /\ sent' = IF obs > sent THEN obs ELSE sent
  /\ UNCHANGED <<plan, proposal, binding, deactivation_pending, lane, rest>>

ConfirmFinalized(epoch, seq) ==
  /\ HasTrip
  /\ confirm_finalized_status(versions, epoch, seq) = "accepted"
  /\ versions' = confirm_finalized(versions, seq)
  /\ UNCHANGED <<plan, proposal, binding, deactivation_pending, work, lane, sent, rest>>

-----------------------------------------------------------------------------
(* Mutant: the pending attempt outlives the trip.                           *)
EraseKeepingPending ==
  /\ versions' = Inactive
  /\ plan' = NoPlan
  /\ proposal' = NoProposal
  /\ binding' = NoStream
  /\ deactivation_pending' = FALSE
  /\ planning' = NoPlanning
  /\ jobs' = Outdated(Stopped(jobs))
  /\ owed' = FALSE
  /\ UNCHANGED pending

(* The trip leaves the shard's map; its planning work runs on.              *)
Erase ==
  /\ versions' = Inactive
  /\ plan' = NoPlan
  /\ proposal' = NoProposal
  /\ binding' = NoStream
  /\ deactivation_pending' = FALSE
  /\ planning' = NoPlanning
  /\ pending' = NoPending
  /\ jobs' = Outdated(Stopped(jobs))
  /\ owed' = FALSE

Deactivate(epoch) ==
  /\ HasTrip
  /\ epoch = versions.epoch
  /\ Erase
  /\ UNCHANGED <<lane, sent, rest>>

(* DeactivateTrip with a final snapshot, first task.  The callback then     *)
(* queues the erasing task, or the aborting one when the snapshot is too    *)
(* large or the first submission fails, or nothing when both fail.  The     *)
(* snapshot carries the revision and the sequence it covers.                *)
DeactivateWithSnapshot(epoch, op) ==
  /\ HasTrip
  /\ closing = NoClosing
  /\ epoch = versions.epoch
  /\ snapshot_ready(versions)
  /\ deactivation_pending' = TRUE
  /\ pending' = NoPending
  /\ jobs' = Stopped(jobs)
  /\ owed' = FALSE
  /\ closing' = IF op = "none" THEN NoClosing
                ELSE [op |-> op, epoch |-> epoch, revision |-> versions.revision,
                      covered |-> versions.accepted]
  /\ UNCHANGED <<versions, plan, proposal, binding, planning, lane, sent, accepting, issued>>

FinishDeactivation ==
  /\ closing.op = "erase"
  /\ closing' = NoClosing
  /\ IF HasTrip /\ closing.epoch = versions.epoch
     THEN Erase ELSE UNCHANGED <<shard, work>>
  /\ UNCHANGED <<lane, sent, accepting, issued>>

AbortDeactivation ==
  /\ closing.op = "abort"
  /\ closing' = NoClosing
  /\ deactivation_pending' = (deactivation_pending /\ closing.epoch # versions.epoch)
  /\ UNCHANGED <<versions, plan, proposal, binding, work, lane, sent, accepting, issued>>

(* A stream that ends lets go of the trips it is still bound to.            *)
Unbind(epoch, stream) ==
  /\ HasTrip
  /\ epoch = versions.epoch
  /\ binding = stream
  /\ binding' = NoStream
  /\ pending' = NoPending
  /\ jobs' = Stopped(jobs)
  /\ owed' = FALSE
  /\ UNCHANGED <<versions, plan, proposal, deactivation_pending, planning, lane, sent, rest>>

-----------------------------------------------------------------------------
(* A completion whose trip is gone does nothing.                            *)
FinishOrphan(j) ==
  /\ ~HasTrip
  /\ jobs' = jobs \ {j}
  /\ UNCHANGED <<shard, planning, pending, owed, lane, sent, rest>>

(* A completion the versions have moved past is discarded.                  *)
FinishStale(j) ==
  /\ HasTrip
  /\ ~can_commit_planning_work(versions, j.seed.token)
  /\ dispatch_pending(pending, jobs \ {j}, lane, owed)
  /\ UNCHANGED <<shard, lane, sent, rest>>

(* finish_planning with a proposal: commit_planning_result, then deliver.   *)
FinishPlanning(j) ==
  /\ HasTrip
  /\ can_commit_planning_work(versions, j.seed.token)
  /\ proposal' = IF j.seed.base = plan
                 THEN [epoch |-> j.seed.token.epoch, psv |-> j.seed.token.psv,
                       base |-> j.seed.base, current |-> j.seed.current]
                 ELSE proposal
  /\ dispatch_pending(pending, jobs \ {j}, lane, FALSE)
  /\ UNCHANGED <<versions, plan, binding, deactivation_pending, lane, sent, rest>>

(* finish_failure, and finish_planning without a usable proposal.           *)
FinishFailure(j) ==
  /\ HasTrip
  /\ can_commit_planning_work(versions, j.seed.token)
  /\ dispatch_pending(pending, jobs \ {j}, lane, FALSE)
  /\ UNCHANGED <<shard, lane, sent, rest>>

stop_accepting ==
  /\ accepting
  /\ accepting' = FALSE
  /\ UNCHANGED <<shard, work, lane, sent, closing, issued>>

-----------------------------------------------------------------------------
DurableRequest ==
  \E epoch \in Epochs, seq \in Mutations, revision \in 1 .. MaxU64 :
    \/ \E priority \in {Critical, High} : ApplyMutation(epoch, seq, revision, priority)
    \/ \E q \in Plans : ApplyMirror(epoch, seq, revision, q)
    \/ \E q \in Plans : ApplyDecision(epoch, seq, revision, q)
    \/ RejectDurable(epoch, seq, revision)

ObservationRequest ==
  \/ \E obs \in Observations : SubmitObservation(obs)
  \/ \E epoch \in Epochs, obs \in Observations :
       \/ ApplyDeviation(epoch, obs)
       \/ \E refresh \in BOOLEAN : ApplyAdvisory(epoch, obs, refresh)

ControlRequest ==
  \/ \E epoch \in Epochs, finalized \in Mutations, q \in Plans, stream \in Streams :
       \E revision \in 1 .. finalized : Bootstrap(epoch, revision, finalized, q, stream)
  \/ \E stream \in Streams :
       Rebind(versions.revision, versions.finalized, versions.observation, stream)
  \/ \E epoch \in Epochs, seq \in Mutations : ConfirmFinalized(epoch, seq)
  \/ \E epoch \in Epochs, stream \in Streams : Unbind(epoch, stream)

DeactivationRequest ==
  /\ Deactivations
  /\ \E epoch \in Epochs :
       \/ Deactivate(epoch)
       \/ \E op \in {"erase", "abort", "none"} : DeactivateWithSnapshot(epoch, op)

Finish == \E j \in jobs : FinishOrphan(j) \/ FinishStale(j) \/ FinishPlanning(j) \/ FinishFailure(j)

Next ==
  \/ DurableRequest
  \/ ObservationRequest
  \/ ApplyObservation
  \/ ControlRequest
  \/ DeactivationRequest
  \/ FinishDeactivation
  \/ AbortDeactivation
  \/ Finish
  \/ stop_accepting

Spec == Init /\ [][Next]_vars

(* The shard thread keeps taking queued requests and completions, and every *)
(* attempt ends: the provider call and the search both have a deadline.     *)
Fairness == WF_vars(ApplyObservation) /\ WF_vars(Finish)

FairSpec == Spec /\ Fairness

-----------------------------------------------------------------------------
(* The proposal a trip holds was computed from the state the trip is in:    *)
(* no result of an attempt that was overtaken by an accepted event, a       *)
(* bootstrap or a reactivation ever becomes the active proposal.            *)
ProposalIsCurrent ==
  proposal # NoProposal =>
    /\ proposal.current
    /\ proposal.epoch = versions.epoch
    /\ proposal.psv = versions.psv
    /\ proposal.base = plan

(* The one pending replacement always plans the newest admitted state, so   *)
(* coalescing never schedules a replan of an outdated snapshot.             *)
PendingIsLatest ==
  HasPending => pending.current /\ can_commit_planning_work(versions, pending.token)

(* Work that can no longer commit has been asked to stop, so an obsolete    *)
(* attempt never keeps a worker of the pools to itself.                     *)
SupersededWorkIsStopped ==
  \A j \in jobs : j.stopped \/ can_commit_planning_work(versions, j.seed.token)

(* While a bound stream waits for a replan that was acknowledged as         *)
(* scheduled, an attempt for the newest state is pending or running: no     *)
(* order of events and completions drops the last one.                      *)
OwedReplanIsBacked ==
  owed => \/ HasPending
          \/ \E j \in jobs : ~j.stopped /\ can_commit_planning_work(versions, j.seed.token)

(* The fence that makes the two properties above hold: a planning token is  *)
(* never ahead of the trip, and one that equals the versions of the trip    *)
(* was captured from the state the trip is still in.  A token of an earlier *)
(* state never becomes equal again, whatever is bootstrapped or erased in   *)
(* between.                                                                 *)
Fenced(seed) ==
  /\ seed.token.epoch \in 1 .. issued
  /\ seed.token.epoch = versions.epoch => seed.token.psv <= versions.psv
  /\ seed.token = capture_planning_work(versions) => seed.current

WorkIsFenced ==
  /\ versions.epoch <= issued
  /\ \A j \in jobs : Fenced(j.seed)

(* Coalescing keeps the most urgent trigger: an attempt that replaces a     *)
(* pending or a running one, and a pending one that is started, is never    *)
(* less urgent than what it stands for, so a GPS update does not demote the *)
(* replan of a route deviation or an edit.                                  *)
UrgencyIsRetained ==
  [][/\ HasPending /\ pending' # NoPending => pending'.trigger <= pending.trigger
     /\ HasPending /\ pending' = NoPending /\ planning' \notin {planning, NoPlanning}
          => planning'.trigger <= pending.trigger
     /\ IsRunning /\ planning' = planning /\ ~HasPending /\ pending' # NoPending
          => pending'.trigger <= planning.trigger]_vars

(* A trip erased by a deactivation with a final snapshot is erased at the   *)
(* revision and sequence that snapshot covers: nothing is admitted between  *)
(* the two tasks that the snapshot misses.                                  *)
FinalSnapshotCoversTrip ==
  [][(closing.op = "erase" /\ FinishDeactivation /\ HasTrip /\ versions' = Inactive)
       => versions.revision = closing.revision /\ versions.accepted = closing.covered]_vars

(* Every replan acknowledged as scheduled is answered on the stream, unless *)
(* the stream lets go of the trip, the runtime is stopping, or the planner  *)
(* state version is used up: then the queued observation a deferred attempt *)
(* waits for is rejected, and a rejected request starts no attempt.         *)
OwedReplanIsAnswered == owed ~> (~owed \/ ~accepting \/ ~can_increment(versions.psv))

=============================================================================
