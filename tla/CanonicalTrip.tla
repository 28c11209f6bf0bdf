---------------------------- MODULE CanonicalTrip ----------------------------
(***************************************************************************)
(* The canonical state of one trip in PostgreSQL, the user's edits of it,  *)
(* and the planner that follows: a canonical-first command (an edit or a   *)
(* new plan) is committed by the backend and then mirrored to the planner, *)
(* a runtime-first command is recorded, decided by the planner and then    *)
(* finalized in the database.                                              *)
(*                                                                         *)
(* What may be lost, repeated or reordered on the way is the subject of    *)
(* DurableDelivery; here it is what the two sides make of each command.    *)
(* One backend dispatches, an answer may be lost, and a takeover happens   *)
(* between two dispatches.                                                 *)
(***************************************************************************)
EXTENDS TripState, TripRuntimeVersions

CONSTANTS
  MaxRevision,                 \* bound on trip revisions
  MaxSeq,                      \* bound on mutation sequences
  MaxEpoch,                    \* bound on runtime epochs
  MaxPendingCanonicalMirror,   \* unsynced mirrors a trip may have
  Proposals                    \* proposal ids

ASSUME CanonicalTripAssumption ==
  /\ {MaxRevision, MaxSeq, MaxEpoch, MaxPendingCanonicalMirror} \subseteq Nat
  /\ MaxU64 > MaxSeq + MaxRevision
  /\ None \notin Proposals

VARIABLES
  trip,        \* the trips row: revision, next and finalized sequence, lease epoch,
               \* current plan revision and the activities of its segments
  plans,       \* the plan revisions in itinerary_plans
  activities,  \* trip_activities: the ordinal and the state of each id
  delays,      \* the keys of trip_travel_delays
  proposals,   \* plan_proposals
  commands,    \* the unresolved command intents with their outbox rows, by sequence
  planner,     \* the planner's versions, trip state and current plan revision
  answer,      \* the planner's answer the dispatcher holds
  forgotten    \* a refusal of the planner was lost since the last bootstrap

canonical == <<trip, plans, activities, delays>>
vars == <<canonical, proposals, commands, planner, answer, forgotten>>

NoAnswer == [status |-> "none", resolved |-> 0, revision |-> 0, plan |-> 0]
NoPlan == [revision |-> 0, segments |-> <<>>]

(* A proposal that was published but is in no table is "streamed", one the  *)
(* consumer discarded is "dropped".                                         *)
ProposalState == {"unused", "streamed", "dropped", "pending",
                  "accepted", "rejected", "stale", "superseded"}

NoProposal == [state |-> "unused", base |-> 0, epoch |-> 0, psv |-> 0,
               revision |-> 0, seq |-> 0, plan |-> <<>>, omitted |-> FALSE]

(* Nothing reads more of a row that is no longer pending than its state.    *)
Closed(state) == [NoProposal EXCEPT !.state = state]

Refusal == {"invalid_argument", "stale_proposal", "expired"}

Row(order, event, expected, plan) ==
  [order |-> order, expected |-> expected, event |-> event, state |-> "pending", plan |-> plan]

TypeOK ==
  /\ trip.revision \in 1 .. MaxRevision /\ trip.plan \in plans
  /\ trip.next \in 2 .. MaxSeq + 1 /\ trip.finalized \in 1 .. MaxSeq
  /\ trip.epoch \in 0 .. MaxEpoch
  /\ DOMAIN activities \subseteq Activities
  /\ \A a \in DOMAIN activities : activities[a].ordinal \in Nat /\ activities[a].state \in ActivityState
  /\ delays \subseteq Activities \X Activities
  /\ \A p \in Proposals : proposals[p].state \in ProposalState
  /\ Cardinality(DOMAIN commands) <= MaxPendingCanonicalMirror + 1
  /\ planner.v \in Versions /\ planner.plan \in Nat
  /\ answer.status \in Refusal \cup {"none", "accepted", "duplicate", "stale_trip_revision",
                                     "stale_planner_state_version", "stale_mutation_sequence"}
  /\ forgotten \in BOOLEAN

-----------------------------------------------------------------------------
(* Rows and plans                                                           *)

Ids == DOMAIN activities
StateOf(acts) == [a \in DOMAIN acts |-> acts[a].state]

Orderings(ids) == {s \in [1 .. Cardinality(ids) -> ids] : ToSet(s) = ids}

(* SELECT ... ORDER BY ordinal                                              *)
InOrder(acts) ==
  CHOOSE s \in Orderings(DOMAIN acts) :
     \A i, j \in DOMAIN s : i < j => acts[s[i]].ordinal <= acts[s[j]].ordinal

Contiguous(acts) ==
  LET order == InOrder(acts)
  IN  \A i \in DOMAIN order : acts[order[i]].ordinal = i - 1

(* The rows with the given states, numbered by their place in order.        *)
Numbered(order, state) ==
  [a \in DOMAIN state |-> [ordinal |-> Position(order, a) - 1, state |-> state[a]]]

TerminalPrefix(segments, state) ==
  \A i, j \in DOMAIN segments :
     i < j /\ is_terminal(state[segments[j]]) => is_terminal(state[segments[i]])

StartedOnce(segments, state) ==
  Cardinality({i \in DOMAIN segments : state[segments[i]] = "started"}) <= 1

(* The plan covers the activities exactly, the terminal ones come first and *)
(* one activity at most is started.  The code means to check the place of   *)
(* the started one as well, but compares index with len(seen) - 1, which    *)
(* are always equal.                                                        *)
validateReplacementPlan(segments, state) ==
  /\ CoversExactly(segments, DOMAIN state)
  /\ TerminalPrefix(segments, state)
  /\ StartedOnce(segments, state)

-----------------------------------------------------------------------------
(* CanonicalStateStore.Load: what a runtime is bootstrapped from.           *)

Terminals == {a \in Ids : is_terminal(activities[a].state)}
Started == {a \in Ids : activities[a].state = "started"}

StartedInPlace ==
  \A a \in Started : trip.segments[Cardinality(Terminals) + 1] = a

DelaysFit == delays \subseteq Ids \X Ids
PlanIsStored == trip.plan \in plans

RowsFit ==
  /\ Contiguous(activities)
  /\ DelaysFit
  /\ PlanIsStored
  /\ CoversExactly(trip.segments, Ids)
  /\ TerminalPrefix(trip.segments, StateOf(activities))
  /\ StartedOnce(trip.segments, StateOf(activities))

Loadable == RowsFit /\ StartedInPlace

Load ==
  [order |-> InOrder(activities), state |-> StateOf(activities), plan |-> trip.segments,
   prefix |-> Cardinality(Terminals),
   current |-> IF Started = {} THEN None ELSE CHOOSE a \in Started : TRUE,
   delays |-> delays, proposal |-> None]

-----------------------------------------------------------------------------
(* validateCreateTripRequest: the plan of a new trip is checked as a        *)
(* replacement is, with the same comparison that is always true.            *)
validateCreateTripRequest(order, state, segments) ==
  order # <<>> /\ validateReplacementPlan(segments, state)

Inactivated == [v |-> Inactive, plan |-> 0,
                t |-> [order |-> <<>>, state |-> <<>>, plan |-> <<>>, prefix |-> 0,
                       current |-> None, delays |-> {}, proposal |-> None]]

(* CreateTrip has committed the trip with revision 1 and sequence 1.        *)
Init ==
  /\ \E ids \in SUBSET Activities : \E order, segments \in Orderings(ids) :
     \E state \in [ids -> ActivityState] :
       /\ validateCreateTripRequest(order, state, segments)
       /\ activities = Numbered(order, state)
       /\ trip = [revision |-> 1, next |-> 2, finalized |-> 1, epoch |-> 0,
                  plan |-> 1, segments |-> segments]
  /\ plans = {1}
  /\ delays = {}
  /\ proposals = [p \in Proposals |-> NoProposal]
  /\ commands = <<>>
  /\ planner = Inactivated
  /\ answer = NoAnswer
  /\ forgotten = FALSE

-----------------------------------------------------------------------------
(* Edits: canonical-first commands                                          *)

WithState(rows, from, to) ==
  [p \in Proposals |-> IF rows[p].state = from THEN Closed(to) ELSE rows[p]]

(* The sequences of the unresolved commands of one order, and the first     *)
(* unresolved command, which is the one to dispatch.                        *)
Unresolved(order) == {seq \in DOMAIN commands : commands[seq].order = order}
First == CHOOSE seq \in DOMAIN commands : \A other \in DOMAIN commands : seq <= other

(* The commands once row has the next sequence, or once the first command   *)
(* is resolved.                                                             *)
Recorded(row) ==
  [seq \in DOMAIN commands \cup {trip.next} |-> IF seq = trip.next THEN row ELSE commands[seq]]
AfterFirst == [seq \in DOMAIN commands \ {First} |-> commands[seq]]

(* Mutant: an edit does not wait for the unresolved runtime-first command.  *)
Admits_beside_commands ==
  /\ Cardinality(Unresolved("canonical_first")) < MaxPendingCanonicalMirror
  /\ Contiguous(activities)
  /\ trip.revision < MaxRevision /\ trip.next <= MaxSeq

(* What every edit requires of the trip before it looks at its request: no  *)
(* unresolved runtime-first command, room for one more mirror, and ordinals *)
(* without a gap.  The request names the revision the trip has, one that is *)
(* stale changes nothing; nor does a message id that was used, which is     *)
(* answered from its intent.                                                *)
Admits ==
  /\ Unresolved("runtime_first") = {}
  /\ Cardinality(Unresolved("canonical_first")) < MaxPendingCanonicalMirror
  /\ Contiguous(activities)
  /\ trip.revision < MaxRevision /\ trip.next <= MaxSeq

(* Mutant: the trip points to a plan that is not stored.                    *)
Commit_without_plan(event, acts, dels, segments) ==
  LET revision == trip.revision + 1
  IN  /\ trip' = [trip EXCEPT !.revision = revision, !.next = @ + 1, !.finalized = trip.next,
                              !.plan = revision, !.segments = segments]
      /\ activities' = acts
      /\ delays' = dels
      /\ proposals' = WithState(proposals, "pending", "superseded")
      /\ commands' = Recorded(Row("canonical_first", event, trip.revision,
                                  [revision |-> revision, segments |-> segments]))
      /\ UNCHANGED <<plans, planner, answer, forgotten>>

(* The tail of every edit: the new plan has the new trip revision, pending  *)
(* proposals are superseded, and the command is final and to be mirrored.   *)
Commit(event, acts, dels, segments) ==
  LET revision == trip.revision + 1
  IN  /\ revision \notin plans     \* UNIQUE (trip_id, plan_revision)
      /\ plans' = plans \cup {revision}
      /\ trip' = [trip EXCEPT !.revision = revision, !.next = @ + 1, !.finalized = trip.next,
                              !.plan = revision, !.segments = segments]
      /\ activities' = acts
      /\ delays' = dels
      /\ proposals' = WithState(proposals, "pending", "superseded")
      /\ commands' = Recorded(Row("canonical_first", event, trip.revision,
                                  [revision |-> revision, segments |-> segments]))
      /\ UNCHANGED <<planner, answer, forgotten>>

(* The events the gateway builds for the planner.                           *)
Edited(edit) == [kind |-> "trip_edited", edit |-> edit]
PlanReplaced(segments) == [kind |-> "current_plan_replaced", plan |-> segments]

CanReplaceCurrentPlan(segments) ==
  validateReplacementPlan(segments, StateOf(activities))

ReplaceCurrentPlan(segments) ==
  /\ CanReplaceCurrentPlan(segments)
  /\ Commit(PlanReplaced(segments), activities, delays, segments)

validateReorderActivitiesRequest(order) == order # <<>> /\ IsInjective(order)

CanReorderActivities(order, segments) ==
  /\ validateReorderActivitiesRequest(order) /\ CoversExactly(order, Ids)
  /\ validateReplacementPlan(segments, StateOf(activities))

ReorderActivities(order, segments) ==
  /\ CanReorderActivities(order, segments)
  /\ Commit(Edited([kind |-> "reorder", order |-> order, plan |-> segments]),
            Numbered(order, StateOf(activities)), delays, segments)

Without(a) == SelectSeq(InOrder(activities), LAMBDA b : b # a)
WithoutState(a) == [b \in Ids \ {a} |-> activities[b].state]

CanRemoveActivity(a, segments) ==
  /\ a \in Ids
  /\ validateReplacementPlan(segments, WithoutState(a))

(* Mutant: the rows after the removed one keep their ordinals.              *)
RemoveActivity_unnumbered(a, segments) ==
  /\ CanRemoveActivity(a, segments)
  /\ Commit(Edited([kind |-> "remove", activity |-> a, plan |-> segments]),
            [b \in Ids \ {a} |-> activities[b]],
            {d \in delays : d[1] # a /\ d[2] # a}, segments)

(* Mutant: the travel delays of the removed activity are kept.              *)
RemoveActivity_keeping_delays(a, segments) ==
  /\ CanRemoveActivity(a, segments)
  /\ Commit(Edited([kind |-> "remove", activity |-> a, plan |-> segments]),
            Numbered(Without(a), WithoutState(a)), delays, segments)

RemoveActivity(a, segments) ==
  /\ CanRemoveActivity(a, segments)
  /\ Commit(Edited([kind |-> "remove", activity |-> a, plan |-> segments]),
            Numbered(Without(a), WithoutState(a)),
            {d \in delays : d[1] # a /\ d[2] # a}, segments)

Replaced(a, s) == [activities EXCEPT ![a].state = s]

CanReplaceActivity(a, s, segments) ==
  /\ a \in Ids
  /\ validateReplacementPlan(segments, StateOf(Replaced(a, s)))

ReplaceActivity(a, s, segments) ==
  /\ CanReplaceActivity(a, s, segments)
  /\ Commit(Edited([kind |-> "replace", activity |-> a, state |-> s, plan |-> segments]),
            Replaced(a, s), delays, segments)

WithAdded(a, s) ==
  [b \in Ids \cup {a} |-> IF b = a THEN s ELSE activities[b].state]

CanAddActivity(a, s, ordinal, segments) ==
  /\ ordinal <= Cardinality(Ids)
  /\ a \notin Ids
  /\ validateReplacementPlan(segments, WithAdded(a, s))

AddActivity(a, s, ordinal, segments) ==
  /\ CanAddActivity(a, s, ordinal, segments)
  /\ Commit(Edited([kind |-> "add", activity |-> a, state |-> s, ordinal |-> ordinal,
                    plan |-> segments]),
            Numbered(InsertAt(InOrder(activities), ordinal + 1, a), WithAdded(a, s)),
            delays, segments)

Edit ==
  /\ Admits
  /\ \/ \E s \in Orderings(Ids) : ReplaceCurrentPlan(s)
     \/ \E o, s \in Orderings(Ids) : ReorderActivities(o, s)
     \/ \E a \in Ids : \E s \in Orderings(Ids \ {a}) : RemoveActivity(a, s)
     \/ \E a \in Ids, st \in ActivityState : \E s \in Orderings(Ids) : ReplaceActivity(a, st, s)
     \/ \E a \in Activities \ Ids, st \in ActivityState, o \in 0 .. Cardinality(Ids) :
          \E s \in Orderings(Ids \cup {a}) : AddActivity(a, st, o, s)

-----------------------------------------------------------------------------
(* Runtime-first commands                                                   *)

(* RecordRuntimeFirst, with the plan an acceptance would install.           *)
RecordRuntimeFirst(event, expected, planned) ==
  /\ DOMAIN commands = {}
  /\ expected = trip.revision
  /\ trip.next <= MaxSeq
  /\ trip' = [trip EXCEPT !.next = @ + 1]
  /\ commands' = Recorded(Row("runtime_first", event, expected, planned))
  /\ UNCHANGED <<plans, activities, delays, proposals, planner, answer, forgotten>>

runtimeMutationEvent ==
  [kind : {"activity_status_changed"}, activity : Activities, state : ActivityState]
    \cup [kind : {"detail_changed"}, activity : Activities]
    \cup [kind : {"travel_delay"}, from : Activities, to : Activities]

Mutate == \E event \in runtimeMutationEvent : RecordRuntimeFirst(event, trip.revision, NoPlan)

-----------------------------------------------------------------------------
(* The planner's side                                                       *)

Decisions == {"accept_proposal", "reject_proposal"}
IsDecision(row) == row.event.kind \in Decisions

(* A decision is sent with the planner state version of its proposal.       *)
ExpectedPsv(row) == IF IsDecision(row) THEN row.event.psv ELSE Unspecified

(* The planner runs the trip with the epoch of its lease.                   *)
Attached == IsActive(planner.v) /\ planner.v.epoch = trip.epoch

Preview(row) ==
  preview_durable(planner.v, trip.epoch, First, row.expected, ExpectedPsv(row))

Answered(status) ==
  /\ answer' = [status |-> status, resolved |-> planner'.v.accepted,
                revision |-> planner'.v.revision, plan |-> planner'.plan]
  /\ UNCHANGED <<canonical, proposals, commands, forgotten>>

(* A refusal of a runtime-first command consumes its sequence, the refusal  *)
(* of a mirror does not.                                                    *)
Consumed(row) ==
  IF row.order = "runtime_first"
  THEN [planner EXCEPT !.v = resolve_terminal_durable(@, First)]
  ELSE planner

ChangesPlan(row) == row.event.kind \in {"trip_edited", "current_plan_replaced", "accept_proposal"}

Accepted(row) ==
  [v |-> accept_durable(planner.v, First), t |-> Applied(planner.t, row.event),
   plan |-> IF ChangesPlan(row) THEN row.plan.revision ELSE planner.plan]

(* coordinate_event_admission, for the first command that is unresolved.    *)
(* Whether a runtime-first command has expired is the clock's choice; a     *)
(* mirror never expires.                                                    *)
Dispatch ==
  /\ answer = NoAnswer
  /\ DOMAIN commands # {} /\ commands[First].state = "pending"
  /\ Attached
  /\ LET row == commands[First]
     IN  \/ /\ Preview(row) # "accepted"
            /\ planner' = planner
            /\ Answered(Preview(row))
         \/ /\ Preview(row) = "accepted" /\ row.order = "runtime_first"
            /\ planner' = Consumed(row)
            /\ Answered("expired")
         \/ /\ Preview(row) = "accepted"
            /\ apply_status(planner.t, row.event) # "accepted"
            /\ planner' = Consumed(row)
            /\ Answered(apply_status(planner.t, row.event))
         \/ /\ Preview(row) = "accepted"
            /\ apply_status(planner.t, row.event) = "accepted"
            /\ planner' = Accepted(row)
            /\ Answered("accepted")

-----------------------------------------------------------------------------
(* The dispatcher's side of the answer                                      *)

Succeeded == answer.status \in {"accepted", "duplicate"}
Resolves == answer.resolved >= First

Settled == answer' = NoAnswer /\ commands' = AfterFirst /\ UNCHANGED <<planner, forgotten>>

Pause ==
  /\ answer # NoAnswer
  /\ LET row == commands[First]
     IN  \/ row.order = "canonical_first"
              /\ ~(Succeeded /\ answer.revision = row.expected + 1 /\ answer.plan = row.plan.revision)
         \/ row.order = "runtime_first" /\ ~Resolves
  /\ commands' = [commands EXCEPT ![First].state = "paused_internal"]
  /\ answer' = NoAnswer
  /\ UNCHANGED <<canonical, proposals, planner, forgotten>>

FinalizeCanonicalMirror ==
  /\ answer # NoAnswer
  /\ LET row == commands[First]
     IN  /\ row.order = "canonical_first"
         /\ Succeeded
         /\ answer.revision = row.expected + 1
         /\ answer.plan = row.plan.revision
  /\ Settled
  /\ UNCHANGED <<canonical, proposals>>

(* The guards the finalizations of a runtime-first command share.           *)
InTurn(row) ==
  /\ answer # NoAnswer
  /\ row.order = "runtime_first"
  /\ Resolves
  /\ trip.revision = row.expected
  /\ trip.finalized + 1 = First

HasTarget(event) ==
  CASE event.kind = "travel_delay" -> {event.from, event.to} \subseteq Ids
    [] OTHER -> event.activity \in Ids

(* applyAcceptedMutation                                                    *)
applyAcceptedMutation(event) ==
  /\ HasTarget(event)
  /\ activities' = IF event.kind = "activity_status_changed"
                   THEN Replaced(event.activity, event.state) ELSE activities
  /\ delays' = IF event.kind = "travel_delay"
               THEN delays \cup {<<event.from, event.to>>} ELSE delays

CanFinalizeAccepted(row) ==
  InTurn(row) /\ Succeeded /\ ~IsDecision(row) /\ trip.revision < MaxRevision

(* Mutant: the pending proposal survives the mutation.                      *)
FinalizeAcceptedMutation_keeping_proposals ==
  /\ DOMAIN commands # {}
  /\ CanFinalizeAccepted(commands[First])
  /\ applyAcceptedMutation(commands[First].event)
  /\ trip' = [trip EXCEPT !.revision = @ + 1, !.finalized = @ + 1]
  /\ Settled
  /\ UNCHANGED <<plans, proposals>>

FinalizeAcceptedMutation ==
  /\ DOMAIN commands # {}
  /\ CanFinalizeAccepted(commands[First])
  /\ applyAcceptedMutation(commands[First].event)
  /\ trip' = [trip EXCEPT !.revision = @ + 1, !.finalized = @ + 1]
  /\ proposals' = WithState(proposals, "pending", "stale")
  /\ Settled
  /\ UNCHANGED plans

terminalStatus == {"invalid_argument", "expired"}

CanFinalizeTerminal(row) == InTurn(row) /\ answer.status \in terminalStatus

(* FinalizeTerminal: the sequence is final, nothing else changes.  A        *)
(* proposal a refused decision was about stays pending.                     *)
FinalizeTerminal ==
  /\ DOMAIN commands # {}
  /\ CanFinalizeTerminal(commands[First])
  /\ trip' = [trip EXCEPT !.finalized = @ + 1]
  /\ Settled
  /\ UNCHANGED <<plans, activities, delays, proposals>>

(* The exchange fails after the planner has answered; the row is retried.   *)
LoseAnswer ==
  /\ answer # NoAnswer
  /\ answer' = NoAnswer
  /\ forgotten' = (forgotten \/ (answer.status \in Refusal /\ commands[First].order = "runtime_first"))
  /\ UNCHANGED <<canonical, proposals, commands, planner>>

-----------------------------------------------------------------------------
(* A backend acquires the lease with the next epoch, makes the proposals of *)
(* older epochs stale, loads the canonical state and bootstraps the planner *)
(* with it; the mirrors the bootstrap covers are synced.  When the state    *)
(* cannot be loaded there is an epoch and no runtime.                       *)
Bootstrap ==
  /\ planner' = [v |-> Bootstrapped(trip'.epoch, trip.revision, trip.finalized, 0),
                 t |-> Load, plan |-> trip.plan]
  /\ commands' = [seq \in Unresolved("runtime_first") |-> commands[seq]]
  /\ forgotten' = FALSE

Takeover ==
  /\ answer = NoAnswer
  /\ trip.epoch < MaxEpoch
  /\ trip' = [trip EXCEPT !.epoch = @ + 1]
  /\ proposals' = WithState(proposals, "pending", "stale")
  /\ IF Loadable THEN Bootstrap ELSE UNCHANGED <<planner, commands, forgotten>>
  /\ UNCHANGED <<plans, activities, delays, answer>>

=============================================================================
