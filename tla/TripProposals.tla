---------------------------- MODULE TripProposals ----------------------------
(***************************************************************************)
(* The plan proposals of a trip: the planner publishes them, the proposal  *)
(* consumer stores them, the user accepts or rejects the pending one, and  *)
(* the planner and then the database decide.  Composed with the edits and  *)
(* the other commands of CanonicalTrip.                                    *)
(***************************************************************************)
EXTENDS CanonicalTrip

CONSTANTS
  MaxPsv,         \* bound on observations, through the planner state version
  StreamCapacity  \* bound on published proposals the consumer has not taken

VARIABLES
  stream,    \* the published proposals, in order, the consumer has not taken
  prepared,  \* a decision between its preparation and its recording
  consuming  \* the worker of the proposal consumer has not ended

proposalVars == <<stream, prepared, consuming>>
allVars == <<vars, proposalVars>>

NotPrepared == [event |-> [kind |-> "none"], expected |-> 0, plan |-> NoPlan]

TripProposalsTypeOK ==
  /\ TypeOK
  /\ ToSet(stream) \subseteq Proposals /\ Len(stream) <= StreamCapacity
  /\ prepared.event.kind \in Decisions \cup {"none"}
  /\ consuming \in BOOLEAN

ProposalsInit == Init /\ stream = <<>> /\ prepared = NotPrepared /\ consuming = TRUE

-----------------------------------------------------------------------------
(* The planner's side                                                       *)

(* A telemetry observation changes the planning input: the planner state    *)
(* version advances and the active proposal is dropped.                     *)
Observe ==
  /\ Attached /\ planner.v.psv < MaxPsv
  /\ planner' = [planner EXCEPT !.v = accept_observation(@, @.observation + 1),
                                !.t.proposal = None]
  /\ UNCHANGED <<canonical, proposals, commands, answer, forgotten, proposalVars>>

(* The segments a proposal takes over from the current plan: the completed  *)
(* ones and the started one.                                                *)
PreservedCount(t) == t.prefix + Cardinality(StartedAt(t))

(* A planning result is committed and published with its source versions,   *)
(* also when it changes nothing.  It is a plan of all activities that keeps *)
(* the preserved ones in place; one of these may be omitted from the        *)
(* current plan, and is omitted in the proposal.                            *)
Publish ==
  /\ Attached
  /\ Len(stream) < StreamCapacity
  /\ LET t == planner.t  count == PreservedCount(planner.t)
     IN  \E p \in {q \in Proposals : proposals[q] = NoProposal}, omitted \in BOOLEAN :
         \E plan \in Orderings(ToSet(t.order)) :
       /\ SubSeq(plan, 1, count) = SubSeq(t.plan, 1, count)
       /\ omitted => count > 0
       /\ proposals' = [proposals EXCEPT ![p] =
            [state |-> "streamed", base |-> planner.plan, epoch |-> planner.v.epoch,
             psv |-> planner.v.psv, revision |-> planner.v.revision,
             seq |-> planner.v.accepted, plan |-> plan, omitted |-> omitted]]
       /\ planner' = [planner EXCEPT !.t.proposal = p]
       /\ stream' = Append(stream, p)
  /\ UNCHANGED <<canonical, commands, answer, forgotten, prepared, consuming>>

-----------------------------------------------------------------------------
(* The consumer's side                                                      *)

(* sourceIsCurrent.  The planner state version and the accepted sequence of *)
(* the source are compared with those of the response that carried the      *)
(* proposal, which is where both come from: they decide nothing.            *)
sourceIsCurrent(p) ==
  /\ p.revision = trip.revision
  /\ p.seq <= trip.finalized
  /\ p.base = trip.plan
  /\ p.epoch = trip.epoch

(* validateProposalResult: a proposal of no segments, or with an omitted    *)
(* segment in its preserved prefix, is an invalid result.                   *)
validateProposalResult(p) == p.plan # <<>> /\ ~p.omitted

(* ProposalConsumer.Run takes the next result.  A stale one is discarded;   *)
(* an invalid one ends the worker, and so does the publication of a stored  *)
(* one when a subscriber is gone or slow.  Nothing starts the worker again. *)
Persist ==
  /\ consuming /\ stream # <<>>
  /\ stream' = Tail(stream)
  /\ LET id == Head(stream)
         valid == validateProposalResult(proposals[id])
         stored == valid /\ sourceIsCurrent(proposals[id])
     IN  /\ consuming' \in IF stored THEN BOOLEAN ELSE {valid}
         /\ proposals' =
              IF stored
              THEN [WithState(proposals, "pending", "superseded") EXCEPT ![id].state = "pending"]
              ELSE [proposals EXCEPT ![id] = Closed("dropped")]
  /\ UNCHANGED <<canonical, commands, planner, answer, forgotten, prepared>>

-----------------------------------------------------------------------------
(* The user's decision, in two transactions                                 *)

MaxPlanRevision == CHOOSE r \in plans : \A q \in plans : q <= r

(* The event of a decision as the gateway encodes it: it names the          *)
(* proposal, and has no resulting_current_plan.                             *)
DecisionEvent(kind, p) ==
  [kind |-> kind, proposal |-> p, psv |-> proposals[p].psv, plan |-> None]

(* The plan an acceptance would install: the segments of the proposal with  *)
(* the next plan revision.                                                  *)
plannedAcceptedCurrentPlan(p) ==
  [revision |-> MaxPlanRevision + 1, segments |-> proposals[p].plan]

(* PrepareProposalAcceptance reads the pending proposal and allocates the   *)
(* next plan revision.                                                      *)
PrepareProposalAcceptance ==
  /\ prepared = NotPrepared
  /\ \E p \in Proposals, kind \in Decisions :
       /\ proposals[p].state = "pending"
       /\ prepared' = [event |-> DecisionEvent(kind, p), expected |-> proposals[p].revision,
                       plan |-> IF kind = "accept_proposal"
                                THEN plannedAcceptedCurrentPlan(p) ELSE NoPlan]
  /\ UNCHANGED <<vars, stream, consuming>>

RecordDecision ==
  /\ prepared # NotPrepared
  /\ prepared' = NotPrepared
  /\ UNCHANGED <<stream, consuming>>
  /\ \/ RecordRuntimeFirst(prepared.event, prepared.expected, prepared.plan)
     \/ /\ DOMAIN commands # {} \/ prepared.expected # trip.revision
        /\ UNCHANGED vars

-----------------------------------------------------------------------------
(* Finalization of a decision                                               *)

Decided(row) == proposals[row.event.proposal]

DecisionInTurn(row) == InTurn(row) /\ IsDecision(row)

Resolve(row, state) ==
  proposals' = [proposals EXCEPT ![row.event.proposal] = Closed(state)]

(* The proposal is the pending one, made from what the trip is now.         *)
StillFresh(row) ==
  /\ Decided(row).state = "pending"
  /\ Decided(row).revision = row.expected
  /\ Decided(row).base = trip.plan

FinalizeProposalRejection ==
  /\ DOMAIN commands # {}
  /\ LET row == commands[First]
     IN  /\ DecisionInTurn(row) /\ Succeeded
         /\ row.event.kind = "reject_proposal"
         /\ StillFresh(row)
         /\ trip.revision < MaxRevision
         /\ Resolve(row, "rejected")
  /\ trip' = [trip EXCEPT !.revision = @ + 1, !.finalized = @ + 1]
  /\ Settled
  /\ UNCHANGED <<plans, activities, delays, proposalVars>>

FinalizeStaleProposalDecision ==
  /\ DOMAIN commands # {}
  /\ LET row == commands[First]
     IN  /\ DecisionInTurn(row) /\ answer.status = "stale_proposal"
         /\ IF Decided(row).state = "pending" THEN Resolve(row, "stale") ELSE UNCHANGED proposals
  /\ trip' = [trip EXCEPT !.finalized = @ + 1]
  /\ Settled
  /\ UNCHANGED <<plans, activities, delays, proposalVars>>

(* validateProposalPlanMapping: the planned plan is still that of the        *)
(* proposal.                                                                *)
validateProposalPlanMapping(row) == row.plan.segments = Decided(row).plan

(* parseCurrentPlan: a plan has a revision and no activity twice.           *)
parseCurrentPlan(plan) == plan.revision # 0 /\ IsInjective(plan.segments)

(* The planned plan covers the activities and has the next plan revision.   *)
PlannedPlanFits(row) ==
  /\ parseCurrentPlan(row.plan)
  /\ validateProposalPlanMapping(row)
  /\ CoversExactly(row.plan.segments, Ids)
  /\ row.plan.revision = MaxPlanRevision + 1

CanAcceptProposal(row) ==
  /\ InTurn(row) /\ Succeeded
  /\ row.event.kind = "accept_proposal"
  /\ PlannedPlanFits(row)
  /\ StillFresh(row)

(* Mutant: the accepted plan does not advance the trip revision.            *)
FinalizeProposalAcceptance_same_revision ==
  /\ DOMAIN commands # {}
  /\ LET row == commands[First]
     IN  /\ CanAcceptProposal(row)
         /\ plans' = plans \cup {row.plan.revision}
         /\ trip' = [trip EXCEPT !.finalized = @ + 1,
                                 !.plan = row.plan.revision, !.segments = row.plan.segments]
         /\ Resolve(row, "accepted")
  /\ Settled
  /\ UNCHANGED <<activities, delays, proposalVars>>

FinalizeProposalAcceptance ==
  /\ DOMAIN commands # {}
  /\ LET row == commands[First]
     IN  /\ CanAcceptProposal(row)
         /\ trip.revision < MaxRevision
         /\ plans' = plans \cup {row.plan.revision}
         /\ trip' = [trip EXCEPT !.revision = @ + 1, !.finalized = @ + 1,
                                 !.plan = row.plan.revision, !.segments = row.plan.segments]
         /\ Resolve(row, "accepted")
  /\ Settled
  /\ UNCHANGED <<activities, delays, proposalVars>>

-----------------------------------------------------------------------------
Finalize ==
  \/ FinalizeProposalRejection
  \/ FinalizeStaleProposalDecision
  \/ FinalizeProposalAcceptance

Deliver == Dispatch \/ Pause \/ FinalizeCanonicalMirror \/ FinalizeAcceptedMutation
             \/ FinalizeTerminal \/ LoseAnswer

(* The backend that takes over is this one or another, with a consumer of   *)
(* its own.                                                                 *)
TakeoverByAny ==
  /\ Takeover
  /\ consuming' \in {consuming, TRUE}
  /\ UNCHANGED <<stream, prepared>>

Next ==
  \/ (Edit \/ Mutate \/ Deliver) /\ UNCHANGED proposalVars
  \/ TakeoverByAny
  \/ Observe \/ Publish \/ Persist \/ PrepareProposalAcceptance \/ RecordDecision
  \/ Finalize

Spec == ProposalsInit /\ [][Next]_allVars

-----------------------------------------------------------------------------
(* What could keep the canonical state from being loaded is the place of    *)
(* the started activity and nothing else: whatever edits, decisions and     *)
(* finalizations do, ordinals stay without gaps, the plan covers the        *)
(* activities, terminal activities come first, one is started at most, and  *)
(* no delay refers to a removed activity (canonical_state.go, Load).  A     *)
(* refusal the backend never learnt of is the exception (forgotten): the    *)
(* retry is answered as a duplicate, and the refused change is stored.      *)
LoadFailsOnlyForStarted == RowsFit \/ forgotten

(* A planner that has resolved every command of the trip holds exactly the  *)
(* trip the database would load, with the same revision and plan, although  *)
(* each side applied the commands with its own code.  A refusal the backend *)
(* never learnt of is the exception (forgotten).                            *)
PlannerMatchesCanonical ==
  /\ Attached /\ ~forgotten
  /\ DOMAIN commands = {} /\ answer = NoAnswer
  => /\ planner.v.accepted = trip.finalized
     /\ planner.v.revision = trip.revision
     /\ planner.plan = trip.plan
     /\ [planner.t EXCEPT !.proposal = None] = Load

(* A proposal that is pending was made from the trip as it is: its current  *)
(* plan, its revision and its runtime epoch.  Every command that changes    *)
(* the trip, and every takeover, must therefore resolve it.                 *)
PendingProposalIsCurrent ==
  \A p \in Proposals : proposals[p].state = "pending" =>
    /\ proposals[p].base = trip.plan
    /\ proposals[p].revision = trip.revision
    /\ proposals[p].epoch = trip.epoch
    /\ proposals[p].seq <= trip.finalized

(* Edits number plans by the trip revision, acceptances by the largest plan *)
(* revision there is: the next edit never collides with a plan.             *)
PlanRevisionIsFree == trip.revision + 1 \notin plans

(* What the planner accepted the database can finalize: an accepted         *)
(* runtime-first command is in turn, and has its target row or its          *)
(* proposal, whatever was committed since it was recorded.                  *)
AcceptedIsFinalizable ==
  DOMAIN commands # {} /\ answer.status = "accepted" /\ commands[First].order = "runtime_first" =>
    /\ InTurn(commands[First])
    /\ IF IsDecision(commands[First]) THEN StillFresh(commands[First])
       ELSE HasTarget(commands[First].event)

(* The planner accepts the acceptance of its active proposal.               *)
FreshAcceptanceIsAccepted ==
  DOMAIN commands # {} /\ commands[First].event.kind = "accept_proposal"
    /\ commands[First].event.proposal = planner.t.proposal
  => answer.status # "invalid_argument"

=============================================================================
