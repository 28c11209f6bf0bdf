------------------------- MODULE TripProposalsProofs -------------------------
(***************************************************************************)
(* Proofs about TripProposals, for any sets of activities and proposals    *)
(* and any bounds: the inductive invariant; the steps that keep it, first  *)
(* those of the users and of the planner's notifications (edits,           *)
(* mutations, decisions, observations, publication and the consumer), then *)
(* those of the outbox dispatcher and of the planner; and what follows     *)
(* from it.                                                                *)
(***************************************************************************)
EXTENDS TripProposals, TLAPS

-----------------------------------------------------------------------------
(* The inductive invariant                                                  *)

(* The states of a proposal that was stored, and of one that was resolved.  *)
Seen == {"pending", "accepted", "rejected", "stale", "superseded"}
Over == Seen \ {"pending"}

TripFits ==
  /\ DOMAIN trip = {"revision", "next", "finalized", "epoch", "plan", "segments"}
  /\ trip.revision \in Nat /\ trip.next \in Nat /\ trip.finalized \in Nat /\ trip.epoch \in Nat

PlansFit ==
  /\ \A r \in plans : r \in Nat /\ r <= trip.revision
  /\ \E m \in plans : \A r \in plans : r <= m

ProposalsFit ==
  /\ DOMAIN proposals = Proposals
  /\ \A p \in Proposals :
       /\ DOMAIN proposals[p] = DOMAIN NoProposal
       /\ proposals[p].state \in ProposalState /\ proposals[p].seq \in Nat
  /\ \A p, q \in Proposals : proposals[p].state = "pending" /\ proposals[q].state = "pending" => p = q

(* A decision is about a proposal that was stored.                          *)
DecisionFits(event) ==
  event.proposal \in Proposals /\ event.plan = None /\ proposals[event.proposal].state \in Seen

PreparedFits ==
  prepared # NotPrepared => prepared.event.kind \in Decisions /\ DecisionFits(prepared.event)

(* The event of an edit carries the plan the edit results in.               *)
EditKinds == {"add", "replace", "remove", "reorder"}

CarriesPlan(event, segments) ==
  \/ event.kind = "trip_edited" /\ event.edit.kind \in EditKinds /\ event.edit.plan = segments
  \/ event.kind = "current_plan_replaced" /\ event.plan = segments

(* A mirror is of an older revision than the trip has; the last one has the *)
(* plan of the trip as it is.                                               *)
MirrorFits(s) ==
  /\ commands[s].order = "canonical_first"
  /\ commands[s].expected \in Nat /\ commands[s].expected < trip.revision
  /\ CarriesPlan(commands[s].event, commands[s].plan.segments)
  /\ commands[s].expected + 1 = trip.revision => ToSet(commands[s].plan.segments) = Ids

(* An unresolved runtime-first command is the only one, and in turn.        *)
RuntimeFits(s) ==
  /\ commands[s].order = "runtime_first"
  /\ DOMAIN commands = {s} /\ trip.next = s + 1 /\ trip.finalized + 1 = s
  /\ commands[s].expected = trip.revision
  /\ IF IsDecision(commands[s]) THEN DecisionFits(commands[s].event)
     ELSE commands[s].event \in runtimeMutationEvent

CommandsFit ==
  /\ \E first \in Nat : DOMAIN commands = first .. trip.next - 1
  /\ \A s \in DOMAIN commands :
       /\ DOMAIN commands[s] = {"order", "expected", "event", "state", "plan"}
       /\ MirrorFits(s) \/ RuntimeFits(s)
  /\ Unresolved("runtime_first") = {} => trip.finalized + 1 = trip.next

(* The published proposals that were not taken are streamed, each once.     *)
StreamFits ==
  /\ stream \in Seq(Proposals)
  /\ \A i \in 1 .. Len(stream) : proposals[stream[i]].state = "streamed"
  /\ \A i, j \in 1 .. Len(stream) : stream[i] = stream[j] => i = j

PlannerFits ==
  /\ DOMAIN planner = {"v", "t", "plan"}
  /\ DOMAIN planner.v = DOMAIN Inactive
  /\ DOMAIN planner.t = DOMAIN Inactivated.t
  /\ planner.v.epoch \in Nat /\ planner.v.revision \in Nat /\ planner.v.accepted \in Nat
  /\ planner.v.epoch <= trip.epoch

(* The planner is ahead of the trip by the undecided runtime-first command  *)
(* at most; and when it is not behind, its plan covers the same activities. *)
PlannerIsClose ==
  /\ Attached /\ planner.v.revision > trip.revision =>
       /\ planner.v.revision = trip.revision + 1
       /\ Unresolved("runtime_first") # {} /\ planner.v.accepted >= First
  /\ Attached /\ planner.v.revision >= trip.revision => ToSet(planner.t.plan) = Ids

(* The active proposal of the planner is the one it published last.  One    *)
(* that was resolved stays active only in a planner that is behind, and one *)
(* of a planner that is ahead is never stored.                              *)
ActiveFits ==
  \A p \in Proposals : planner.t.proposal = p =>
    /\ stream = <<>> \/ stream[Len(stream)] = p
    /\ proposals[p].state = "streamed" =>
         proposals[p].revision = planner.v.revision /\ proposals[p].epoch = planner.v.epoch
    /\ proposals[p].state \in Over /\ Attached => planner.v.revision < trip.revision
    /\ Attached /\ planner.v.revision > trip.revision => proposals[p].state \notin Seen

AnswerShape ==
  /\ answer.status = "none" <=> answer = NoAnswer
  /\ answer # NoAnswer => DOMAIN commands # {} /\ answer.resolved \in Nat

(* What is known of the first command while its answer is held.             *)
RefusedFits ==
  DOMAIN commands # {} /\ commands[First].order = "runtime_first" =>
    /\ answer.status \in Refusal /\ Attached => planner.v.revision <= trip.revision
    /\ answer.status = "stale_proposal" =>
         /\ IsDecision(commands[First])
         /\ planner.t.proposal # commands[First].event.proposal

Undisturbed ==
  /\ proposals[commands[First].event.proposal].state = "pending"
  /\ \A i \in 1 .. Len(stream) : proposals[stream[i]].revision # trip.revision

AcceptedFits ==
  DOMAIN commands # {} /\ commands[First].order = "runtime_first" /\ answer.status = "accepted" =>
    /\ Attached /\ planner.v.revision = trip.revision + 1 /\ answer.resolved >= First
    /\ IF IsDecision(commands[First]) THEN Undisturbed ELSE HasTarget(commands[First].event)

Inv ==
  /\ TripFits /\ PlansFit /\ ProposalsFit /\ PreparedFits /\ CommandsFit /\ StreamFits
  /\ PlannerFits /\ PlannerIsClose /\ ActiveFits
  /\ AnswerShape /\ RefusedFits /\ AcceptedFits
  /\ PendingProposalIsCurrent

-----------------------------------------------------------------------------
(* Rows and their shapes                                                    *)

(* A closed row has the fields of a proposal, and its state.                *)
LEMMA ClosedRow ==
  ASSUME NEW state
  PROVE  /\ DOMAIN Closed(state) = DOMAIN NoProposal
         /\ Closed(state).state = state /\ Closed(state).seq = 0
<1>1. {"state", "seq"} \subseteq DOMAIN NoProposal /\ NoProposal.seq = 0
  BY Zenon DEF NoProposal
<1> QED
  BY Zenon, <1>1 DEF Closed

(* There is a largest plan revision.                                        *)
LEMMA LargestPlan ==
  ASSUME PlansFit
  PROVE  MaxPlanRevision \in plans /\ \A r \in plans : r <= MaxPlanRevision
BY Zenon DEF PlansFit, MaxPlanRevision

(* The first command is the least of an interval that ends where the next   *)
(* sequence is.                                                             *)
LEMMA FirstCommand ==
  ASSUME TripFits, CommandsFit, DOMAIN commands # {}
  PROVE  /\ First \in Nat /\ First \in DOMAIN commands
         /\ DOMAIN commands = First .. trip.next - 1 /\ First < trip.next
<1>1. PICK first \in Nat : DOMAIN commands = first .. trip.next - 1
  BY Zenon DEF CommandsFit
<1>2. first \in DOMAIN commands /\ \A other \in DOMAIN commands : first <= other
  BY <1>1 DEF TripFits
<1>3. First \in DOMAIN commands /\ \A other \in DOMAIN commands : First <= other
  BY Zenon, <1>2 DEF First
<1>4. First = first
  BY <1>1, <1>2, <1>3 DEF TripFits
<1> QED
  BY <1>1, <1>2, <1>3, <1>4 DEF TripFits

(* An unresolved runtime-first command is the first, and the only one.      *)
LEMMA OnlyCommand ==
  ASSUME TripFits, CommandsFit, NEW s \in DOMAIN commands, commands[s].order = "runtime_first"
  PROVE  RuntimeFits(s) /\ First = s /\ Unresolved("runtime_first") = {s}
<1>1. RuntimeFits(s)
  BY Zenon DEF CommandsFit, MirrorFits
<1>2. DOMAIN commands = {s}
  BY Zenon, <1>1 DEF RuntimeFits
<1>3. First = s
  BY Zenon, <1>2, FirstCommand DEF TripFits
<1> QED
  BY Zenon, <1>1, <1>2, <1>3 DEF Unresolved

-----------------------------------------------------------------------------
(* The initial states                                                       *)

(* The initial states.                                                      *)
LEMMA InitFits == ProposalsInit => Inv
<1> SUFFICES ASSUME ProposalsInit PROVE Inv
  BY Zenon
<1>1. PICK segments : trip = [revision |-> 1, next |-> 2, finalized |-> 1, epoch |-> 0,
                              plan |-> 1, segments |-> segments]
  BY Zenon DEF ProposalsInit, Init
<1>2. /\ plans = {1} /\ commands = <<>> /\ planner = Inactivated /\ answer = NoAnswer
      /\ stream = <<>> /\ prepared = NotPrepared /\ proposals = [p \in Proposals |-> NoProposal]
  BY Zenon DEF ProposalsInit, Init
<1>3. TripFits /\ PlansFit
  BY <1>1, <1>2 DEF TripFits, PlansFit
<1>4. \A p \in Proposals :
        proposals[p] = NoProposal /\ proposals[p].state = "unused" /\ proposals[p].seq = 0
  <2>1. NoProposal.state = "unused" /\ NoProposal.seq = 0
    BY Zenon DEF NoProposal
  <2> QED
    BY Zenon, <1>2, <2>1
<1>5. ProposalsFit /\ PreparedFits /\ PendingProposalIsCurrent
  BY <1>2, <1>4 DEF ProposalsFit, ProposalState, PreparedFits, PendingProposalIsCurrent
<1>6. DOMAIN commands = {}
  BY <1>2
<1>7. CommandsFit
  <2>1. DOMAIN commands = 2 .. trip.next - 1 /\ trip.finalized + 1 = trip.next
    BY <1>1, <1>6
  <2>2. \E first \in Nat : DOMAIN commands = first .. trip.next - 1
    BY Zenon, <2>1
  <2> QED
    BY Zenon, <1>6, <2>1, <2>2 DEF CommandsFit
<1>8. StreamFits
  BY <1>2 DEF StreamFits
<1>9. planner.v = Inactive /\ planner.t = Inactivated.t /\ DOMAIN planner = {"v", "t", "plan"}
  BY Zenon, <1>2 DEF Inactivated
<1>10. planner.v.epoch = 0 /\ planner.v.revision = 0 /\ planner.v.accepted = 0 /\ ~Attached
  BY <1>9 DEF Inactive, Attached, IsActive
<1>11. PlannerFits /\ PlannerIsClose
  BY <1>1, <1>9, <1>10 DEF PlannerFits, PlannerIsClose
<1>12. planner.t.proposal = None
  BY <1>9 DEF Inactivated
<1>13. ActiveFits
  BY Zenon, <1>12, CanonicalTripAssumption DEF ActiveFits
<1>14. AnswerShape /\ RefusedFits /\ AcceptedFits
  BY Zenon, <1>2, <1>6 DEF AnswerShape, NoAnswer, RefusedFits, AcceptedFits
<1> QED
  BY Zenon, <1>3, <1>5, <1>7, <1>8, <1>11, <1>13, <1>14 DEF Inv

-----------------------------------------------------------------------------
(* What a step does to the proposals                                        *)

(* A step that only resolves proposals: what changes was pending, and is    *)
(* over.                                                                    *)
Closes ==
  /\ DOMAIN proposals' = Proposals
  /\ \A p \in Proposals :
       \/ proposals'[p] = proposals[p]
       \/ /\ proposals[p].state = "pending" /\ proposals'[p].state \in Over
          /\ DOMAIN proposals'[p] = DOMAIN NoProposal /\ proposals'[p].seq \in Nat

(* A step that leaves no proposal pending.                                  *)
ClosesAll == Closes /\ \A p \in Proposals : proposals'[p].state # "pending"

(* The proposals that are pending are closed.                               *)
LEMMA WithStateCloses ==
  ASSUME ProposalsFit, NEW to \in Over, proposals' = WithState(proposals, "pending", to)
  PROVE  ClosesAll
<1>1. DOMAIN proposals' = Proposals
  BY Zenon DEF WithState
<1>2. ASSUME NEW p \in Proposals
      PROVE  proposals'[p] = IF proposals[p].state = "pending" THEN Closed(to) ELSE proposals[p]
  BY Zenon DEF WithState
<1>3. to # "pending" /\ DOMAIN Closed(to) = DOMAIN NoProposal
      /\ Closed(to).state = to /\ Closed(to).seq = 0
  BY Zenon, ClosedRow DEF Over
<1> QED
  BY <1>1, <1>2, <1>3 DEF Closes, ClosesAll

(* The one pending proposal is closed.                                      *)
LEMMA ResolveCloses ==
  ASSUME ProposalsFit, NEW p \in Proposals, NEW to \in Over, proposals[p].state = "pending",
         proposals' = [proposals EXCEPT ![p] = Closed(to)]
  PROVE  ClosesAll
<1>1. DOMAIN proposals' = Proposals /\ proposals'[p] = Closed(to)
      /\ \A q \in Proposals : q # p => proposals'[q] = proposals[q]
  BY Zenon DEF ProposalsFit
<1>2. to # "pending" /\ DOMAIN Closed(to) = DOMAIN NoProposal
      /\ Closed(to).state = to /\ Closed(to).seq = 0
  BY Zenon, ClosedRow DEF Over
<1> QED
  BY <1>1, <1>2 DEF Closes, ClosesAll, ProposalsFit

(* Proposals that are seen stay seen, streamed ones stay what they are, and *)
(* there is still one pending at most.                                      *)
LEMMA ClosesKeeps ==
  ASSUME ProposalsFit, Closes
  PROVE  /\ ProposalsFit'
         /\ \A p \in Proposals : proposals[p].state \in Seen => proposals'[p].state \in Seen
         /\ \A p \in Proposals : proposals[p].state \notin Seen => proposals'[p] = proposals[p]
<1>1. \A p \in Proposals : proposals'[p].state = "pending" => proposals[p].state = "pending"
  BY Zenon DEF Closes, Over
<1> QED
  BY <1>1 DEF ProposalsFit, Closes, Over, Seen, ProposalState

(* What is in the stream is not pending, and stays.                         *)
LEMMA ClosesStream ==
  ASSUME ProposalsFit, StreamFits, Closes, UNCHANGED stream
  PROVE  StreamFits' /\ \A i \in 1 .. Len(stream) : proposals'[stream[i]] = proposals[stream[i]]
BY ClosesKeeps DEF StreamFits, Seen

(* A prepared decision stays about a stored proposal.                       *)
LEMMA ClosesPrepared ==
  ASSUME ProposalsFit, PreparedFits, Closes, UNCHANGED prepared
  PROVE  PreparedFits'
BY Zenon, ClosesKeeps DEF PreparedFits, DecisionFits

-----------------------------------------------------------------------------
(* What no action changes                                                   *)

(* What is said of the commands depends on nothing else.                    *)
LEMMA SameCommands ==
  ASSUME UNCHANGED commands
  PROVE  /\ First' = First /\ Unresolved("runtime_first")' = Unresolved("runtime_first")
         /\ \A s : IsDecision(commands[s])' = IsDecision(commands[s])
BY Zenon DEF First, Unresolved, IsDecision, Decisions

(* The commands are left alone.                                             *)
LEMMA SameCommandsFit ==
  ASSUME CommandsFit, UNCHANGED <<trip, activities, commands>>,
         \A p \in Proposals : proposals[p].state \in Seen => proposals'[p].state \in Seen
  PROVE  CommandsFit'
<1>1. ASSUME NEW s \in DOMAIN commands PROVE (MirrorFits(s) \/ RuntimeFits(s))'
  <2>1. CASE MirrorFits(s)
    BY Zenon, <2>1 DEF MirrorFits, CarriesPlan, Ids
  <2>2. CASE RuntimeFits(s)
    BY Zenon, <2>2, SameCommands DEF RuntimeFits, DecisionFits, runtimeMutationEvent
  <2> QED
    BY Zenon, <1>1, <2>1, <2>2 DEF CommandsFit
<1> QED
  BY Zenon, <1>1, SameCommands DEF CommandsFit

(* A planner that keeps its epoch and the shape of its record fits on.      *)
LEMMA PlannerFitsStill ==
  ASSUME PlannerFits, TripFits, trip'.epoch \in Nat, trip'.epoch >= trip.epoch,
         DOMAIN planner' = DOMAIN planner, DOMAIN planner'.v = DOMAIN planner.v,
         DOMAIN planner'.t = DOMAIN planner.t, planner'.v.epoch = planner.v.epoch,
         planner'.v.revision \in Nat, planner'.v.accepted \in Nat
  PROVE  PlannerFits'
<1>1. planner'.v.epoch \in Nat /\ planner'.v.epoch <= trip'.epoch
  BY DEF PlannerFits, TripFits
<1> QED
  BY Zenon, <1>1 DEF PlannerFits, Inactive, Inactivated

(* The planner has the same trip versions and the same plan.                *)
SameVersions ==
  /\ DOMAIN planner' = DOMAIN planner
  /\ DOMAIN planner'.v = DOMAIN planner.v /\ DOMAIN planner'.t = DOMAIN planner.t
  /\ planner'.v.epoch = planner.v.epoch /\ planner'.v.revision = planner.v.revision
  /\ planner'.v.accepted = planner.v.accepted
  /\ planner'.t.plan = planner.t.plan

(* The planner is left alone, but for its proposal.                         *)
LEMMA SamePlanner ==
  ASSUME PlannerFits, PlannerIsClose, UNCHANGED <<trip, activities, commands>>, SameVersions
  PROVE  PlannerFits' /\ PlannerIsClose' /\ Attached' = Attached
<1>1. Attached' = Attached
  BY Zenon DEF Attached, IsActive, SameVersions
<1>2. PlannerFits'
  BY Zenon DEF PlannerFits, Inactivated, Inactive, SameVersions
<1>3. PlannerIsClose'
  BY Zenon, <1>1, SameCommands DEF PlannerIsClose, Ids, SameVersions
<1> QED
  BY Zenon, <1>1, <1>2, <1>3

(* The trip is left alone, but for its sequences.                           *)
LEMMA SamePending ==
  ASSUME PendingProposalIsCurrent, ProposalsFit, Closes, TripFits,
         trip'.plan = trip.plan, trip'.revision = trip.revision, trip'.epoch = trip.epoch,
         trip'.finalized \in Nat, trip'.finalized >= trip.finalized
  PROVE  PendingProposalIsCurrent'
BY DEF PendingProposalIsCurrent, ProposalsFit, Closes, Over, TripFits

(* The trip is left alone.                                                  *)
LEMMA SameTrip ==
  ASSUME TripFits, PlansFit, UNCHANGED <<trip, plans>>
  PROVE  TripFits' /\ PlansFit'
BY Zenon DEF TripFits, PlansFit

(* A decision that is first is about a proposal that was stored.            *)
LEMMA FirstDecision ==
  ASSUME TripFits, CommandsFit, DOMAIN commands # {}, commands[First].order = "runtime_first",
         IsDecision(commands[First])
  PROVE  DecisionFits(commands[First].event)
<1>1. First \in DOMAIN commands
  BY Zenon, FirstCommand DEF TripFits
<1> QED
  BY Zenon, <1>1, OnlyCommand DEF RuntimeFits

(* The answer is left alone.                                                *)
LEMMA SameAnswer ==
  ASSUME TripFits, CommandsFit, AnswerShape, RefusedFits, AcceptedFits,
         UNCHANGED <<trip, activities, commands, answer>>, SameVersions,
         \/ planner'.t.proposal = planner.t.proposal
         \/ \A p \in Proposals : proposals[p].state \in Seen => planner'.t.proposal # p,
         Undisturbed /\ Attached /\ planner.v.revision = trip.revision + 1
           /\ DOMAIN commands # {} /\ DecisionFits(commands[First].event) => Undisturbed'
  PROVE  AnswerShape' /\ RefusedFits' /\ AcceptedFits'
<1>1. Attached' = Attached
  BY Zenon DEF Attached, IsActive, SameVersions
<1>2. AnswerShape'
  BY Zenon DEF AnswerShape, NoAnswer
<1>3. RefusedFits'
  BY Zenon, <1>1, SameCommands, FirstDecision DEF RefusedFits, SameVersions, DecisionFits, Refusal
<1>4. AcceptedFits'
  BY Zenon, <1>1, SameCommands, FirstDecision DEF AcceptedFits, SameVersions, HasTarget, Ids
<1> QED
  BY Zenon, <1>2, <1>3, <1>4

-----------------------------------------------------------------------------
(* The user prepares a decision                                             *)

(* PrepareProposalAcceptance keeps the invariant.                           *)
LEMMA PrepareStep ==
  ASSUME Inv, PrepareProposalAcceptance
  PROVE  Inv'
<1> USE DEF Inv
<1>1. UNCHANGED <<trip, plans, activities, commands, proposals, planner, answer, stream>>
  BY Zenon DEF PrepareProposalAcceptance, vars, canonical
<1>2. Closes /\ SameVersions
  BY Zenon, <1>1 DEF Closes, SameVersions, ProposalsFit
<1>3. TripFits' /\ PlansFit' /\ ProposalsFit' /\ CommandsFit' /\ StreamFits'
  BY Zenon, <1>1, <1>2, SameTrip, ClosesKeeps, ClosesStream, SameCommandsFit
<1>4. PlannerFits' /\ PlannerIsClose' /\ Attached' = Attached
  BY Zenon, <1>1, <1>2, SamePlanner
<1>5. Undisturbed' = Undisturbed
  BY Zenon, <1>1, SameCommands DEF Undisturbed
<1>6. AnswerShape' /\ RefusedFits' /\ AcceptedFits'
  BY Zenon, <1>1, <1>2, <1>5, SameAnswer
<1>7. ActiveFits'
  BY Zenon, <1>1, <1>4 DEF ActiveFits
<1>8. PendingProposalIsCurrent'
  BY Zenon, <1>1 DEF PendingProposalIsCurrent
<1>9. PreparedFits'
  <2>1. PICK p \in Proposals, kind \in Decisions :
          proposals[p].state = "pending" /\ prepared'.event = DecisionEvent(kind, p)
    BY DEF PrepareProposalAcceptance
  <2>2. /\ DecisionEvent(kind, p).proposal = p /\ DecisionEvent(kind, p).plan = None
        /\ DecisionEvent(kind, p).kind = kind
    BY Zenon DEF DecisionEvent
  <2> QED
    BY Zenon, <1>1, <2>1, <2>2 DEF PreparedFits, DecisionFits, Seen, Decisions
<1> QED
  BY Zenon, <1>3, <1>4, <1>6, <1>7, <1>8, <1>9

-----------------------------------------------------------------------------
(* The planner observes and publishes, the consumer stores                  *)

(* Observe keeps the invariant.                                             *)
LEMMA ObserveStep ==
  ASSUME Inv, Observe
  PROVE  Inv'
<1> USE DEF Inv
<1>1. UNCHANGED <<trip, plans, activities, commands, proposals, answer, stream, prepared>>
  BY Zenon DEF Observe, canonical, proposalVars
<1>2. SameVersions /\ planner'.t.proposal = None
  BY Zenon DEF Observe, PlannerFits, SameVersions, accept_observation, Inactive, Inactivated
<1>3. Closes
  BY Zenon, <1>1 DEF Closes, ProposalsFit
<1>4. /\ TripFits' /\ PlansFit' /\ ProposalsFit' /\ CommandsFit' /\ StreamFits'
      /\ PreparedFits'
  BY Zenon, <1>1, <1>3, SameTrip, ClosesKeeps, ClosesStream, ClosesPrepared, SameCommandsFit
<1>5. PlannerFits' /\ PlannerIsClose'
  BY Zenon, <1>1, <1>2, SamePlanner
<1>6. Undisturbed' = Undisturbed
  BY Zenon, <1>1, SameCommands DEF Undisturbed
<1>7. \A p \in Proposals : planner'.t.proposal # p
  BY Zenon, <1>2, CanonicalTripAssumption
<1>8. AnswerShape' /\ RefusedFits' /\ AcceptedFits'
  BY Zenon, <1>1, <1>2, <1>6, <1>7, SameAnswer
<1>9. ActiveFits'
  BY Zenon, <1>7 DEF ActiveFits
<1>10. PendingProposalIsCurrent'
  BY Zenon, <1>1 DEF PendingProposalIsCurrent
<1> QED
  BY Zenon, <1>4, <1>5, <1>8, <1>9, <1>10

(* What a published row is.                                                 *)
PublishedRow(plan, omitted) ==
  [state |-> "streamed", base |-> planner.plan, epoch |-> planner.v.epoch,
   psv |-> planner.v.psv, revision |-> planner.v.revision,
   seq |-> planner.v.accepted, plan |-> plan, omitted |-> omitted]

(* Publish keeps the invariant: a published id was not used before.         *)
LEMMA PublishStep ==
  ASSUME Inv, Publish
  PROVE  Inv'
<1> USE DEF Inv
<1>1. UNCHANGED <<trip, plans, activities, commands, answer, prepared>> /\ Attached
  BY Zenon DEF Publish, canonical
<1>2. PICK p, plan, omitted :
        /\ p \in Proposals /\ proposals[p] = NoProposal
        /\ proposals' = [proposals EXCEPT ![p] = PublishedRow(plan, omitted)]
        /\ planner' = [planner EXCEPT !.t.proposal = p]
        /\ stream' = Append(stream, p)
  BY Zenon DEF Publish, PublishedRow
<1>3. PICK row : row = PublishedRow(plan, omitted)
  BY Zenon
<1>4. /\ DOMAIN row = DOMAIN NoProposal /\ row.state = "streamed" /\ row.epoch = planner.v.epoch
      /\ row.revision = planner.v.revision /\ row.seq = planner.v.accepted
  BY Zenon, <1>3 DEF PublishedRow, NoProposal
<1>5. proposals[p].state = "unused"
  BY <1>2 DEF NoProposal
<1>6. /\ DOMAIN proposals' = Proposals /\ proposals'[p] = row
      /\ \A q \in Proposals : q # p => proposals'[q] = proposals[q]
  BY Zenon, <1>2, <1>3 DEF ProposalsFit
<1>7. \A q \in Proposals : proposals[q].state \in Seen => proposals'[q] = proposals[q]
  BY Zenon, <1>5, <1>6 DEF Seen
<1>8. SameVersions /\ planner'.t.proposal = p /\ planner'.v = planner.v
  BY Zenon, <1>2 DEF PlannerFits, SameVersions, Inactivated
<1>9. TripFits' /\ PlansFit' /\ CommandsFit'
  BY Zenon, <1>1, <1>7, SameTrip, SameCommandsFit
<1>10. ProposalsFit'
  BY <1>4, <1>6 DEF ProposalsFit, ProposalState, PlannerFits
<1>11. PreparedFits'
  BY Zenon, <1>1, <1>7 DEF PreparedFits, DecisionFits
<1>12. /\ stream' \in Seq(Proposals) /\ Len(stream') = Len(stream) + 1
       /\ stream'[Len(stream) + 1] = p
       /\ \A i \in 1 .. Len(stream) : stream'[i] = stream[i] /\ stream[i] \in Proposals /\ stream[i] # p
  BY <1>2, <1>5 DEF StreamFits
<1>13. StreamFits'
  BY <1>4, <1>6, <1>12 DEF StreamFits
<1>14. PlannerFits' /\ PlannerIsClose' /\ Attached' = Attached
  BY Zenon, <1>1, <1>8, SamePlanner
<1>15. ASSUME Undisturbed, DecisionFits(commands[First].event), DOMAIN commands # {},
              planner.v.revision = trip.revision + 1
       PROVE  Undisturbed'
  <2>1. \A i \in 1 .. Len(stream') : proposals'[stream'[i]].revision # trip.revision
    BY <1>4, <1>6, <1>12, <1>15 DEF Undisturbed, TripFits, StreamFits
  <2> QED
    BY Zenon, <1>1, <1>7, <1>15, <2>1, SameCommands DEF Undisturbed, DecisionFits
<1>16. \A q \in Proposals : proposals[q].state \in Seen => planner'.t.proposal # q
  BY Zenon, <1>5, <1>8 DEF Seen
<1>17. AnswerShape' /\ RefusedFits' /\ AcceptedFits'
  BY Zenon, <1>1, <1>8, <1>15, <1>16, SameAnswer
<1>18. ActiveFits'
  BY Zenon, <1>4, <1>6, <1>8, <1>12 DEF ActiveFits, Over, Seen
<1>19. PendingProposalIsCurrent'
  BY Zenon, <1>1, <1>4, <1>6 DEF PendingProposalIsCurrent
<1> QED
  BY Zenon, <1>9, <1>10, <1>11, <1>13, <1>14, <1>17, <1>18, <1>19

(* The consumer takes id: it is stored, and replaces the pending proposal,  *)
(* or it is dropped.                                                        *)
Stores(id) ==
  /\ sourceIsCurrent(proposals[id])
  /\ proposals' = [WithState(proposals, "pending", "superseded") EXCEPT ![id].state = "pending"]

Drops(id) == proposals' = [proposals EXCEPT ![id] = Closed("dropped")]

(* The proposals when the consumer stores one.                              *)
LEMMA StoredRows ==
  ASSUME ProposalsFit, NEW id \in Proposals, proposals[id].state = "streamed", Stores(id)
  PROVE  /\ DOMAIN proposals' = Proposals
         /\ proposals'[id].state = "pending" /\ DOMAIN proposals'[id] = DOMAIN NoProposal
         /\ proposals'[id].base = proposals[id].base /\ proposals'[id].epoch = proposals[id].epoch
         /\ proposals'[id].revision = proposals[id].revision /\ proposals'[id].seq = proposals[id].seq
         /\ \A q \in Proposals : q # id =>
              /\ proposals'[q].state # "pending"
              /\ \/ proposals'[q] = proposals[q]
                 \/ /\ proposals[q].state = "pending" /\ proposals'[q].state = "superseded"
                    /\ DOMAIN proposals'[q] = DOMAIN NoProposal /\ proposals'[q].seq = 0
<1>1. PICK closed : closed = WithState(proposals, "pending", "superseded")
  BY Zenon
<1>2. DOMAIN closed = Proposals
  BY Zenon, <1>1 DEF WithState
<1>3. \A q \in Proposals :
        closed[q] = IF proposals[q].state = "pending" THEN Closed("superseded") ELSE proposals[q]
  BY Zenon, <1>1 DEF WithState
<1>4. closed[id] = proposals[id]
  BY <1>3
<1>5. proposals' = [closed EXCEPT ![id].state = "pending"]
  BY Zenon, <1>1 DEF Stores
<1>6. PICK row : row = [proposals[id] EXCEPT !.state = "pending"]
  BY Zenon
<1>7. /\ DOMAIN proposals' = Proposals /\ proposals'[id] = row
      /\ \A q \in Proposals : q # id => proposals'[q] = closed[q]
  BY <1>2, <1>4, <1>5, <1>6
<1>8. {"state", "base", "epoch", "revision", "seq"} \subseteq DOMAIN proposals[id]
  <2>1. {"state", "base", "epoch", "revision", "seq"} \subseteq DOMAIN NoProposal
    BY Zenon DEF NoProposal
  <2> QED
    BY Zenon, <2>1 DEF ProposalsFit
<1>9. /\ row.state = "pending" /\ DOMAIN row = DOMAIN NoProposal
      /\ row.base = proposals[id].base /\ row.epoch = proposals[id].epoch
      /\ row.revision = proposals[id].revision /\ row.seq = proposals[id].seq
  BY Zenon, <1>6, <1>8 DEF ProposalsFit
<1>10. /\ Closed("superseded").state = "superseded" /\ Closed("superseded").seq = 0
       /\ DOMAIN Closed("superseded") = DOMAIN NoProposal
  BY Zenon, ClosedRow
<1> QED
  BY <1>3, <1>7, <1>9, <1>10

(* The proposals when the consumer drops one.                               *)
LEMMA DroppedRows ==
  ASSUME ProposalsFit, NEW id \in Proposals, Drops(id)
  PROVE  /\ DOMAIN proposals' = Proposals
         /\ proposals'[id].state = "dropped" /\ DOMAIN proposals'[id] = DOMAIN NoProposal
         /\ proposals'[id].seq = 0
         /\ \A q \in Proposals : q # id => proposals'[q] = proposals[q]
<1>1. /\ DOMAIN proposals' = Proposals /\ proposals'[id] = Closed("dropped")
      /\ \A q \in Proposals : q # id => proposals'[q] = proposals[q]
  BY Zenon DEF ProposalsFit, Drops
<1> QED
  BY Zenon, <1>1, ClosedRow

(* The rest of the stream once its head was taken.                          *)
LEMMA TakenFromStream ==
  ASSUME StreamFits, stream # <<>>, stream' = Tail(stream)
  PROVE  /\ Head(stream) \in Proposals /\ proposals[Head(stream)].state = "streamed"
         /\ Head(stream) = stream[1] /\ Len(stream) \in Nat /\ Len(stream) > 0
         /\ stream' \in Seq(Proposals) /\ Len(stream') = Len(stream) - 1
         /\ \A i \in 1 .. Len(stream') :
              stream'[i] = stream[i + 1] /\ stream'[i] \in Proposals /\ stream'[i] # Head(stream)
BY DEF StreamFits

(* Nor does the rest of the stream have a proposal twice.                   *)
LEMMA TakenOnce ==
  ASSUME StreamFits, stream # <<>>, stream' = Tail(stream),
         NEW i \in 1 .. Len(stream'), NEW j \in 1 .. Len(stream'), stream'[i] = stream'[j]
  PROVE  i = j
<1>1. /\ Len(stream) \in Nat /\ Len(stream') = Len(stream) - 1
      /\ stream'[i] = stream[i + 1] /\ stream'[j] = stream[j + 1]
  BY Zenon, TakenFromStream
<1>2. i + 1 \in 1 .. Len(stream) /\ j + 1 \in 1 .. Len(stream)
  BY <1>1
<1>3. i + 1 = j + 1
  BY Zenon, <1>1, <1>2 DEF StreamFits
<1> QED
  BY <1>3

(* Persist keeps the invariant: what it stores has the plan, revision and   *)
(* epoch of the trip.                                                       *)
LEMMA PersistStep ==
  ASSUME Inv, Persist
  PROVE  Inv'
<1> USE DEF Inv
<1>1. UNCHANGED <<trip, plans, activities, commands, planner, answer, prepared>>
      /\ stream # <<>> /\ stream' = Tail(stream)
  BY Zenon DEF Persist, canonical
<1>2. PICK id \in Proposals : id = Head(stream)
  BY Zenon, <1>1, TakenFromStream
<1>3. Stores(id) \/ Drops(id)
  BY Zenon, <1>2 DEF Persist, Stores, Drops
<1>4. /\ proposals[id].state = "streamed" /\ id = stream[1] /\ Len(stream) \in Nat /\ Len(stream) > 0
      /\ stream' \in Seq(Proposals) /\ Len(stream') = Len(stream) - 1
      /\ \A i \in 1 .. Len(stream') :
           stream'[i] = stream[i + 1] /\ stream'[i] \in Proposals /\ stream'[i] # id
  BY Zenon, <1>1, <1>2, TakenFromStream
<1>5. /\ DOMAIN proposals' = Proposals /\ DOMAIN proposals'[id] = DOMAIN NoProposal
      /\ proposals'[id].seq \in Nat /\ proposals'[id].state \in {"pending", "dropped"}
      /\ \A q \in Proposals : q # id =>
           \/ proposals'[q] = proposals[q]
           \/ /\ proposals[q].state = "pending" /\ proposals'[q].state = "superseded"
              /\ DOMAIN proposals'[q] = DOMAIN NoProposal /\ proposals'[q].seq = 0
  BY <1>3, <1>4, StoredRows, DroppedRows DEF ProposalsFit
<1>6. \A q \in Proposals : proposals[q].state \in Seen => proposals'[q].state \in Seen
  BY <1>4, <1>5 DEF Seen
<1>7. \A q \in Proposals : q # id /\ proposals[q].state \notin Seen => proposals'[q] = proposals[q]
  BY Zenon, <1>5 DEF Seen
<1>8. TripFits' /\ PlansFit' /\ CommandsFit' /\ PreparedFits'
  BY Zenon, <1>1, <1>6, SameTrip, SameCommandsFit DEF PreparedFits, DecisionFits
<1>9. SameVersions
  BY Zenon, <1>1 DEF SameVersions
<1>10. PlannerFits' /\ PlannerIsClose' /\ Attached' = Attached
  BY Zenon, <1>1, <1>9, SamePlanner
<1>11. ProposalsFit'
  <2>1. \A p, q \in Proposals :
          proposals'[p].state = "pending" /\ proposals'[q].state = "pending" => p = q
    BY <1>3, <1>4, StoredRows, DroppedRows DEF ProposalsFit
  <2> QED
    BY <1>5, <2>1 DEF ProposalsFit, ProposalState
<1>12. \A i \in 1 .. Len(stream') : proposals'[stream'[i]] = proposals[stream'[i]]
                                   /\ proposals[stream'[i]].state = "streamed"
  BY <1>4, <1>7 DEF StreamFits, Seen
<1>13. StreamFits'
  <2>1. ASSUME NEW i \in 1 .. Len(stream'), NEW j \in 1 .. Len(stream'), stream'[i] = stream'[j]
        PROVE  i = j
    BY Zenon, <1>1, <2>1, TakenOnce
  <2> QED
    BY Zenon, <1>4, <1>12, <2>1 DEF StreamFits
<1>14. ASSUME Undisturbed, DecisionFits(commands[First].event)
       PROVE  Undisturbed'
  <2>1. ~Stores(id)
    BY <1>4, <1>14 DEF Undisturbed, Stores, sourceIsCurrent
  <2>2. Drops(id)
    BY Zenon, <1>3, <2>1
  <2>3. \A i \in 1 .. Len(stream') : proposals'[stream'[i]].revision # trip.revision
    BY <1>4, <1>12, <1>14 DEF Undisturbed
  <2> QED
    BY <1>1, <1>4, <1>14, <2>2, <2>3, DroppedRows, SameCommands DEF Undisturbed, DecisionFits
<1>15. AnswerShape' /\ RefusedFits' /\ AcceptedFits'
  BY Zenon, <1>1, <1>9, <1>14, SameAnswer
<1>16. ActiveFits'
  <2> SUFFICES ASSUME NEW p \in Proposals, planner'.t.proposal = p
               PROVE  /\ stream' = <<>> \/ stream'[Len(stream')] = p
                      /\ proposals'[p].state = "streamed" =>
                           /\ proposals'[p].revision = planner'.v.revision
                           /\ proposals'[p].epoch = planner'.v.epoch
                      /\ proposals'[p].state \in Over /\ Attached' => planner'.v.revision < trip'.revision
                      /\ Attached' /\ planner'.v.revision > trip'.revision => proposals'[p].state \notin Seen
    BY Zenon DEF ActiveFits
  <2>1. planner.t.proposal = p /\ stream[Len(stream)] = p
    BY Zenon, <1>1 DEF ActiveFits
  <2>2. CASE p = id
    <3>1. Len(stream) = 1
      BY <1>4, <2>1, <2>2 DEF StreamFits
    <3>2. stream' = <<>>
      BY <1>4, <3>1
    <3>3. CASE Stores(id)
      BY <1>1, <1>4, <1>10, <2>1, <2>2, <3>2, <3>3, StoredRows
        DEF ActiveFits, Stores, sourceIsCurrent, Over, TripFits
    <3>4. CASE Drops(id)
      BY Zenon, <1>4, <2>2, <3>2, <3>4, DroppedRows DEF Over, Seen
    <3> QED
      BY Zenon, <1>3, <3>3, <3>4
  <2>3. CASE p # id
    <3>1. Len(stream) > 1 /\ stream'[Len(stream')] = p
      BY <1>4, <2>1, <2>3
    <3>2. proposals'[p] = proposals[p]
      BY <1>4, <1>12, <3>1
    <3> QED
      BY Zenon, <1>1, <1>10, <2>1, <3>1, <3>2 DEF ActiveFits
  <2> QED
    BY Zenon, <2>2, <2>3
<1>17. PendingProposalIsCurrent'
  <2>1. CASE Stores(id)
    BY <1>1, <1>4, <2>1, StoredRows DEF PendingProposalIsCurrent, Stores, sourceIsCurrent
  <2>2. CASE Drops(id)
    BY <1>1, <1>4, <2>2, DroppedRows DEF PendingProposalIsCurrent
  <2> QED
    BY Zenon, <1>3, <2>1, <2>2
<1> QED
  BY <1>8, <1>10, <1>11, <1>13, <1>15, <1>16, <1>17

-----------------------------------------------------------------------------
(* Commands are recorded                                                    *)

(* The first of consecutive commands.                                       *)
LEMMA LeastOf ==
  ASSUME NEW rows, NEW lo \in Nat, NEW hi \in Nat, lo <= hi, DOMAIN rows = lo .. hi
  PROVE  (CHOOSE seq \in DOMAIN rows : \A other \in DOMAIN rows : seq <= other) = lo
<1>1. lo \in DOMAIN rows /\ \A other \in DOMAIN rows : lo <= other
  OBVIOUS
<1>2. ASSUME NEW seq \in DOMAIN rows, \A other \in DOMAIN rows : seq <= other PROVE seq = lo
  BY <1>1, <1>2
<1> QED
  BY <1>1, <1>2

(* The domain and the rows of Recorded.                                     *)
LEMMA RecordedRows ==
  ASSUME TripFits, CommandsFit, NEW row, commands' = Recorded(row)
  PROVE  /\ DOMAIN commands' = DOMAIN commands \cup {trip.next}
         /\ commands'[trip.next] = row
         /\ \A s \in DOMAIN commands : s # trip.next /\ commands'[s] = commands[s]
         /\ \E first \in Nat : first <= trip.next /\ DOMAIN commands' = first .. trip.next
<1>1. PICK first \in Nat : DOMAIN commands = first .. trip.next - 1
  BY DEF CommandsFit
<1>2. trip.next \in Nat /\ trip.next \notin DOMAIN commands
  BY <1>1 DEF TripFits
<1>3. DOMAIN commands' = DOMAIN commands \cup {trip.next}
  BY DEF Recorded
<1>4. \A s \in DOMAIN commands \cup {trip.next} :
        commands'[s] = IF s = trip.next THEN row ELSE commands[s]
  BY DEF Recorded
<1>5. \E least \in Nat : least <= trip.next /\ DOMAIN commands' = least .. trip.next
  <2>1. CASE first <= trip.next
    <3>1. DOMAIN commands' = first .. trip.next
      BY <1>1, <1>2, <1>3, <2>1
    <3> QED
      BY <2>1, <3>1
  <2>2. CASE first > trip.next
    <3>1. DOMAIN commands = {}
      BY <1>1, <1>2, <2>2
    <3>2. DOMAIN commands' = trip.next .. trip.next
      BY <1>2, <1>3, <3>1
    <3> QED
      BY <1>2, <3>2
  <2> QED
    BY <1>2, <2>1, <2>2
<1> QED
  BY <1>2, <1>3, <1>4, <1>5

(* RecordRuntimeFirst keeps the invariant.                                  *)
LEMMA RecordStep ==
  ASSUME Inv, NEW event, NEW expected, NEW planned, RecordRuntimeFirst(event, expected, planned),
         IF event.kind \in Decisions THEN DecisionFits(event) ELSE event \in runtimeMutationEvent,
         UNCHANGED stream, PreparedFits'
  PROVE  Inv'
<1> USE DEF Inv
<1>1. UNCHANGED <<plans, activities, delays, proposals, planner, answer>>
      /\ DOMAIN commands = {} /\ expected = trip.revision /\ trip.next \in Nat
  BY DEF RecordRuntimeFirst, TripFits
<1>2. /\ DOMAIN trip' = DOMAIN trip /\ trip'.next = trip.next + 1 /\ trip'.revision = trip.revision
      /\ trip'.finalized = trip.finalized /\ trip'.epoch = trip.epoch /\ trip'.plan = trip.plan
  BY DEF RecordRuntimeFirst, TripFits
<1>3. PICK row : row = Row("runtime_first", event, expected, planned)
  BY Zenon
<1>4. /\ DOMAIN row = {"order", "expected", "event", "state", "plan"} /\ row.order = "runtime_first"
      /\ row.expected = expected /\ row.event = event
  BY <1>3 DEF Row
<1> PICK n : n = trip.next
  OBVIOUS
<1>5. DOMAIN commands' = {n} /\ commands'[n] = row
  <2>1. commands' = Recorded(row)
    BY Zenon, <1>3 DEF RecordRuntimeFirst
  <2> QED
    BY Zenon, <1>1, <2>1, RecordedRows
<1>6. Unresolved("runtime_first") = {} /\ trip.finalized + 1 = trip.next
  BY <1>1 DEF Unresolved, CommandsFit
<1>7. answer = NoAnswer /\ answer.status = "none"
  BY Zenon, <1>1 DEF AnswerShape
<1>8. TripFits' /\ PlansFit'
  BY <1>1, <1>2 DEF TripFits, PlansFit
<1>9. Closes
  BY Zenon, <1>1 DEF Closes, ProposalsFit
<1>10. ProposalsFit' /\ StreamFits'
  BY Zenon, <1>9, ClosesKeeps, ClosesStream
<1>11. RuntimeFits(n)'
  <2>1. IsDecision(commands[n])' <=> event.kind \in Decisions
    BY <1>4, <1>5 DEF IsDecision, Decisions
  <2>2. IF IsDecision(commands[n])' THEN DecisionFits(event)'
        ELSE commands'[n].event \in runtimeMutationEvent
    BY Zenon, <1>1, <1>4, <1>5, <2>1 DEF DecisionFits
  <2> QED
    BY Zenon, <1>1, <1>2, <1>4, <1>5, <1>6, <2>2 DEF RuntimeFits, DecisionFits, runtimeMutationEvent
<1>12. CommandsFit'
  <2>1. DOMAIN commands' = n .. trip'.next - 1
    BY <1>1, <1>2, <1>5
  <2>2. n \in Unresolved("runtime_first")'
    BY <1>4, <1>5 DEF Unresolved
  <2>3. \E first \in Nat : DOMAIN commands' = first .. trip'.next - 1
    BY Zenon, <1>1, <2>1
  <2> QED
    BY Zenon, <1>4, <1>5, <1>11, <2>2, <2>3 DEF CommandsFit
<1>13. Attached' = Attached
  BY <1>1, <1>2 DEF Attached, IsActive
<1>14. PlannerFits' /\ PlannerIsClose'
  BY Zenon, <1>1, <1>2, <1>6, <1>13 DEF PlannerFits, PlannerIsClose, Ids, Inactive, Inactivated
<1>15. ActiveFits'
  BY <1>1, <1>2, <1>13 DEF ActiveFits
<1>16. AnswerShape' /\ RefusedFits' /\ AcceptedFits'
  BY Zenon, <1>1, <1>5, <1>7 DEF AnswerShape, NoAnswer, RefusedFits, AcceptedFits, Refusal
<1>17. PendingProposalIsCurrent'
  BY Zenon, <1>1, <1>2 DEF PendingProposalIsCurrent
<1> QED
  BY Zenon, <1>8, <1>10, <1>12, <1>14, <1>15, <1>16, <1>17

(* Mutate keeps the invariant.                                              *)
LEMMA MutateStep ==
  ASSUME Inv, Mutate, UNCHANGED proposalVars
  PROVE  Inv'
<1>1. PICK event \in runtimeMutationEvent : RecordRuntimeFirst(event, trip.revision, NoPlan)
  BY Zenon DEF Mutate
<1>2. event.kind \notin Decisions
  BY <1>1 DEF runtimeMutationEvent, Decisions
<1>3. UNCHANGED <<stream, prepared, proposals>>
  BY Zenon, <1>1 DEF proposalVars, RecordRuntimeFirst
<1>4. PreparedFits'
  BY Zenon, <1>3 DEF Inv, PreparedFits, DecisionFits
<1> QED
  BY Zenon, <1>1, <1>2, <1>3, <1>4, RecordStep

(* RecordDecision keeps the invariant: it decides a proposal that was stored. *)
LEMMA RecordDecisionStep ==
  ASSUME Inv, RecordDecision
  PROVE  Inv'
<1>1. prepared # NotPrepared /\ prepared' = NotPrepared /\ UNCHANGED stream
  BY DEF RecordDecision
<1>2. PreparedFits'
  BY <1>1 DEF PreparedFits
<1>3. CASE RecordRuntimeFirst(prepared.event, prepared.expected, prepared.plan)
  <2>1. prepared.event.kind \in Decisions /\ DecisionFits(prepared.event)
    BY <1>1 DEF Inv, PreparedFits
  <2>2. PICK event, expected, planned :
          event = prepared.event /\ expected = prepared.expected /\ planned = prepared.plan
    OBVIOUS
  <2>3. RecordRuntimeFirst(event, expected, planned) /\ event.kind \in Decisions /\ DecisionFits(event)
    BY <1>3, <2>1, <2>2
  <2> QED
    BY <1>1, <1>2, <2>3, RecordStep
<1>4. CASE UNCHANGED vars
  <2> USE DEF Inv
  <2>1. UNCHANGED <<trip, plans, activities, commands, proposals, planner, answer, stream>>
    BY Zenon, <1>1, <1>4 DEF vars, canonical
  <2>2. Closes /\ SameVersions
    BY Zenon, <2>1 DEF Closes, SameVersions, ProposalsFit
  <2>3. TripFits' /\ PlansFit' /\ ProposalsFit' /\ CommandsFit' /\ StreamFits'
    BY Zenon, <2>1, <2>2, SameTrip, ClosesKeeps, ClosesStream, SameCommandsFit
  <2>4. PlannerFits' /\ PlannerIsClose' /\ Attached' = Attached
    BY Zenon, <2>1, <2>2, SamePlanner
  <2>5. Undisturbed' = Undisturbed
    BY Zenon, <2>1, SameCommands DEF Undisturbed
  <2>6. AnswerShape' /\ RefusedFits' /\ AcceptedFits'
    BY Zenon, <2>1, <2>2, <2>5, SameAnswer
  <2>7. ActiveFits' /\ PendingProposalIsCurrent'
    BY Zenon, <2>1, <2>4 DEF ActiveFits, PendingProposalIsCurrent
  <2> QED
    BY <1>2, <2>3, <2>4, <2>6, <2>7
<1> QED
  BY <1>3, <1>4 DEF RecordDecision

(* Commit keeps the invariant: the new plan has a new revision, and no      *)
(* proposal stays pending.                                                  *)
LEMMA CommitStep ==
  ASSUME Inv, UNCHANGED proposalVars, Unresolved("runtime_first") = {},
         NEW event, NEW acts, NEW dels, NEW segments, Commit(event, acts, dels, segments),
         CarriesPlan(event, segments), ToSet(segments) = DOMAIN acts
  PROVE  Inv'
<1> USE DEF Inv
<1>1. UNCHANGED <<planner, answer, stream, prepared>> /\ activities' = acts
      /\ plans' = plans \cup {trip.revision + 1}
  BY DEF Commit, proposalVars
<1>2. /\ DOMAIN trip' = DOMAIN trip /\ trip'.next = trip.next + 1 /\ trip'.revision = trip.revision + 1
      /\ trip'.finalized = trip.next /\ trip'.epoch = trip.epoch
  BY DEF Commit, TripFits
<1>3. ClosesAll
  BY WithStateCloses DEF Commit, Over, Seen
<1>4. PICK n, revision : n = trip.next /\ revision = trip.revision
  OBVIOUS
<1>5. PICK row : row = Row("canonical_first", event, revision,
                           [revision |-> revision + 1, segments |-> segments])
  OBVIOUS
<1>6. /\ DOMAIN row = {"order", "expected", "event", "state", "plan"} /\ row.order = "canonical_first"
      /\ row.expected = revision /\ row.event = event /\ row.plan.segments = segments
  BY Zenon, <1>5 DEF Row
<1>7. /\ DOMAIN commands' = DOMAIN commands \cup {n} /\ commands'[n] = row
      /\ \A s \in DOMAIN commands : s # n /\ commands'[s] = commands[s]
      /\ \E first \in Nat : first <= n /\ DOMAIN commands' = first .. n
  <2>1. commands' = Recorded(row)
    BY Zenon, <1>4, <1>5 DEF Commit
  <2> QED
    BY Zenon, <1>4, <2>1, RecordedRows
<1>8. TripFits' /\ n \in Nat /\ revision \in Nat
  BY <1>2, <1>4 DEF TripFits
<1>9. PlansFit'
  <2>1. \A r \in plans : r \in Nat /\ r <= revision
    BY <1>4 DEF PlansFit
  <2>2. \A r \in plans' : r \in Nat /\ r <= revision + 1
    BY <1>1, <1>4, <1>8, <2>1
  <2>3. revision + 1 \in plans'
    BY Zenon, <1>1, <1>4
  <2> QED
    BY Zenon, <1>2, <1>4, <2>2, <2>3 DEF PlansFit
<1>10. Closes
  BY Zenon, <1>3 DEF ClosesAll
<1>11. ProposalsFit' /\ StreamFits' /\ PreparedFits'
  BY Zenon, <1>1, <1>10, ClosesKeeps, ClosesStream, ClosesPrepared
<1>12. ASSUME NEW s \in DOMAIN commands'
       PROVE  MirrorFits(s)' /\ DOMAIN commands'[s] = {"order", "expected", "event", "state", "plan"}
  <2>1. CASE s = n
    <3>1. commands'[s] = row /\ trip'.revision = revision + 1 /\ Ids' = DOMAIN acts
      BY Zenon, <1>1, <1>2, <1>4, <1>7, <2>1 DEF Ids
    <3>2. revision < revision + 1
      BY <1>8
    <3> QED
      BY <1>6, <1>8, <3>1, <3>2 DEF MirrorFits, CarriesPlan
  <2>2. CASE s # n
    <3>1. s \in DOMAIN commands /\ commands'[s] = commands[s]
      BY Zenon, <1>7, <2>2
    <3>2. MirrorFits(s)
      BY Zenon, <3>1 DEF CommandsFit, RuntimeFits, Unresolved
    <3>3. commands[s].expected \in Nat /\ commands[s].expected < revision
      BY Zenon, <1>4, <3>2 DEF MirrorFits
    <3>4. commands[s].expected + 1 # trip'.revision /\ commands[s].expected < trip'.revision
      BY <1>2, <1>4, <1>8, <3>3
    <3> QED
      BY Zenon, <3>1, <3>2, <3>4 DEF MirrorFits, CarriesPlan, CommandsFit
  <2> QED
    BY Zenon, <2>1, <2>2
<1>13. CommandsFit'
  <2>1. \E first \in Nat : DOMAIN commands' = first .. trip'.next - 1
    <3>1. n = trip'.next - 1
      BY <1>2, <1>4, <1>8
    <3> QED
      BY Zenon, <1>7, <3>1
  <2>2. trip'.finalized + 1 = trip'.next
    BY Zenon, <1>2, <1>4, <1>8
  <2> QED
    BY Zenon, <1>12, <2>1, <2>2 DEF CommandsFit
<1>14. Attached' = Attached
  BY Zenon, <1>1, <1>2 DEF Attached, IsActive
<1>15. Attached => /\ planner.v.revision < trip'.revision
                   /\ ~(planner.v.revision > trip'.revision) /\ ~(planner.v.revision >= trip'.revision)
  <2>1. planner.v.revision \in Nat /\ trip'.revision = revision + 1
    BY Zenon, <1>2, <1>4 DEF PlannerFits
  <2>2. Attached /\ planner.v.revision > revision => planner.v.revision = revision + 1 /\ FALSE
    BY Zenon, <1>4 DEF PlannerIsClose
  <2> QED
    BY <1>8, <2>1, <2>2
<1>16. PlannerFits' /\ PlannerIsClose'
  <2>1. PlannerFits'
    BY <1>1, <1>2, <1>8, PlannerFitsStill DEF PlannerFits, TripFits
  <2> QED
    BY Zenon, <1>1, <1>14, <1>15, <2>1 DEF PlannerIsClose
<1>17. ActiveFits'
  <2>1. \A p \in Proposals : proposals'[p].state = "streamed" => proposals'[p] = proposals[p]
    BY Zenon, <1>10 DEF Closes, Over, Seen
  <2> QED
    BY Zenon, <1>1, <1>14, <1>15, <2>1 DEF ActiveFits
<1>18. commands'[First'].order = "canonical_first" /\ DOMAIN commands' # {}
  <2>1. PICK first \in Nat : first <= n /\ DOMAIN commands' = first .. n
    BY <1>7
  <2>2. First' = first
    BY <1>8, <2>1, LeastOf DEF First
  <2> QED
    BY <1>8, <1>12, <2>1, <2>2 DEF MirrorFits
<1>19. AnswerShape' /\ RefusedFits' /\ AcceptedFits'
  BY Zenon, <1>1, <1>18 DEF AnswerShape, NoAnswer, RefusedFits, AcceptedFits
<1>20. PendingProposalIsCurrent'
  BY Zenon, <1>3 DEF PendingProposalIsCurrent, ClosesAll
<1> QED
  BY Zenon, <1>8, <1>9, <1>11, <1>13, <1>16, <1>17, <1>19, <1>20

(* Each edit commits a plan that covers the activities it results in.       *)
LEMMA EditCommits ==
  ASSUME Edit
  PROVE  \E event, acts, dels, segments :
           /\ Commit(event, acts, dels, segments)
           /\ CarriesPlan(event, segments) /\ ToSet(segments) = DOMAIN acts
<1>1. CASE \E s \in Orderings(Ids) : ReplaceCurrentPlan(s)
  <2>1. PICK s : ReplaceCurrentPlan(s)
    BY Zenon, <1>1
  <2>2. ToSet(s) = DOMAIN activities
    BY <2>1
       DEF ReplaceCurrentPlan, CanReplaceCurrentPlan, validateReplacementPlan, CoversExactly, StateOf
  <2>3. CarriesPlan(PlanReplaced(s), s)
    BY Zenon DEF CarriesPlan, PlanReplaced
  <2> QED
    BY <2>1, <2>2, <2>3 DEF ReplaceCurrentPlan
<1>2. CASE \E o, s \in Orderings(Ids) : ReorderActivities(o, s)
  <2>1. PICK o, s : ReorderActivities(o, s)
    BY <1>2
  <2>2. ToSet(s) = DOMAIN Numbered(o, StateOf(activities))
    BY Zenon, <2>1 DEF ReorderActivities, CanReorderActivities, validateReplacementPlan, CoversExactly,
                StateOf, Numbered
  <2>3. CarriesPlan(Edited([kind |-> "reorder", order |-> o, plan |-> s]), s)
    BY Zenon DEF CarriesPlan, Edited, EditKinds
  <2> QED
    BY Zenon, <2>1, <2>2, <2>3 DEF ReorderActivities
<1>3. CASE \E a \in Ids : \E s \in Orderings(Ids \ {a}) : RemoveActivity(a, s)
  <2>1. PICK a, s : RemoveActivity(a, s)
    BY Zenon, <1>3
  <2>2. ToSet(s) = DOMAIN Numbered(Without(a), WithoutState(a))
    BY Zenon, <2>1
       DEF RemoveActivity, CanRemoveActivity, validateReplacementPlan, CoversExactly, Numbered
  <2>3. CarriesPlan(Edited([kind |-> "remove", activity |-> a, plan |-> s]), s)
    BY Zenon DEF CarriesPlan, Edited, EditKinds
  <2> QED
    BY <2>1, <2>2, <2>3 DEF RemoveActivity
<1>4. CASE \E a \in Ids, st \in ActivityState : \E s \in Orderings(Ids) : ReplaceActivity(a, st, s)
  <2>1. PICK a, st, s : ReplaceActivity(a, st, s)
    BY Zenon, <1>4
  <2>2. ToSet(s) = DOMAIN Replaced(a, st)
    BY Zenon, <2>1
       DEF ReplaceActivity, CanReplaceActivity, validateReplacementPlan, CoversExactly, StateOf
  <2>3. CarriesPlan(Edited([kind |-> "replace", activity |-> a, state |-> st, plan |-> s]), s)
    BY Zenon DEF CarriesPlan, Edited, EditKinds
  <2> QED
    BY <2>1, <2>2, <2>3 DEF ReplaceActivity
<1>5. CASE \E a \in Activities \ Ids, st \in ActivityState, o \in 0 .. Cardinality(Ids) :
             \E s \in Orderings(Ids \cup {a}) : AddActivity(a, st, o, s)
  <2>1. PICK a, st, o, s : AddActivity(a, st, o, s)
    BY Zenon, <1>5
  <2>2. ToSet(s) = DOMAIN Numbered(InsertAt(InOrder(activities), o + 1, a), WithAdded(a, st))
    BY Zenon, <2>1 DEF AddActivity, CanAddActivity, validateReplacementPlan, CoversExactly, Numbered
  <2>3. CarriesPlan(Edited([kind |-> "add", activity |-> a, state |-> st, ordinal |-> o,
                            plan |-> s]), s)
    BY Zenon DEF CarriesPlan, Edited, EditKinds
  <2> QED
    BY <2>1, <2>2, <2>3 DEF AddActivity
<1> QED
  BY Zenon, <1>1, <1>2, <1>3, <1>4, <1>5 DEF Edit

(* Every edit keeps the invariant.                                          *)
LEMMA EditStep ==
  ASSUME Inv, Edit, UNCHANGED proposalVars
  PROVE  Inv'
<1>1. PICK event, acts, dels, segments :
        /\ Commit(event, acts, dels, segments)
        /\ CarriesPlan(event, segments) /\ ToSet(segments) = DOMAIN acts
  BY Zenon, EditCommits
<1>2. Unresolved("runtime_first") = {}
  BY DEF Edit, Admits
<1> QED
  BY <1>1, <1>2, CommitStep

-----------------------------------------------------------------------------
(* An answer is dropped, or settles a mirror                                *)

(* The dispatcher holds no answer.                                          *)
LEMMA NoAnswerFits ==
  ASSUME answer' = NoAnswer
  PROVE  AnswerShape' /\ RefusedFits' /\ AcceptedFits'
BY Zenon DEF AnswerShape, RefusedFits, AcceptedFits, NoAnswer, Refusal

(* What is left to show of a step that drops the answer, and leaves trip,   *)
(* plans, proposals, planner and stream alone.                              *)
LEMMA DroppedAnswer ==
  ASSUME Inv, UNCHANGED <<canonical, proposals, planner, proposalVars>>, answer' = NoAnswer,
         CommandsFit', PlannerIsClose'
  PROVE  Inv'
<1> USE DEF Inv
<1>1. UNCHANGED <<trip, plans, activities, stream, prepared>>
  BY Zenon DEF canonical, proposalVars
<1>2. Closes /\ SameVersions
  BY Zenon DEF Closes, SameVersions, ProposalsFit
<1>3. TripFits' /\ PlansFit' /\ ProposalsFit' /\ StreamFits' /\ PreparedFits'
  BY Zenon, <1>1, <1>2, SameTrip, ClosesKeeps, ClosesStream, ClosesPrepared
<1>4. PlannerFits' /\ Attached' = Attached
  BY Zenon, <1>1 DEF PlannerFits, Inactive, Inactivated, Attached, IsActive
<1>5. ActiveFits' /\ PendingProposalIsCurrent'
  BY <1>1, <1>4 DEF ActiveFits, PendingProposalIsCurrent
<1> QED
  BY Zenon, <1>3, <1>4, <1>5, NoAnswerFits

(* LoseAnswer keeps the invariant.                                          *)
LEMMA LoseAnswerStep ==
  ASSUME Inv, LoseAnswer, UNCHANGED proposalVars
  PROVE  Inv'
<1>1. UNCHANGED <<canonical, proposals, planner, commands>> /\ answer' = NoAnswer
  BY Zenon DEF LoseAnswer
<1>2. UNCHANGED <<trip, activities, commands>> /\ SameVersions
  BY Zenon, <1>1 DEF canonical, SameVersions
<1>3. CommandsFit' /\ PlannerIsClose'
  BY Zenon, <1>1, <1>2, SameCommandsFit, SamePlanner DEF Inv
<1> QED
  BY Zenon, <1>1, <1>3, DroppedAnswer

(* Pause keeps the invariant.                                               *)
LEMMA PauseStep ==
  ASSUME Inv, Pause, UNCHANGED proposalVars
  PROVE  Inv'
<1>1. UNCHANGED <<canonical, proposals, planner>> /\ answer' = NoAnswer
      /\ commands' = [commands EXCEPT ![First].state = "paused_internal"]
  BY Zenon DEF Pause
<1>2. UNCHANGED <<trip, activities>>
  BY Zenon, <1>1 DEF canonical
<1>3. DOMAIN commands' = DOMAIN commands
  BY Zenon, <1>1
<1>4. ASSUME NEW s \in DOMAIN commands
      PROVE  /\ commands'[s].order = commands[s].order /\ commands'[s].expected = commands[s].expected
             /\ commands'[s].event = commands[s].event /\ commands'[s].plan = commands[s].plan
             /\ DOMAIN commands'[s] = DOMAIN commands[s]
             /\ DOMAIN commands[s] = {"order", "expected", "event", "state", "plan"}
  <2>1. DOMAIN commands[s] = {"order", "expected", "event", "state", "plan"}
    BY Zenon DEF Inv, CommandsFit
  <2>2. commands'[s] = commands[s] \/ commands'[s] = [commands[s] EXCEPT !.state = "paused_internal"]
    BY Zenon, <1>1
  <2> QED
    BY Zenon, <2>1, <2>2
<1>5. First' = First /\ Unresolved("runtime_first")' = Unresolved("runtime_first")
  BY Zenon, <1>3, <1>4 DEF First, Unresolved
<1>6. ASSUME NEW s \in DOMAIN commands PROVE (MirrorFits(s) \/ RuntimeFits(s))'
  <2>1. CASE MirrorFits(s)
    BY Zenon, <1>2, <1>4, <2>1 DEF MirrorFits, CarriesPlan, Ids
  <2>2. CASE RuntimeFits(s)
    BY <1>1, <1>2, <1>3, <1>4, <2>2
      DEF RuntimeFits, DecisionFits, IsDecision, Decisions, runtimeMutationEvent
  <2> QED
    BY <2>1, <2>2 DEF Inv, CommandsFit
<1>7. CommandsFit'
  BY <1>2, <1>3, <1>4, <1>5, <1>6 DEF Inv, CommandsFit
<1>8. PlannerIsClose'
  BY Zenon, <1>1, <1>2, <1>5 DEF Inv, PlannerIsClose, Attached, IsActive, Ids
<1> QED
  BY Zenon, <1>1, <1>7, <1>8, DroppedAnswer

(* The rows that are left once the first command is resolved.               *)
LEMMA ResolvedRows ==
  ASSUME TripFits, CommandsFit, DOMAIN commands # {}, commands' = AfterFirst
  PROVE  /\ First \in DOMAIN commands /\ First + 1 \in Nat
         /\ DOMAIN commands' = DOMAIN commands \ {First}
         /\ DOMAIN commands' = First + 1 .. trip.next - 1
         /\ \A s \in DOMAIN commands' : commands'[s] = commands[s]
<1>1. First \in Nat /\ DOMAIN commands = First .. trip.next - 1 /\ First < trip.next
  BY FirstCommand
<1>2. /\ DOMAIN commands' = DOMAIN commands \ {First}
      /\ \A s \in DOMAIN commands' : commands'[s] = commands[s]
  BY DEF AfterFirst
<1> QED
  BY <1>1, <1>2 DEF TripFits

(* FinalizeCanonicalMirror keeps the invariant.                             *)
LEMMA FinalizeMirrorStep ==
  ASSUME Inv, FinalizeCanonicalMirror, UNCHANGED proposalVars
  PROVE  Inv'
<1>1. UNCHANGED <<canonical, proposals, planner>> /\ answer' = NoAnswer /\ commands' = AfterFirst
      /\ commands[First].order = "canonical_first" /\ answer # NoAnswer
  BY Zenon DEF FinalizeCanonicalMirror, Settled
<1>2. UNCHANGED <<trip, activities>>
  BY Zenon, <1>1 DEF canonical
<1>3. /\ First \in DOMAIN commands /\ First + 1 \in Nat
      /\ DOMAIN commands' = DOMAIN commands \ {First}
      /\ DOMAIN commands' = First + 1 .. trip.next - 1
      /\ \A s \in DOMAIN commands' : commands'[s] = commands[s]
  BY <1>1, ResolvedRows DEF Inv, AnswerShape
<1>4. Unresolved("runtime_first") = {}
  BY Zenon, <1>1, OnlyCommand DEF Inv, Unresolved
<1>5. ASSUME NEW s \in DOMAIN commands'
      PROVE  MirrorFits(s)' /\ DOMAIN commands'[s] = {"order", "expected", "event", "state", "plan"}
  <2>1. MirrorFits(s) /\ DOMAIN commands[s] = {"order", "expected", "event", "state", "plan"}
    BY Zenon, <1>3, <1>4 DEF Inv, CommandsFit, RuntimeFits, Unresolved
  <2> QED
    BY Zenon, <1>2, <1>3, <2>1 DEF MirrorFits, CarriesPlan, Ids
<1>6. CommandsFit'
  <2>1. \E first \in Nat : DOMAIN commands' = first .. trip'.next - 1
    BY <1>2, <1>3
  <2>2. trip'.finalized + 1 = trip'.next
    BY Zenon, <1>2, <1>4 DEF Inv, CommandsFit
  <2> QED
    BY Zenon, <1>5, <2>1, <2>2 DEF CommandsFit
<1>7. PlannerIsClose'
  BY <1>1, <1>2, <1>4 DEF Inv, PlannerIsClose, Attached, IsActive, Ids
<1> QED
  BY <1>1, <1>6, <1>7, DroppedAnswer

-----------------------------------------------------------------------------
(* The only command is finalized                                            *)

(* What the finalizations of a runtime-first command share: the sequence is *)
(* final, the trip revision may have advanced, proposals are only resolved. *)
Finalizes ==
  /\ DOMAIN commands # {} /\ InTurn(commands[First]) /\ Settled /\ UNCHANGED proposalVars
  /\ DOMAIN activities' = Ids
  /\ DOMAIN trip' = DOMAIN trip /\ trip'.next = trip.next /\ trip'.epoch = trip.epoch
  /\ trip'.finalized = trip.finalized + 1
  /\ trip'.revision \in {trip.revision, trip.revision + 1}
  /\ Closes

(* A finalization that does not advance the revision leaves a planner that  *)
(* is not ahead, and the active proposal as it was.                         *)
NothingAhead ==
  trip'.revision = trip.revision =>
    /\ Attached => planner.v.revision <= trip.revision
    /\ \A p \in Proposals : proposals'[p] # proposals[p] => planner.t.proposal # p

(* A step that finalizes the only command keeps the invariant.              *)
LEMMA FinalizesStep ==
  ASSUME Inv, Finalizes, NothingAhead, PlansFit', PendingProposalIsCurrent'
  PROVE  Inv'
<1> USE DEF Inv
<1>1. UNCHANGED <<planner, stream, prepared>> /\ answer' = NoAnswer /\ commands' = AfterFirst
  BY Zenon DEF Finalizes, Settled, proposalVars
<1>2. First \in DOMAIN commands /\ commands[First].order = "runtime_first"
  BY FirstCommand DEF Finalizes, InTurn, TripFits
<1>3. DOMAIN commands = {First} /\ trip.next = First + 1 /\ trip.finalized + 1 = First /\ First \in Nat
  BY Zenon, <1>2, OnlyCommand, FirstCommand DEF RuntimeFits, Finalizes
<1>4. DOMAIN commands' = {}
  BY <1>1, <1>3, ResolvedRows
<1>5. TripFits'
  BY DEF Finalizes, TripFits
<1>6. ProposalsFit' /\ StreamFits' /\ PreparedFits'
  BY Zenon, <1>1, ClosesKeeps, ClosesStream, ClosesPrepared DEF Finalizes
<1>7. CommandsFit'
  <2>1. DOMAIN commands' = First + 1 .. trip'.next - 1 /\ First + 1 \in Nat
    BY <1>3, <1>4 DEF Finalizes
  <2>2. trip'.finalized + 1 = trip'.next
    BY <1>3 DEF Finalizes
  <2>3. \E first \in Nat : DOMAIN commands' = first .. trip'.next - 1
    BY Zenon, <2>1
  <2> QED
    BY Zenon, <1>4, <2>2, <2>3 DEF CommandsFit
<1>8. Attached' = Attached
  BY Zenon, <1>1 DEF Attached, IsActive, Finalizes
<1>9. /\ planner.v.revision \in Nat /\ trip.revision \in Nat /\ trip'.revision \in Nat
      /\ trip.revision <= trip'.revision
  <2>1. /\ planner.v.revision \in Nat /\ trip.revision \in Nat
        /\ trip'.revision = trip.revision \/ trip'.revision = trip.revision + 1
    BY Zenon DEF PlannerFits, TripFits, Finalizes
  <2> QED
    BY <2>1
<1>10. Attached => planner.v.revision <= trip'.revision
  BY <1>9 DEF PlannerIsClose, Finalizes, NothingAhead
<1>11. PlannerFits'
  BY <1>1 DEF PlannerFits, Inactive, Inactivated, Finalizes
<1>12. PlannerIsClose'
  <2>1. Ids' = Ids
    BY Zenon DEF Finalizes, Ids
  <2> QED
    BY <1>1, <1>8, <1>9, <1>10, <2>1 DEF PlannerIsClose
<1>13. ActiveFits'
  <2>1. ASSUME NEW p \in Proposals, planner.t.proposal = p, proposals'[p].state \in Over, Attached
        PROVE  planner.v.revision < trip'.revision
    <3>1. CASE proposals'[p] = proposals[p]
      BY <1>9, <2>1, <3>1 DEF ActiveFits
    <3>2. CASE proposals'[p] # proposals[p]
      <4>1. proposals[p].state \in Seen
        BY Zenon, <3>2 DEF Finalizes, Closes, Seen
      <4>2. planner.v.revision <= trip.revision
        BY <1>9, <2>1, <4>1 DEF ActiveFits
      <4>3. trip'.revision = trip.revision + 1
        BY Zenon, <2>1, <3>2 DEF Finalizes, NothingAhead
      <4> QED
        BY <1>9, <4>2, <4>3
    <3> QED
      BY Zenon, <3>1, <3>2
  <2>2. \A p \in Proposals : proposals'[p].state = "streamed" => proposals'[p] = proposals[p]
    BY DEF Finalizes, Closes, Over, Seen
  <2>3. Attached => ~(planner.v.revision > trip'.revision)
    BY <1>9, <1>10
  <2> QED
    BY Zenon, <1>1, <1>8, <2>1, <2>2, <2>3 DEF ActiveFits
<1> QED
  BY Zenon, <1>1, <1>5, <1>6, <1>7, <1>11, <1>12, <1>13, NoAnswerFits

(* The plans when the revision advances, with or without a new plan.        *)
LEMMA PlansStayBelow ==
  ASSUME TripFits, PlansFit, trip'.revision = trip.revision + 1,
         plans' = plans \/ plans' = plans \cup {MaxPlanRevision + 1}
  PROVE  PlansFit'
<1>1. MaxPlanRevision \in plans /\ MaxPlanRevision \in Nat /\ \A r \in plans : r <= MaxPlanRevision
  BY LargestPlan DEF PlansFit
<1>2. \A r \in plans : r \in Nat /\ r <= trip.revision
  BY DEF PlansFit
<1>3. CASE plans' = plans
  BY <1>1, <1>2, <1>3 DEF PlansFit, TripFits
<1>4. CASE plans' = plans \cup {MaxPlanRevision + 1}
  <2> PICK m : m = MaxPlanRevision
    BY Zenon
  <2>1. m + 1 \in plans' /\ \A r \in plans' : r \in Nat /\ r <= m + 1
    BY <1>1, <1>2, <1>4
  <2>2. m + 1 <= trip'.revision
    BY <1>1, <1>2 DEF TripFits
  <2>3. \A r \in plans' : r <= trip'.revision
    BY <1>1, <2>1, <2>2 DEF TripFits
  <2> QED
    BY <2>1, <2>3 DEF PlansFit
<1> QED
  BY <1>3, <1>4

(* FinalizeAcceptedMutation keeps the invariant.                            *)
LEMMA FinalizeMutationStep ==
  ASSUME Inv, FinalizeAcceptedMutation, UNCHANGED proposalVars
  PROVE  Inv'
<1> USE DEF Inv
<1>1. /\ DOMAIN trip' = DOMAIN trip /\ trip'.next = trip.next /\ trip'.epoch = trip.epoch
      /\ trip'.finalized = trip.finalized + 1 /\ trip'.revision = trip.revision + 1
  BY Zenon DEF FinalizeAcceptedMutation, TripFits
<1>2. DOMAIN activities' = Ids
  BY Zenon DEF FinalizeAcceptedMutation, applyAcceptedMutation, Replaced, Ids
<1>3. ClosesAll
  BY WithStateCloses DEF FinalizeAcceptedMutation, Over, Seen
<1>4. Finalizes
  BY Zenon, <1>1, <1>2, <1>3 DEF FinalizeAcceptedMutation, CanFinalizeAccepted, Finalizes, ClosesAll
<1>5. NothingAhead
  BY <1>1 DEF NothingAhead, TripFits
<1>6. PlansFit'
  BY Zenon, <1>1, PlansStayBelow DEF FinalizeAcceptedMutation
<1>7. PendingProposalIsCurrent'
  BY Zenon, <1>3 DEF PendingProposalIsCurrent, ClosesAll
<1> QED
  BY <1>4, <1>5, <1>6, <1>7, FinalizesStep

(* FinalizeTerminal keeps the invariant.                                    *)
LEMMA FinalizeTerminalStep ==
  ASSUME Inv, FinalizeTerminal, UNCHANGED proposalVars
  PROVE  Inv'
<1> USE DEF Inv
<1>1. /\ DOMAIN trip' = DOMAIN trip /\ trip'.next = trip.next /\ trip'.epoch = trip.epoch
      /\ trip'.finalized = trip.finalized + 1 /\ trip'.revision = trip.revision /\ trip'.plan = trip.plan
  BY DEF FinalizeTerminal, TripFits
<1>2. UNCHANGED <<plans, activities, proposals>>
  BY Zenon DEF FinalizeTerminal
<1>3. Closes
  BY <1>2 DEF Closes, ProposalsFit
<1>4. Finalizes
  BY <1>1, <1>2, <1>3 DEF FinalizeTerminal, CanFinalizeTerminal, Finalizes, Ids
<1>5. NothingAhead
  BY Zenon, <1>2 DEF FinalizeTerminal, CanFinalizeTerminal, InTurn, terminalStatus, RefusedFits, Refusal,
              NothingAhead
<1>6. PlansFit'
  BY Zenon, <1>1, <1>2 DEF PlansFit
<1>7. PendingProposalIsCurrent'
  BY <1>1, <1>3, SamePending DEF TripFits
<1> QED
  BY Zenon, <1>4, <1>5, <1>6, <1>7, FinalizesStep

(* FinalizeProposalRejection keeps the invariant.                           *)
LEMMA FinalizeRejectionStep ==
  ASSUME Inv, FinalizeProposalRejection
  PROVE  Inv'
<1> USE DEF Inv
<1>1. /\ DOMAIN trip' = DOMAIN trip /\ trip'.next = trip.next /\ trip'.epoch = trip.epoch
      /\ trip'.finalized = trip.finalized + 1 /\ trip'.revision = trip.revision + 1
  BY Zenon DEF FinalizeProposalRejection, TripFits
<1>2. /\ DOMAIN commands # {} /\ InTurn(commands[First]) /\ IsDecision(commands[First])
      /\ proposals[commands[First].event.proposal].state = "pending"
      /\ proposals' = [proposals EXCEPT ![commands[First].event.proposal] = Closed("rejected")]
      /\ Settled /\ UNCHANGED <<plans, activities, proposalVars>>
  BY Zenon DEF FinalizeProposalRejection, DecisionInTurn, StillFresh, Decided, Resolve
<1>3. commands[First].event.proposal \in Proposals
  BY <1>2, FirstDecision DEF InTurn, DecisionFits
<1>4. ClosesAll
  BY Zenon, <1>2, <1>3, ResolveCloses DEF Over, Seen
<1>5. Finalizes
  BY Zenon, <1>1, <1>2, <1>4 DEF Finalizes, ClosesAll, Ids
<1>6. NothingAhead
  BY <1>1 DEF NothingAhead, TripFits
<1>7. PlansFit'
  BY <1>1, <1>2, PlansStayBelow
<1>8. PendingProposalIsCurrent'
  BY Zenon, <1>4 DEF PendingProposalIsCurrent, ClosesAll
<1> QED
  BY Zenon, <1>5, <1>6, <1>7, <1>8, FinalizesStep

(* FinalizeProposalAcceptance keeps the invariant: its plan revision is     *)
(* free.                                                                    *)
LEMMA FinalizeAcceptanceStep ==
  ASSUME Inv, FinalizeProposalAcceptance
  PROVE  Inv'
<1> USE DEF Inv
<1>1. /\ DOMAIN trip' = DOMAIN trip /\ trip'.next = trip.next /\ trip'.epoch = trip.epoch
      /\ trip'.finalized = trip.finalized + 1 /\ trip'.revision = trip.revision + 1
  BY Zenon DEF FinalizeProposalAcceptance, TripFits
<1>2. /\ DOMAIN commands # {} /\ InTurn(commands[First]) /\ IsDecision(commands[First])
      /\ proposals[commands[First].event.proposal].state = "pending"
      /\ proposals' = [proposals EXCEPT ![commands[First].event.proposal] = Closed("accepted")]
      /\ Settled /\ UNCHANGED <<activities, proposalVars>>
  BY DEF FinalizeProposalAcceptance, CanAcceptProposal, StillFresh, Decided, Resolve, IsDecision, Decisions
<1>3. plans' = plans \cup {MaxPlanRevision + 1}
  BY Zenon DEF FinalizeProposalAcceptance, CanAcceptProposal, PlannedPlanFits
<1>4. commands[First].event.proposal \in Proposals
  BY <1>2, FirstDecision DEF InTurn, DecisionFits
<1>5. ClosesAll
  BY Zenon, <1>2, <1>4, ResolveCloses DEF Over, Seen
<1>6. Finalizes
  BY Zenon, <1>1, <1>2, <1>5 DEF Finalizes, ClosesAll, Ids
<1>7. NothingAhead
  BY <1>1 DEF NothingAhead, TripFits
<1>8. PlansFit'
  BY Zenon, <1>1, <1>3, PlansStayBelow
<1>9. PendingProposalIsCurrent'
  BY Zenon, <1>5 DEF PendingProposalIsCurrent, ClosesAll
<1> QED
  BY Zenon, <1>6, <1>7, <1>8, <1>9, FinalizesStep

(* FinalizeStaleProposalDecision keeps the invariant.                       *)
LEMMA FinalizeStaleStep ==
  ASSUME Inv, FinalizeStaleProposalDecision
  PROVE  Inv'
<1> USE DEF Inv
<1>1. /\ DOMAIN trip' = DOMAIN trip /\ trip'.next = trip.next /\ trip'.epoch = trip.epoch
      /\ trip'.finalized = trip.finalized + 1 /\ trip'.revision = trip.revision /\ trip'.plan = trip.plan
  BY DEF FinalizeStaleProposalDecision, TripFits
<1>2. /\ DOMAIN commands # {} /\ InTurn(commands[First]) /\ IsDecision(commands[First])
      /\ answer.status = "stale_proposal" /\ Settled /\ UNCHANGED <<plans, activities, proposalVars>>
  BY Zenon DEF FinalizeStaleProposalDecision, DecisionInTurn
<1>3. PICK p \in Proposals : p = commands[First].event.proposal
  BY <1>2, FirstDecision DEF InTurn, DecisionFits
<1>4. \/ UNCHANGED proposals
      \/ proposals[p].state = "pending" /\ proposals' = [proposals EXCEPT ![p] = Closed("stale")]
  BY <1>3 DEF FinalizeStaleProposalDecision, Decided, Resolve
<1>5. Closes
  <2>1. CASE UNCHANGED proposals
    BY <2>1 DEF Closes, ProposalsFit
  <2>2. CASE proposals[p].state = "pending" /\ proposals' = [proposals EXCEPT ![p] = Closed("stale")]
    BY Zenon, <2>2, ResolveCloses DEF Over, Seen, ClosesAll
  <2> QED
    BY Zenon, <1>4, <2>1, <2>2
<1>6. Finalizes
  BY Zenon, <1>1, <1>2, <1>5 DEF Finalizes, Ids
<1>7. NothingAhead
  <2>1. planner.t.proposal # p /\ (Attached => planner.v.revision <= trip.revision)
    BY <1>2, <1>3 DEF RefusedFits, Refusal, InTurn
  <2>2. \A q \in Proposals : q # p => proposals'[q] = proposals[q]
    BY Zenon, <1>4 DEF ProposalsFit
  <2> QED
    BY Zenon, <2>1, <2>2 DEF NothingAhead
<1>8. PlansFit'
  BY Zenon, <1>1, <1>2 DEF PlansFit
<1>9. PendingProposalIsCurrent'
  BY <1>1, <1>5, SamePending DEF TripFits
<1> QED
  BY Zenon, <1>6, <1>7, <1>8, <1>9, FinalizesStep

-----------------------------------------------------------------------------
(* A takeover                                                               *)

(* The commands a bootstrap leaves unresolved.                              *)
LEMMA BootstrapRows ==
  ASSUME Inv, commands' = [seq \in Unresolved("runtime_first") |-> commands[seq]],
         activities' = activities, trip'.next = trip.next, trip'.finalized = trip.finalized,
         trip'.revision = trip.revision,
         \A p \in Proposals : proposals[p].state \in Seen => proposals'[p].state \in Seen
  PROVE  CommandsFit'
<1> USE DEF Inv
<1>1. DOMAIN commands' = Unresolved("runtime_first")
      /\ \A s \in Unresolved("runtime_first") : commands'[s] = commands[s]
  BY Zenon
<1>2. CASE Unresolved("runtime_first") = {}
  <2>1. trip'.finalized + 1 = trip'.next
    BY Zenon, <1>2 DEF CommandsFit
  <2>2. \E first \in Nat : DOMAIN commands' = first .. trip'.next - 1
    <3> PICK n : n = trip.next
      BY Zenon
    <3>1. n \in Nat /\ n .. trip'.next - 1 = {}
      BY DEF TripFits
    <3>2. DOMAIN commands' = n .. trip'.next - 1
      BY Zenon, <1>1, <1>2, <3>1
    <3> QED
      BY Zenon, <3>1, <3>2
  <2> QED
    BY Zenon, <1>1, <1>2, <2>1, <2>2 DEF CommandsFit
<1>3. CASE Unresolved("runtime_first") # {}
  <2>1. PICK s \in DOMAIN commands : commands[s].order = "runtime_first"
    BY <1>3 DEF Unresolved
  <2>2. RuntimeFits(s) /\ Unresolved("runtime_first") = {s}
    BY Zenon, <2>1, OnlyCommand
  <2>3. DOMAIN commands' = {s} /\ commands'[s] = commands[s] /\ DOMAIN commands = {s}
    BY <1>1, <2>2 DEF RuntimeFits
  <2>4. \E first \in Nat : DOMAIN commands' = first .. trip'.next - 1
    BY Zenon, <2>3 DEF CommandsFit
  <2>5. RuntimeFits(s)'
    BY Zenon, <2>2, <2>3 DEF RuntimeFits, DecisionFits, IsDecision, Decisions, runtimeMutationEvent
  <2>6. DOMAIN commands'[s] = {"order", "expected", "event", "state", "plan"}
    BY Zenon, <2>3 DEF CommandsFit
  <2>7. s \in Unresolved("runtime_first")'
    BY <2>1, <2>3 DEF Unresolved
  <2> QED
    BY Zenon, <2>3, <2>4, <2>5, <2>6, <2>7 DEF CommandsFit
<1> QED
  BY <1>2, <1>3

(* A takeover keeps the invariant.                                          *)
LEMMA TakeoverStep ==
  ASSUME Inv, TakeoverByAny
  PROVE  Inv'
<1> USE DEF Inv
<1>1. UNCHANGED <<plans, activities, answer, stream, prepared>> /\ answer = NoAnswer
  BY DEF TakeoverByAny, Takeover
<1>2. /\ DOMAIN trip' = DOMAIN trip /\ trip'.next = trip.next /\ trip'.epoch = trip.epoch + 1
      /\ trip'.finalized = trip.finalized /\ trip'.revision = trip.revision
  BY DEF TakeoverByAny, Takeover, TripFits
<1>3. ClosesAll
  BY WithStateCloses DEF TakeoverByAny, Takeover, Over, Seen
<1>4. Closes
  BY <1>3 DEF ClosesAll
<1>5. TripFits' /\ PlansFit'
  BY <1>1, <1>2 DEF TripFits, PlansFit
<1>6. ProposalsFit' /\ StreamFits' /\ PreparedFits'
  BY <1>1, <1>4, ClosesKeeps, ClosesStream, ClosesPrepared
<1>7. AnswerShape' /\ RefusedFits' /\ AcceptedFits'
  BY Zenon, <1>1, NoAnswerFits
<1>8. PendingProposalIsCurrent'
  BY Zenon, <1>3 DEF PendingProposalIsCurrent, ClosesAll
<1>9. \A p \in Proposals : proposals[p].state \in Seen => proposals'[p].state \in Seen
  BY <1>4, ClosesKeeps
<1>10. CASE Loadable /\ Bootstrap
  <2>1. CommandsFit'
    BY <1>1, <1>2, <1>9, <1>10, BootstrapRows DEF Bootstrap
  <2>2. PICK v, t : /\ v = Bootstrapped(trip'.epoch, trip.revision, trip.finalized, 0) /\ t = Load
                    /\ planner' = [v |-> v, t |-> t, plan |-> trip.plan]
    BY Zenon, <1>10 DEF Bootstrap
  <2>3. /\ DOMAIN v = DOMAIN Inactive /\ v.epoch = trip'.epoch
        /\ v.revision = trip.revision /\ v.accepted = trip.finalized
    BY Zenon, <2>2 DEF Bootstrapped, Inactive
  <2>4. DOMAIN t = DOMAIN Inactivated.t /\ t.plan = trip.segments /\ t.proposal = None
    BY Zenon, <2>2 DEF Load, Inactivated
  <2>5. planner'.v = v /\ planner'.t = t /\ DOMAIN planner' = {"v", "t", "plan"}
    BY Zenon, <2>2
  <2>6. PlannerFits'
    <3>1. trip.revision \in Nat /\ trip.finalized \in Nat /\ trip'.epoch \in Nat
      BY Zenon, <1>5 DEF TripFits
    <3>2. trip'.epoch <= trip'.epoch
      BY <3>1
    <3> QED
      BY Zenon, <2>3, <2>4, <2>5, <3>1, <3>2 DEF PlannerFits
  <2>7. ToSet(trip.segments) = Ids
    BY Zenon, <1>10 DEF Loadable, RowsFit, CoversExactly
  <2>8. PlannerIsClose'
    <3>1. trip.revision \in Nat
      BY Zenon DEF TripFits
    <3>2. ~(trip.revision > trip.revision)
      BY <3>1
    <3> QED
      BY Zenon, <1>1, <1>2, <2>3, <2>4, <2>5, <2>7, <3>2 DEF PlannerIsClose, Ids
  <2>9. ActiveFits'
    BY Zenon, <2>4, <2>5, CanonicalTripAssumption DEF ActiveFits
  <2> QED
    BY Zenon, <1>5, <1>6, <1>7, <1>8, <2>1, <2>6, <2>8, <2>9
<1>11. CASE UNCHANGED <<planner, commands>>
  <2>1. ASSUME NEW s \in DOMAIN commands PROVE (MirrorFits(s) \/ RuntimeFits(s))'
    <3>1. CASE MirrorFits(s)
      BY Zenon, <1>1, <1>2, <1>11, <3>1 DEF MirrorFits, CarriesPlan, Ids
    <3>2. CASE RuntimeFits(s)
      BY <1>2, <1>9, <1>11, <3>2, SameCommands DEF RuntimeFits, DecisionFits, runtimeMutationEvent
    <3> QED
      BY Zenon, <3>1, <3>2 DEF CommandsFit
  <2>2. CommandsFit'
    BY Zenon, <1>2, <1>11, <2>1, SameCommands DEF CommandsFit
  <2>3. ~Attached'
    <3>1. planner.v.epoch \in Nat /\ trip.epoch \in Nat /\ planner.v.epoch <= trip.epoch
      BY Zenon DEF PlannerFits, TripFits
    <3>2. planner.v.epoch # trip.epoch + 1
      BY <3>1
    <3> QED
      BY Zenon, <1>2, <1>11, <3>2 DEF Attached
  <2>4. PlannerFits' /\ PlannerIsClose'
    <3>1. PlannerFits'
      <4>1. trip.epoch \in Nat /\ planner.v.revision \in Nat /\ planner.v.accepted \in Nat
        BY Zenon DEF PlannerFits, TripFits
      <4>2. trip'.epoch \in Nat /\ trip'.epoch >= trip.epoch
        BY <1>2, <4>1
      <4> QED
        BY Zenon, <1>11, <4>1, <4>2, PlannerFitsStill
    <3> QED
      BY Zenon, <2>3, <3>1 DEF PlannerIsClose
  <2>5. \A p \in Proposals : proposals'[p].state = "streamed" => proposals'[p] = proposals[p]
    BY Zenon, <1>4 DEF Closes, Over, Seen
  <2>6. ActiveFits'
    BY Zenon, <1>1, <1>11, <2>3, <2>5 DEF ActiveFits
  <2> QED
    BY Zenon, <1>5, <1>6, <1>7, <1>8, <2>2, <2>4, <2>6
<1> QED
  BY <1>10, <1>11 DEF TakeoverByAny, Takeover

-----------------------------------------------------------------------------
(* The planner answers the first command                                    *)

(* What the planner has checked of a command it accepts for execution.      *)
LEMMA PreviewAccepted ==
  ASSUME NEW row, Preview(row) = "accepted"
  PROVE  planner.v.revision = row.expected /\ First = planner.v.accepted + 1
BY Zenon DEF Preview, preview_durable, durable_order

(* The statuses of Preview.                                                 *)
LEMMA PreviewStatus ==
  ASSUME NEW row, Attached
  PROVE  /\ Preview(row) \in {"accepted", "duplicate", "stale_mutation_sequence", "stale_trip_revision",
                              "stale_planner_state_version", "invalid_argument"}
         /\ Preview(row) = "invalid_argument" => planner.v.revision = row.expected
BY Zenon DEF Preview, preview_durable, durable_order, validate_epoch, Attached

(* The statuses of apply_status, and what each says of the event.           *)
LEMMA ApplyStatus ==
  ASSUME NEW t, NEW event
  PROVE  /\ apply_status(t, event) \in {"accepted", "stale_proposal", "invalid_argument"}
         /\ apply_status(t, event) = "stale_proposal" =>
              event.kind \in Decisions /\ t.proposal # event.proposal
         /\ apply_status(t, event) = "accepted" =>
              /\ TargetsExist(t, event) /\ is_valid(Applied(t, event))
              /\ event.kind \in Decisions => t.proposal = event.proposal
BY DEF apply_status, Decisions

(* The fields of the planner's trip.                                        *)
TripFields == {"order", "state", "plan", "prefix", "current", "delays", "proposal"}

(* An edit leaves the proposal of the planner alone.                        *)
LEMMA EditedTrip ==
  ASSUME NEW u, DOMAIN u = TripFields, NEW edit, edit.kind \in EditKinds
  PROVE  /\ DOMAIN EditedActivities(u, edit) = TripFields
         /\ EditedActivities(u, edit).proposal = u.proposal
BY Zenon DEF TripFields, EditedActivities, EditKinds

(* A mirror drops the active proposal, and its plan becomes the plan.       *)
LEMMA MirrorApplied ==
  ASSUME NEW t, DOMAIN t = TripFields, NEW event, NEW segments, CarriesPlan(event, segments)
  PROVE  /\ DOMAIN Applied(t, event) = TripFields
         /\ Applied(t, event).proposal = None /\ Applied(t, event).plan = segments
<1>1. PICK u : u = [t EXCEPT !.proposal = None]
  BY Zenon
<1>2. DOMAIN u = TripFields /\ u.proposal = None
  BY Zenon, <1>1 DEF TripFields
<1>3. CASE event.kind = "trip_edited" /\ event.edit.kind \in EditKinds /\ event.edit.plan = segments
  <2>1. PICK w : w = EditedActivities(u, event.edit)
    BY Zenon
  <2>2. DOMAIN w = TripFields /\ w.proposal = None
    BY <1>2, <1>3, <2>1, EditedTrip
  <2>3. PICK x : x = [w EXCEPT !.plan = event.edit.plan]
    BY Zenon
  <2>4. DOMAIN x = TripFields /\ x.proposal = None /\ x.plan = segments
    BY <1>3, <2>2, <2>3 DEF TripFields
  <2>5. PICK y : y = normalize_current_activity(x)
    OBVIOUS
  <2>6. DOMAIN y = TripFields /\ y.proposal = None /\ y.plan = segments
    BY <2>4, <2>5 DEF normalize_current_activity, TripFields
  <2>7. Applied(t, event) = y
    BY Zenon, <1>1, <1>3, <2>1, <2>3, <2>5 DEF Applied
  <2> QED
    BY <2>6, <2>7
<1>4. CASE event.kind = "current_plan_replaced" /\ event.plan = segments
  <2>1. Applied(t, event) = [u EXCEPT !.plan = event.plan]
    BY Zenon, <1>1, <1>4 DEF Applied
  <2> QED
    BY <1>2, <1>4, <2>1 DEF TripFields
<1> QED
  BY <1>3, <1>4 DEF CarriesPlan

(* The trip of the planner after the mirror that is first.                  *)
LEMMA MirrorTrip ==
  ASSUME DOMAIN planner.t = TripFields, MirrorFits(First)
  PROVE  /\ commands[First].order = "canonical_first"
         /\ DOMAIN Applied(planner.t, commands[First].event) = TripFields
         /\ Applied(planner.t, commands[First].event).proposal = None
         /\ Applied(planner.t, commands[First].event).plan = commands[First].plan.segments
<1>1. /\ commands[First].order = "canonical_first"
      /\ CarriesPlan(commands[First].event, commands[First].plan.segments)
  BY Zenon DEF MirrorFits
<1> QED
  BY <1>1, MirrorApplied

(* A runtime mutation and a rejection drop the active proposal, and leave   *)
(* the order and the plan.                                                  *)
LEMMA RuntimeApplied ==
  ASSUME NEW t, DOMAIN t = TripFields, NEW event,
         event.kind \in {"activity_status_changed", "detail_changed", "travel_delay", "reject_proposal"}
  PROVE  /\ DOMAIN Applied(t, event) = TripFields
         /\ Applied(t, event).proposal = None
         /\ Applied(t, event).plan = t.plan /\ Applied(t, event).order = t.order
<1>1. PICK u : u = [t EXCEPT !.proposal = None]
  BY Zenon
<1>2. DOMAIN u = TripFields /\ u.proposal = None /\ u.plan = t.plan /\ u.order = t.order
  BY <1>1 DEF TripFields
<1>3. CASE event.kind = "activity_status_changed"
  <2>1. Applied(t, event) = apply_activity_status_change(u, event.activity, event.state)
    BY <1>1, <1>3 DEF Applied
  <2> QED
    BY <1>2, <2>1 DEF apply_activity_status_change, TripFields
<1>4. CASE event.kind = "travel_delay"
  <2>1. Applied(t, event) = [u EXCEPT !.delays = @ \cup {<<event.from, event.to>>}]
    BY Zenon, <1>1, <1>4 DEF Applied
  <2> QED
    BY <1>2, <2>1 DEF TripFields
<1>5. CASE event.kind \in {"detail_changed", "reject_proposal"}
  <2>1. Applied(t, event) = u
    BY Zenon, <1>1, <1>5 DEF Applied
  <2> QED
    BY <1>2, <2>1
<1> QED
  BY <1>3, <1>4, <1>5

(* What is left to show of an answer: the planner, its active proposal, and *)
(* what is known of the first command.                                      *)
LEMMA AnsweredStep ==
  ASSUME Inv, NEW status, status # "none", Answered(status), UNCHANGED proposalVars, DOMAIN commands # {},
         PlannerFits', PlannerIsClose', ActiveFits', RefusedFits', AcceptedFits'
  PROVE  Inv'
<1> USE DEF Inv
<1>1. UNCHANGED <<trip, plans, activities, proposals, commands, stream, prepared>>
  BY Zenon DEF Answered, canonical, proposalVars
<1>2. Closes
  BY Zenon, <1>1 DEF Closes, ProposalsFit
<1>3. /\ TripFits' /\ PlansFit' /\ ProposalsFit' /\ StreamFits' /\ PreparedFits' /\ CommandsFit'
  BY Zenon, <1>1, <1>2, SameTrip, ClosesKeeps, ClosesStream, ClosesPrepared, SameCommandsFit
<1>4. answer'.status = status /\ answer'.resolved = planner'.v.accepted
  BY Zenon DEF Answered
<1>5. AnswerShape'
  <2>1. NoAnswer.status = "none"
    BY DEF NoAnswer
  <2>2. planner'.v.accepted \in Nat
    BY Zenon DEF PlannerFits
  <2> QED
    BY Zenon, <1>1, <1>4, <2>1, <2>2 DEF AnswerShape
<1>6. PendingProposalIsCurrent'
  BY <1>1 DEF PendingProposalIsCurrent
<1> QED
  BY Zenon, <1>3, <1>5, <1>6

(* A refusal: the planner keeps its trip, and at most consumes the sequence *)
(* of a command that was made for the trip as it is.                        *)
LEMMA RefusalStep ==
  ASSUME Inv, NEW status, status \notin {"none", "accepted"}, Answered(status), UNCHANGED proposalVars,
         DOMAIN commands # {}, First \in Nat, Attached,
         planner' = planner \/ planner' = [planner EXCEPT !.v = resolve_terminal_durable(@, First)],
         commands[First].order = "runtime_first" =>
           /\ planner' # planner \/ status \in Refusal => planner.v.revision = trip.revision
           /\ status = "stale_proposal" =>
                IsDecision(commands[First]) /\ planner.t.proposal # commands[First].event.proposal,
         commands[First].order # "runtime_first" => planner' = planner
  PROVE  Inv'
<1> USE DEF Inv
<1>1. UNCHANGED <<trip, activities, proposals, commands, stream>>
  BY DEF Answered, canonical, proposalVars
<1>2. /\ DOMAIN planner' = DOMAIN planner /\ planner'.t = planner.t
      /\ DOMAIN planner'.v = DOMAIN planner.v /\ planner'.v.epoch = planner.v.epoch
      /\ planner'.v.revision = planner.v.revision /\ planner'.v.accepted \in Nat
      /\ planner'.v.accepted = planner.v.accepted \/ planner.v.revision = trip.revision
  <2>1. CASE planner' = planner
    BY <2>1 DEF PlannerFits
  <2>2. CASE planner' # planner
    BY <2>2 DEF PlannerFits, resolve_terminal_durable, Inactive
  <2> QED
    BY <2>1, <2>2
<1>3. Attached' = Attached
  BY <1>1, <1>2 DEF Attached, IsActive
<1>4. PlannerFits'
  BY <1>1, <1>2 DEF PlannerFits, Inactive, Inactivated
<1>5. PlannerIsClose'
  BY <1>1, <1>2, <1>3, SameCommands DEF PlannerIsClose, Ids, TripFits
<1>6. ActiveFits'
  BY Zenon, <1>1, <1>2, <1>3 DEF ActiveFits
<1>7. answer'.status = status
  BY DEF Answered
<1>8. RefusedFits'
  BY <1>1, <1>2, <1>3, <1>7, SameCommands DEF RefusedFits, Refusal, TripFits, PlannerFits
<1>9. AcceptedFits'
  BY <1>7 DEF AcceptedFits
<1> QED
  BY Zenon, <1>4, <1>5, <1>6, <1>8, <1>9, AnsweredStep

(* The trip of the planner after a command it accepted: the plan is that of *)
(* the mirror, or covers what it covered; the target of a mutation exists.  *)
LEMMA AcceptedTrip ==
  ASSUME Inv, DOMAIN commands # {}, apply_status(planner.t, commands[First].event) = "accepted",
         NEW t, t = Applied(planner.t, commands[First].event)
  PROVE  /\ DOMAIN t = TripFields /\ t.proposal = None
         /\ commands[First].order = "canonical_first" => t.plan = commands[First].plan.segments
         /\ commands[First].order = "runtime_first" =>
              /\ t.plan = planner.t.plan
              /\ IsDecision(commands[First]) => planner.t.proposal = commands[First].event.proposal
              /\ ~IsDecision(commands[First]) /\ ToSet(planner.t.plan) = Ids =>
                   HasTarget(commands[First].event)
<1>1. First \in DOMAIN commands
  BY Zenon, FirstCommand DEF Inv, TripFits
<1>2. DOMAIN planner.t = TripFields
  BY Zenon DEF Inv, PlannerFits, Inactivated, TripFields
<1>3. PICK event : event = commands[First].event
  BY Zenon
<1>4. TargetsExist(planner.t, event) /\ is_valid(t)
  BY Zenon, <1>3, ApplyStatus
<1>5. CASE MirrorFits(First)
  BY Zenon, <1>2, <1>5, MirrorTrip
<1>6. CASE RuntimeFits(First)
  <2>1. CASE IsDecision(commands[First])
    <3>1. event.kind \in Decisions /\ event.plan = None
      BY Zenon, <1>3, <1>6, <2>1 DEF RuntimeFits, DecisionFits, IsDecision
    <3>2. event.kind = "reject_proposal"
      BY Zenon, <1>4, <3>1 DEF TargetsExist, Decisions
    <3>3. DOMAIN t = TripFields /\ t.proposal = None /\ t.plan = planner.t.plan
      BY <1>2, <1>3, <3>2, RuntimeApplied
    <3> QED
      BY Zenon, <1>3, <1>6, <2>1, <3>1, <3>3, ApplyStatus DEF RuntimeFits
  <2>2. CASE ~IsDecision(commands[First])
    <3>1. event \in runtimeMutationEvent
      BY Zenon, <1>3, <1>6, <2>2 DEF RuntimeFits
    <3>2. event.kind \in {"activity_status_changed", "detail_changed", "travel_delay"}
      BY Zenon, <3>1 DEF runtimeMutationEvent
    <3>3. /\ DOMAIN t = TripFields /\ t.proposal = None
          /\ t.plan = planner.t.plan /\ t.order = planner.t.order
      BY <1>2, <1>3, <3>2, RuntimeApplied
    <3>4. ToSet(planner.t.plan) = ToSet(planner.t.order)
      BY Zenon, <1>4, <3>3 DEF is_valid, CoversExactly
    <3>5. ToSet(planner.t.plan) = Ids => HasTarget(event)
      BY Zenon, <1>4, <3>2, <3>4 DEF TargetsExist, HasTarget
    <3> QED
      BY Zenon, <1>3, <1>6, <2>2, <3>3, <3>5 DEF RuntimeFits
  <2> QED
    BY <2>1, <2>2
<1> QED
  BY Zenon, <1>1, <1>5, <1>6 DEF Inv, CommandsFit

(* The planner accepts the first command.                                   *)
LEMMA AcceptanceStep ==
  ASSUME Inv, DOMAIN commands # {}, First \in Nat, Attached, UNCHANGED proposalVars,
         Preview(commands[First]) = "accepted",
         apply_status(planner.t, commands[First].event) = "accepted",
         planner' = Accepted(commands[First]), Answered("accepted")
  PROVE  Inv'
<1> USE DEF Inv
<1>1. UNCHANGED <<trip, activities, proposals, commands, stream>>
  BY Zenon DEF Answered, canonical, proposalVars
<1>2. planner.v.revision = commands[First].expected
  BY PreviewAccepted
<1>3. PICK t : t = Applied(planner.t, commands[First].event)
  BY Zenon
<1>4. /\ planner'.t = t /\ planner'.v = accept_durable(planner.v, First)
      /\ DOMAIN planner' = {"v", "t", "plan"}
  BY <1>3 DEF Accepted
<1>5. /\ DOMAIN planner'.v = DOMAIN planner.v /\ planner'.v.epoch = planner.v.epoch
      /\ planner'.v.revision = planner.v.revision + 1 /\ planner'.v.accepted = First
  BY Zenon, <1>4 DEF accept_durable, PlannerFits, Inactive
<1>6. DOMAIN t = TripFields /\ t.proposal = None
  BY Zenon, <1>3, AcceptedTrip
<1>7. PlannerFits'
  <2>1. DOMAIN planner'.t = DOMAIN planner.t /\ DOMAIN planner' = DOMAIN planner
    BY Zenon, <1>4, <1>6 DEF PlannerFits, TripFields, Inactivated
  <2>2. planner'.v.revision \in Nat /\ planner'.v.accepted \in Nat
    BY <1>5 DEF PlannerFits
  <2>3. trip'.epoch \in Nat /\ trip'.epoch >= trip.epoch
    BY <1>1 DEF TripFits
  <2> QED
    BY Zenon, <1>5, <2>1, <2>2, <2>3, PlannerFitsStill
<1>8. Attached'
  BY Zenon, <1>1, <1>5 DEF Attached, IsActive
<1>9. First' = First /\ First \in DOMAIN commands
      /\ IsDecision(commands[First])' = IsDecision(commands[First])
  BY Zenon, <1>1, SameCommands, FirstCommand
<1>10. ActiveFits'
  BY Zenon, <1>4, <1>6, CanonicalTripAssumption DEF ActiveFits
<1>11. answer'.status = "accepted" /\ answer'.resolved = First
  BY Zenon, <1>5 DEF Answered
<1>12. RefusedFits'
  BY Zenon, <1>11 DEF RefusedFits, Refusal
<1>13. CASE MirrorFits(First)
  <2>1. commands[First].order = "canonical_first" /\ t.plan = commands[First].plan.segments
    BY Zenon, <1>3, <1>13, AcceptedTrip DEF MirrorFits
  <2>2. /\ ~(planner'.v.revision > trip.revision)
        /\ planner'.v.revision >= trip.revision => ToSet(t.plan) = Ids
    <3>1. /\ commands[First].expected \in Nat /\ commands[First].expected < trip.revision
          /\ commands[First].expected + 1 = trip.revision => ToSet(t.plan) = Ids
      BY Zenon, <1>13, <2>1 DEF MirrorFits
    <3>2. trip.revision \in Nat /\ planner'.v.revision = commands[First].expected + 1
      BY Zenon, <1>2, <1>5 DEF TripFits
    <3> QED
      BY <3>1, <3>2
  <2>3. PlannerIsClose'
    BY Zenon, <1>1, <1>4, <2>2 DEF PlannerIsClose, Ids
  <2>4. AcceptedFits'
    BY Zenon, <1>1, <1>9, <2>1 DEF AcceptedFits
  <2> QED
    BY Zenon, <1>7, <1>10, <1>12, <2>3, <2>4, AnsweredStep
<1>14. CASE RuntimeFits(First)
  <2>1. commands[First].order = "runtime_first" /\ planner.v.revision = trip.revision
    BY Zenon, <1>2, <1>14 DEF RuntimeFits
  <2>2. ToSet(planner.t.plan) = Ids
    BY <2>1 DEF PlannerIsClose, TripFits
  <2>3. planner'.v.revision = trip'.revision + 1 /\ planner'.v.accepted = First /\ First >= First
    <3>1. First >= First
      OBVIOUS
    <3> QED
      BY Zenon, <1>1, <1>5, <2>1, <3>1
  <2>4. PlannerIsClose'
    <3>1. Unresolved("runtime_first")' # {}
      BY Zenon, <1>1, <1>9, <2>1 DEF Unresolved
    <3>2. ToSet(planner'.t.plan) = Ids'
      BY Zenon, <1>1, <1>3, <1>4, <2>1, <2>2, AcceptedTrip DEF Ids
    <3> QED
      BY Zenon, <1>9, <2>3, <3>1, <3>2 DEF PlannerIsClose
  <2>5. ASSUME IsDecision(commands[First]) PROVE Undisturbed'
    <3>1. PICK p \in Proposals : p = commands[First].event.proposal /\ proposals[p].state \in Seen
      BY Zenon, <1>14, <2>5 DEF RuntimeFits, DecisionFits
    <3>2. planner.t.proposal = p
      BY Zenon, <1>3, <2>1, <2>5, <3>1, AcceptedTrip
    <3>3. proposals[p].state \notin Over
      <4>1. trip.revision \in Nat
        BY Zenon DEF TripFits
      <4>2. ~(planner.v.revision < trip.revision)
        BY <2>1, <4>1
      <4> QED
        BY Zenon, <3>2, <4>2 DEF ActiveFits
    <3>4. proposals[p].state = "pending"
      BY Zenon, <3>1, <3>3 DEF Over
    <3>5. stream = <<>>
      <4>1. stream = <<>> \/ stream[Len(stream)] = p
        BY Zenon, <3>2 DEF ActiveFits
      <4>2. stream # <<>> => Len(stream) \in 1 .. Len(stream)
        <5>1. stream \in Seq(Proposals)
          BY Zenon DEF StreamFits
        <5> QED BY <5>1
      <4> QED
        BY Zenon, <3>4, <4>1, <4>2 DEF StreamFits
    <3> QED
      <4>1. \A i \in 1 .. Len(stream) : FALSE
        BY <3>5
      <4> QED
        BY Zenon, <1>1, <1>9, <3>1, <3>4, <4>1 DEF Undisturbed
  <2>6. ASSUME ~IsDecision(commands[First]) PROVE HasTarget(commands[First].event)'
    <3>1. HasTarget(commands[First].event)
      BY Zenon, <1>3, <2>1, <2>2, <2>6, AcceptedTrip
    <3> QED
      BY Zenon, <1>1, <1>9, <3>1 DEF HasTarget, Ids
  <2>7. AcceptedFits'
    <3>1. Attached' /\ planner'.v.revision = trip'.revision + 1 /\ answer'.resolved >= First'
      BY Zenon, <1>8, <1>9, <1>11, <2>3
    <3>2. IF IsDecision(commands[First])' THEN Undisturbed' ELSE HasTarget(commands[First].event)'
      BY Zenon, <1>9, <2>5, <2>6
    <3> QED
      BY Zenon, <3>1, <3>2 DEF AcceptedFits
  <2> QED
    BY Zenon, <1>7, <1>10, <1>12, <2>4, <2>7, AnsweredStep
<1> QED
  BY Zenon, <1>9, <1>13, <1>14 DEF CommandsFit

(* Dispatch keeps the invariant.                                            *)
LEMMA DispatchStep ==
  ASSUME Inv, Dispatch, UNCHANGED proposalVars
  PROVE  Inv'
<1>1. DOMAIN commands # {} /\ Attached
  BY DEF Dispatch
<1>2. First \in Nat /\ First \in DOMAIN commands
  BY Zenon, <1>1, FirstCommand DEF Inv, TripFits
<1>3. commands[First].order = "runtime_first" => commands[First].expected = trip.revision
  BY Zenon, <1>2, OnlyCommand DEF Inv, RuntimeFits
<1>4. commands[First].order = "runtime_first" /\ Preview(commands[First]) = "accepted"
        => planner.v.revision = trip.revision
  BY <1>3, PreviewAccepted
<1>5. CASE /\ Preview(commands[First]) # "accepted" /\ planner' = planner
           /\ Answered(Preview(commands[First]))
  <2>1. PICK status : status = Preview(commands[First])
    BY Zenon
  <2>2. /\ status \notin {"none", "accepted", "stale_proposal"}
        /\ status \in Refusal => planner.v.revision = commands[First].expected
    BY Zenon, <1>1, <1>5, <2>1, PreviewStatus DEF Refusal
  <2> QED
    BY Zenon, <1>1, <1>2, <1>3, <1>5, <2>1, <2>2, RefusalStep
<1>6. CASE /\ Preview(commands[First]) = "accepted" /\ commands[First].order = "runtime_first"
           /\ planner' = Consumed(commands[First]) /\ Answered("expired")
  <2>1. planner' = [planner EXCEPT !.v = resolve_terminal_durable(@, First)]
    BY <1>6 DEF Consumed
  <2> QED
    BY Zenon, <1>1, <1>2, <1>4, <1>6, <2>1, RefusalStep
<1>7. CASE /\ Preview(commands[First]) = "accepted"
           /\ apply_status(planner.t, commands[First].event) # "accepted"
           /\ planner' = Consumed(commands[First])
           /\ Answered(apply_status(planner.t, commands[First].event))
  <2>1. PICK status : status = apply_status(planner.t, commands[First].event)
    BY Zenon
  <2>2. /\ status \in {"stale_proposal", "invalid_argument"}
        /\ status = "stale_proposal" =>
             IsDecision(commands[First]) /\ planner.t.proposal # commands[First].event.proposal
    BY Zenon, <1>7, <2>1, ApplyStatus DEF IsDecision
  <2>3. /\ \/ planner' = planner
           \/ planner' = [planner EXCEPT !.v = resolve_terminal_durable(@, First)]
        /\ commands[First].order # "runtime_first" => planner' = planner
    BY <1>7 DEF Consumed
  <2> QED
    BY Zenon, <1>1, <1>2, <1>4, <1>7, <2>1, <2>2, <2>3, RefusalStep
<1>8. CASE /\ Preview(commands[First]) = "accepted"
           /\ apply_status(planner.t, commands[First].event) = "accepted"
           /\ planner' = Accepted(commands[First]) /\ Answered("accepted")
  BY Zenon, <1>1, <1>2, <1>8, AcceptanceStep
<1> QED
  BY Zenon, <1>5, <1>6, <1>7, <1>8 DEF Dispatch

-----------------------------------------------------------------------------
(* Every step keeps the invariant                                           *)

(* A stuttering step keeps the invariant.                                   *)
LEMMA UnchangedStep ==
  ASSUME Inv, UNCHANGED allVars
  PROVE  Inv'
<1> USE DEF Inv
<1>1. UNCHANGED <<trip, plans, activities, commands, proposals, planner, answer, stream, prepared>>
  BY Zenon DEF allVars, vars, canonical, proposalVars
<1>2. Closes /\ SameVersions
  BY Zenon, <1>1 DEF Closes, SameVersions, ProposalsFit
<1>3. TripFits' /\ PlansFit' /\ ProposalsFit' /\ CommandsFit' /\ StreamFits' /\ PreparedFits'
  BY <1>1, <1>2, SameTrip, ClosesKeeps, ClosesStream, ClosesPrepared, SameCommandsFit
<1>4. PlannerFits' /\ PlannerIsClose' /\ Attached' = Attached
  BY Zenon, <1>1, <1>2, SamePlanner
<1>5. Undisturbed' = Undisturbed
  BY Zenon, <1>1, SameCommands DEF Undisturbed
<1>6. AnswerShape' /\ RefusedFits' /\ AcceptedFits'
  BY Zenon, <1>1, <1>2, <1>5, SameAnswer
<1>7. ActiveFits' /\ PendingProposalIsCurrent'
  BY Zenon, <1>1, <1>4 DEF ActiveFits, PendingProposalIsCurrent
<1> QED
  BY Zenon, <1>3, <1>4, <1>6, <1>7

(* Every step keeps the invariant.                                          *)
LEMMA NextStep ==
  ASSUME Inv, [Next]_allVars
  PROVE  Inv'
<1>1. CASE Edit /\ UNCHANGED proposalVars
  BY <1>1, EditStep
<1>2. CASE Mutate /\ UNCHANGED proposalVars
  BY <1>2, MutateStep
<1>3. CASE Deliver /\ UNCHANGED proposalVars
  BY Zenon, <1>3, DispatchStep, PauseStep, FinalizeMirrorStep, FinalizeMutationStep, FinalizeTerminalStep,
     LoseAnswerStep DEF Deliver
<1>4. CASE TakeoverByAny
  BY <1>4, TakeoverStep
<1>5. CASE Observe \/ Publish \/ Persist
  BY Zenon, <1>5, ObserveStep, PublishStep, PersistStep
<1>6. CASE PrepareProposalAcceptance \/ RecordDecision
  BY <1>6, PrepareStep, RecordDecisionStep
<1>7. CASE Finalize
  BY Zenon, <1>7, FinalizeRejectionStep, FinalizeStaleStep, FinalizeAcceptanceStep DEF Finalize
<1>8. CASE UNCHANGED allVars
  BY <1>8, UnchangedStep
<1> QED
  BY Zenon, <1>1, <1>2, <1>3, <1>4, <1>5, <1>6, <1>7, <1>8 DEF Next

-----------------------------------------------------------------------------
(* The theorems                                                             *)

(* The invariant holds in every state of every behaviour.                   *)
THEOREM ProposalsInvariance == Spec => []Inv
<1>1. Inv /\ [Next]_allVars => Inv'
  BY NextStep
<1> QED
  BY InitFits, <1>1, PTL DEF Spec

(* A pending proposal was made from the trip as it is, whatever was         *)
(* committed, finalized or taken over while it was published and stored.    *)
THEOREM PendingIsCurrent == Spec => []PendingProposalIsCurrent
<1>1. Inv => PendingProposalIsCurrent
  BY DEF Inv
<1> QED
  BY <1>1, ProposalsInvariance, PTL

(* Edits and acceptances number plans in two ways that never collide.       *)
THEOREM NextRevisionIsFree == Spec => []PlanRevisionIsFree
<1>1. Inv => PlanRevisionIsFree
  <2> SUFFICES ASSUME Inv PROVE PlanRevisionIsFree
    OBVIOUS
  <2>1. trip.revision \in Nat /\ \A r \in plans : r <= trip.revision
    BY DEF Inv, TripFits, PlansFit
  <2>2. trip.revision + 1 \notin plans
    BY <2>1
  <2> QED
    BY <2>2 DEF PlanRevisionIsFree
<1> QED
  BY <1>1, ProposalsInvariance, PTL

(* What the planner accepted the database can finalize: the command is in   *)
(* turn, and its target row or its pending proposal is still there.         *)
THEOREM AcceptedCanBeFinalized == Spec => []AcceptedIsFinalizable
<1>1. Inv => AcceptedIsFinalizable
  <2> SUFFICES ASSUME Inv, DOMAIN commands # {}, answer.status = "accepted",
                      commands[First].order = "runtime_first"
               PROVE  /\ InTurn(commands[First])
                      /\ IF IsDecision(commands[First]) THEN StillFresh(commands[First])
                         ELSE HasTarget(commands[First].event)
    BY Zenon DEF AcceptedIsFinalizable
  <2>1. First \in DOMAIN commands
    BY Zenon, FirstCommand DEF Inv, TripFits
  <2>2. RuntimeFits(First)
    BY Zenon, <2>1, OnlyCommand DEF Inv
  <2>3. answer.resolved >= First /\ answer # NoAnswer
    <3>1. NoAnswer.status = "none"
      BY DEF NoAnswer
    <3> QED
      BY Zenon, <2>2, <3>1 DEF Inv, AcceptedFits, RuntimeFits
  <2>4. InTurn(commands[First])
    BY Zenon, <2>2, <2>3 DEF InTurn, Resolves, RuntimeFits
  <2>5. CASE IsDecision(commands[First])
    <3>1. PICK p \in Proposals : p = commands[First].event.proposal
      BY Zenon, <2>2, <2>5 DEF RuntimeFits, DecisionFits
    <3>2. proposals[p].state = "pending"
      BY Zenon, <2>5, <3>1 DEF Inv, AcceptedFits, Undisturbed
    <3>3. proposals[p].base = trip.plan /\ proposals[p].revision = trip.revision
      BY Zenon, <3>2 DEF Inv, PendingProposalIsCurrent
    <3> QED
      BY Zenon, <2>2, <2>4, <2>5, <3>1, <3>2, <3>3 DEF StillFresh, Decided, RuntimeFits
  <2>6. CASE ~IsDecision(commands[First])
    BY Zenon, <2>4, <2>6 DEF Inv, AcceptedFits
  <2> QED
    BY Zenon, <2>5, <2>6
<1> QED
  BY <1>1, ProposalsInvariance, PTL
=============================================================================
