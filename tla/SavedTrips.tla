----------------------------- MODULE SavedTrips -----------------------------
(***************************************************************************)
(* The saved trips of one user as SavedTripStore keeps them: the inactive  *)
(* trip with its saved plan, the HTTP operations that edit it, and the two *)
(* transitions that start and end its execution.  Every operation is one   *)
(* transaction that locks the trip row (Activate locks the user row first);*)
(* a repeated Idempotency-Key replays the stored answer and changes        *)
(* nothing, so a retry is not an action.                                   *)
(*                                                                         *)
(* A saved plan is a function from the activities to their row: the        *)
(* ordinal, and whether the activity has a schedule.                       *)
(***************************************************************************)
EXTENDS Integers, FiniteSets

CONSTANTS
  Trips,          \* the ids the user's trips have over time
  Items,          \* the ids of the saved activities
  MaxRevision,    \* bound: the largest trip revision
  MaxSeq,         \* bound: the largest mutation sequence
  MaxActivities   \* maxSavedActivities (64 in the code)

ASSUME SavedTripsAssumption ==
  /\ MaxRevision \in Nat /\ MaxSeq \in Nat
  /\ MaxActivities \in Nat /\ MaxActivities > 0
  /\ IsFiniteSet(Items)

VARIABLES
  trips,   \* the row of every trip and its pending execution operation
  saved    \* the activities of the trip's current saved plan

savedVars == <<trips, saved>>

ExecutionState ==
  {"absent", "inactive", "activating", "active", "deactivating", "deleted"}

Executing == {"activating", "active", "deactivating"}

(* An execution operation is named by the mutation sequence (activation) or *)
(* by the plan (deactivation) it was recorded for.                          *)
Operation ==
  [kind : {"none", "activate", "deactivate"}, id : Nat, source : Nat]

NoOperation == [kind |-> "none", id |-> 0, source |-> 0]

(* The one runtime-first command that may be unresolved; seq 0 is none.     *)
NoCommand == [seq |-> 0, paused |-> FALSE, revision |-> 0]

TripRow ==
  [state : ExecutionState, revision : Nat, next : Nat, finalized : Nat, plan : Nat,
   op : Operation, cmd : [seq : Nat, paused : BOOLEAN, revision : Nat]]

Absent ==
  [state |-> "absent", revision |-> 0, next |-> 0, finalized |-> 0, plan |-> 0,
   op |-> NoOperation, cmd |-> NoCommand]

PlanRow == [ordinal : Nat, scheduled : BOOLEAN]

IsSavedPlan(plan) ==
  DOMAIN plan \subseteq Items /\ plan \in [DOMAIN plan -> PlanRow]

NoPlan == [x \in {} |-> [ordinal |-> 0, scheduled |-> FALSE]]

Exists(t) == trips[t].state \notin {"absent", "deleted"}

-----------------------------------------------------------------------------
(* validateCreateSavedTrip and validSavedActivityInput: the n activities    *)
(* carry the ordinals 0 .. n-1.                                             *)
Contiguous(plan) ==
  {plan[x].ordinal : x \in DOMAIN plan} = 0 .. Cardinality(DOMAIN plan) - 1

Plans(ids) ==
  {plan \in [ids -> [ordinal : 0 .. Cardinality(ids) - 1, scheduled : BOOLEAN]] :
     Contiguous(plan)}

Init ==
  /\ trips = [t \in Trips |-> Absent]
  /\ saved = [t \in Trips |-> NoPlan]

Create(t) ==
  /\ trips[t].state = "absent"
  /\ \E ids \in SUBSET Items \ {{}} :
       /\ Cardinality(ids) <= MaxActivities
       /\ \E plan \in Plans(ids) : saved' = [saved EXCEPT ![t] = plan]
  /\ trips' = [trips EXCEPT ![t] =
                 [Absent EXCEPT !.state = "inactive", !.revision = 1, !.next = 1]]

(* lockInactiveSavedTrip, with a client that sends the revision it read.    *)
CanEdit(t) ==
  /\ trips[t].state = "inactive"
  /\ trips[t].revision < MaxRevision

(* Every edit writes a new saved plan and advances the trip revision.       *)
Edited(t, plan) ==
  /\ saved' = [saved EXCEPT ![t] = plan]
  /\ trips' = [trips EXCEPT ![t].revision = @ + 1]

(* Update changes the title, the date or the zone and copies the plan.      *)
Update(t) == CanEdit(t) /\ Edited(t, saved[t])

Delete(t) ==
  /\ trips[t].state = "inactive"
  /\ trips' = [trips EXCEPT ![t] = [Absent EXCEPT !.state = "deleted"]]
  /\ saved' = [saved EXCEPT ![t] = NoPlan]

-----------------------------------------------------------------------------
(* The CASE of copySavedActivitiesForMutation: where the row at ord goes    *)
(* when an activity is added at target, deleted from old, or moved from old *)
(* to target.                                                               *)
AddShift(ord, target) == IF ord >= target THEN ord + 1 ELSE ord

DeleteShift(ord, old) == IF ord > old THEN ord - 1 ELSE ord

(* Mutant: only a move to the front shifts the other rows.                  *)
ReplaceShift_down_only(ord, old, target) ==
  IF target < old /\ target <= ord /\ ord < old THEN ord + 1 ELSE ord

ReplaceShift(ord, old, target) ==
  CASE target < old /\ target <= ord /\ ord < old -> ord + 1
    [] target > old /\ old < ord /\ ord <= target -> ord - 1
    [] OTHER -> ord

Row(ord, scheduled) == [ordinal |-> ord, scheduled |-> scheduled]

AddActivity(t) ==
  LET plan == saved[t]  n == Cardinality(DOMAIN plan)
  IN  /\ CanEdit(t)
      /\ n < MaxActivities
      /\ \E x \in Items \ DOMAIN plan, target \in 0 .. n, s \in BOOLEAN :
           Edited(t, [y \in DOMAIN plan \cup {x} |->
                        IF y = x THEN Row(target, s)
                        ELSE [plan[y] EXCEPT !.ordinal = AddShift(@, target)]])

ReplaceActivity(t) ==
  LET plan == saved[t]  n == Cardinality(DOMAIN plan)
  IN  /\ CanEdit(t)
      /\ \E x \in DOMAIN plan, target \in 0 .. n - 1, s \in BOOLEAN :
           Edited(t, [y \in DOMAIN plan |->
                        IF y = x THEN Row(target, s)
                        ELSE [plan[y] EXCEPT !.ordinal =
                                ReplaceShift(@, plan[x].ordinal, target)]])

DeleteActivity(t) ==
  LET plan == saved[t]
  IN  /\ CanEdit(t)
      /\ Cardinality(DOMAIN plan) > 1
      /\ \E x \in DOMAIN plan :
           Edited(t, [y \in DOMAIN plan \ {x} |->
                        [plan[y] EXCEPT !.ordinal =
                           DeleteShift(@, plan[x].ordinal)]])

-----------------------------------------------------------------------------
(* Mutant: the other trips of the user are not looked at.                   *)
CanActivate_beside_another(t) ==
  /\ trips[t].state = "inactive"
  /\ \A x \in DOMAIN saved[t] : saved[t][x].scheduled
  /\ trips[t].next < MaxSeq

(* Activate is refused while another trip of the user executes, and for a   *)
(* plan with an activity that has no schedule.                              *)
CanActivate(t) ==
  /\ trips[t].state = "inactive"
  /\ \A u \in Trips \ {t} : trips[u].state \notin Executing
  /\ \A x \in DOMAIN saved[t] : saved[t][x].scheduled
  /\ trips[t].next < MaxSeq

(* Mutant: the activation does not consume the sequence it records.         *)
Activate_without_sequence(t) ==
  /\ CanActivate(t)
  /\ trips' = [trips EXCEPT ![t] =
       [trips[t] EXCEPT !.state = "activating", !.plan = trips[t].next,
                        !.finalized = trips[t].next,
                        !.op = [kind |-> "activate", id |-> trips[t].next,
                                source |-> trips[t].revision]]]
  /\ UNCHANGED saved

(* The saved plan becomes an execution plan, which consumes a mutation      *)
(* sequence; the operation that is to complete the transition is recorded.  *)
Activate(t) ==
  /\ CanActivate(t)
  /\ trips' = [trips EXCEPT ![t] =
       [trips[t] EXCEPT !.state = "activating", !.plan = trips[t].next,
                        !.next = @ + 1, !.finalized = trips[t].next,
                        !.op = [kind |-> "activate", id |-> trips[t].next,
                                source |-> trips[t].revision]]]
  /\ UNCHANGED saved

(* CompleteActivation's checks on the trip and the operation; the caller    *)
(* adds the lease.                                                          *)
CanCompleteActivation(t, op) ==
  /\ trips[t].state = "activating"
  /\ trips[t].op = op
  /\ op.kind = "activate"
  /\ op.source = trips[t].revision

CompleteActivation(t) ==
  /\ trips' = [trips EXCEPT ![t].state = "active", ![t].op = NoOperation]
  /\ UNCHANGED saved

(* Deactivate admits active and activating trips, but the unique index on   *)
(* pending operations refuses a second one beside an unfinished activation. *)
Deactivate(t) ==
  /\ trips[t].state \in {"active", "activating"}
  /\ trips[t].op = NoOperation
  /\ trips' = [trips EXCEPT ![t].state = "deactivating",
                            ![t].op = [kind |-> "deactivate", id |-> trips[t].plan,
                                       source |-> trips[t].revision]]
  /\ UNCHANGED saved

CanCompleteDeactivation(t, op) ==
  /\ trips[t].state = "deactivating"
  /\ trips[t].op = op
  /\ op.kind = "deactivate"

(* Mutant: the operation stays pending.                                     *)
CompleteDeactivation_keeping_op(t) ==
  /\ trips' = [trips EXCEPT ![t].state = "inactive", ![t].plan = 0]
  /\ UNCHANGED saved

CompleteDeactivation(t) ==
  /\ trips' = [trips EXCEPT ![t].state = "inactive", ![t].plan = 0,
                            ![t].op = NoOperation]
  /\ UNCHANGED saved

Edit(t) ==
  \/ Create(t) \/ Update(t) \/ Delete(t)
  \/ AddActivity(t) \/ ReplaceActivity(t) \/ DeleteActivity(t)

-----------------------------------------------------------------------------
(* RecordRuntimeFirst on the trip's row: it looks at the revision and at    *)
(* unresolved commands, not at the execution state.                         *)
RecordCommand(t) ==
  /\ Exists(t)
  /\ trips[t].cmd = NoCommand
  /\ trips[t].next < MaxSeq /\ trips[t].revision < MaxRevision
  /\ trips' = [trips EXCEPT ![t].next = @ + 1,
                            ![t].cmd = [seq |-> trips[t].next, paused |-> FALSE,
                                        revision |-> trips[t].revision]]
  /\ UNCHANGED saved

(* FinalizeAcceptedMutation and FinalizeTerminal take the next sequence     *)
(* only; an accepted change needs the rows of the executing trip.           *)
CanFinalize(t, applied) ==
  /\ trips[t].cmd # NoCommand
  /\ trips[t].cmd.seq = trips[t].finalized + 1
  /\ trips[t].cmd.revision = trips[t].revision
  /\ applied => trips[t].state \in Executing

Finalize(t, applied) ==
  /\ trips' = [trips EXCEPT ![t].finalized = trips[t].cmd.seq, ![t].cmd = NoCommand,
                            ![t].revision = IF applied THEN @ + 1 ELSE @]
  /\ UNCHANGED saved

(* The dispatcher stops retrying a command the planner calls stale.         *)
PauseCommand(t) ==
  /\ trips' = [trips EXCEPT ![t].cmd.paused = TRUE]
  /\ UNCHANGED saved

-----------------------------------------------------------------------------
(* What the store does by itself, whoever calls it and whenever.            *)
SavedNext ==
  \E t \in Trips :
    \/ Edit(t)
    \/ Activate(t)
    \/ CanCompleteActivation(t, trips[t].op) /\ CompleteActivation(t)
    \/ Deactivate(t)
    \/ CanCompleteDeactivation(t, trips[t].op) /\ CompleteDeactivation(t)
    \/ RecordCommand(t)
    \/ \E applied \in BOOLEAN : CanFinalize(t, applied) /\ Finalize(t, applied)
    \/ trips[t].cmd # NoCommand /\ PauseCommand(t)

SavedSpec == Init /\ [][SavedNext]_savedVars

-----------------------------------------------------------------------------
(* The checks the trips table makes: a trip has a plan exactly when it      *)
(* executes, and an operation exactly in a transition; the finalized        *)
(* sequence and an unresolved command are below the next one.               *)
Consistent(r) ==
  /\ r.state \in Executing <=> r.plan # 0
  /\ r.state = "activating" <=> r.op.kind = "activate"
  /\ r.state = "deactivating" <=> r.op.kind = "deactivate"
  /\ r.state \in {"absent", "deleted"} => r.cmd = NoCommand
  /\ r.state \notin {"absent", "deleted"} => r.finalized < r.next /\ r.cmd.seq < r.next

(* Type invariant, with the consistency of every row.                       *)
SavedTypeOK ==
  /\ trips \in [Trips -> TripRow]
  /\ \A t \in Trips : Consistent(trips[t])
  /\ DOMAIN saved = Trips
  /\ \A t \in Trips : IsSavedPlan(saved[t])

(* At most one trip of the user executes (saved_trip_execution.go, Activate)*)
(* however activations, deactivations and their recovery interleave.        *)
OneExecutingTrip ==
  \A t, u \in Trips :
    trips[t].state \in Executing /\ trips[u].state \in Executing => t = u

(* After any sequence of insertions, moves and deletions the activities of  *)
(* a saved plan carry the ordinals 0 .. n-1, each of them once: the CASE of *)
(* copySavedActivitiesForMutation leaves no gap and makes no duplicate.     *)
OrdinalsAreContiguous ==
  \A t \in Trips :
    /\ Contiguous(saved[t])
    /\ \A x, y \in DOMAIN saved[t] : saved[t][x].ordinal = saved[t][y].ordinal => x = y

(* What a step does to the sequence of a trip that goes on to exist.        *)
SequenceAdvances(t) ==
  Exists(t) /\ trips'[t].state # "deleted" =>
    /\ trips'[t].next >= trips[t].next
    /\ trips'[t].finalized >= trips[t].finalized
    /\ trips[t].op # trips'[t].op /\ trips'[t].op.kind = "activate"
         => trips'[t].op.id = trips[t].next /\ trips'[t].next > trips[t].next

(* The durable sequence of a trip is never reset or reused: not by an       *)
(* activation, not by a command, not by the end of an execution; and what   *)
(* is finalized stays finalized.                                            *)
SequenceNeverReused == [][\A t \in Trips : SequenceAdvances(t)]_savedVars

=============================================================================
