------------------------------ MODULE TripState ------------------------------
(***************************************************************************)
(* The trip the planner holds in memory, and what an event does to it:     *)
(* domain::TripState and apply_trip_event.  An activity is its id and its  *)
(* state, a plan the order of its segments; times, places and the other    *)
(* attributes of an activity decide nothing here.                          *)
(***************************************************************************)
EXTENDS Integers, Sequences, FiniteSets

CONSTANT Activities   \* activity ids

None == "none"

(* Completed and skipped activities are told apart nowhere below.           *)
ActivityState == {"planned", "started", "terminal"}
is_terminal(s) == s = "terminal"

(* Sequences of activities.  Position is 0 for an activity that is not in   *)
(* the sequence, the first place of one that is.                            *)
ToSet(seq) == {seq[i] : i \in DOMAIN seq}
IsInjective(seq) == \A i, j \in DOMAIN seq : seq[i] = seq[j] => i = j
InsertAt(seq, i, a) == SubSeq(seq, 1, i - 1) \o <<a>> \o SubSeq(seq, i, Len(seq))

Position(seq, a) ==
  IF a \in ToSet(seq)
  THEN CHOOSE i \in DOMAIN seq : seq[i] = a /\ \A j \in 1 .. i - 1 : seq[j] # a
  ELSE 0

(* order: the activities in trip order; state: the state of each;           *)
(* plan: the activity of each segment; prefix: completed_prefix_count;      *)
(* current: current_activity_id; delays: the keys of travel_delays;         *)
(* proposal: the id of active_proposal.                                     *)
CoversExactly(seq, ids) == Len(seq) = Cardinality(ids) /\ ToSet(seq) = ids

(* TripState::is_valid                                                      *)
StartedAt(t) == {i \in DOMAIN t.plan : t.state[t.plan[i]] = "started"}

is_valid(t) ==
  /\ CoversExactly(t.plan, ToSet(t.order))
  /\ t.prefix <= Len(t.order)
  /\ \A i \in DOMAIN t.plan : (i <= t.prefix) <=> is_terminal(t.state[t.plan[i]])
  /\ StartedAt(t) \subseteq {t.prefix + 1}
  /\ IF t.current = None THEN StartedAt(t) = {}
     ELSE StartedAt(t) = {t.prefix + 1} /\ t.plan[t.prefix + 1] = t.current
  /\ t.delays \subseteq ToSet(t.order) \X ToSet(t.order)

-----------------------------------------------------------------------------
(* apply_activity_status_change: the index test of each state and its       *)
(* effect on the prefix and on the current activity.                        *)
StatusAllowed(t, a, s) ==
  LET i == Position(t.plan, a)
  IN  IF s = "planned" THEN i > t.prefix
      ELSE i = t.prefix + 1 /\ t.current \in {None, a}

apply_activity_status_change(t, a, s) ==
  [t EXCEPT !.state[a] = s,
            !.prefix = IF is_terminal(s) THEN @ + 1 ELSE @,
            !.current = CASE s = "started" -> a
                          [] is_terminal(s) -> None
                          [] OTHER -> IF @ = a THEN None ELSE @]

(* What the four operations of TripEdited do to the activities.  The        *)
(* operation carries the resulting plan; normalize_current_activity bounds  *)
(* the prefix and drops a current activity that is gone.                    *)
EditedActivities(t, edit) ==
  CASE edit.kind = "add" ->
         [t EXCEPT !.order = InsertAt(@, edit.ordinal + 1, edit.activity),
                   !.state = [a \in DOMAIN @ \cup {edit.activity} |->
                                IF a = edit.activity THEN edit.state ELSE @[a]]]
    [] edit.kind = "replace" -> [t EXCEPT !.state[edit.activity] = edit.state]
    [] edit.kind = "remove" ->
         [t EXCEPT !.order = SelectSeq(@, LAMBDA a : a # edit.activity),
                   !.state = [a \in DOMAIN @ \ {edit.activity} |-> @[a]],
                   !.delays = {d \in @ : d[1] # edit.activity /\ d[2] # edit.activity}]
    [] edit.kind = "reorder" -> [t EXCEPT !.order = edit.order]

normalize_current_activity(t) ==
  [t EXCEPT !.prefix = IF @ > Len(t.order) THEN Len(t.order) ELSE @,
            !.current = IF @ \in ToSet(t.order) THEN @ ELSE None]

(* TripEdited::is_valid_for: an operation that fits the activities, and a   *)
(* plan whose segments are in trip order.                                   *)
EditFits(t, edit) ==
  LET ids == ToSet(t.order)
  IN  /\ CASE edit.kind = "add" -> edit.activity \notin ids /\ edit.ordinal <= Len(t.order)
           [] edit.kind = "reorder" -> CoversExactly(edit.order, ids)
           [] OTHER -> edit.activity \in ids
      /\ edit.plan = EditedActivities(t, edit).order

-----------------------------------------------------------------------------
(* apply_trip_event: the status, and the state that replaces t when the     *)
(* event is accepted.  Every durable event drops the active proposal.       *)
TargetsExist(t, event) ==
  CASE event.kind = "activity_status_changed" -> event.activity \in ToSet(t.order)
    [] event.kind = "detail_changed" -> event.activity \in ToSet(t.order)
    [] event.kind = "travel_delay" -> {event.from, event.to} \subseteq ToSet(t.order)
    [] event.kind = "trip_edited" -> EditFits(t, event.edit)
    [] event.kind = "current_plan_replaced" -> CoversExactly(event.plan, ToSet(t.order))
    [] event.kind = "accept_proposal" ->
         event.plan # None /\ CoversExactly(event.plan, ToSet(t.order))
    [] event.kind = "reject_proposal" -> TRUE

Applied(t, event) ==
  LET u == [t EXCEPT !.proposal = None]
  IN  CASE event.kind = "activity_status_changed" ->
             apply_activity_status_change(u, event.activity, event.state)
        [] event.kind = "travel_delay" -> [u EXCEPT !.delays = @ \cup {<<event.from, event.to>>}]
        [] event.kind = "trip_edited" ->
             normalize_current_activity([EditedActivities(u, event.edit) EXCEPT
                                           !.plan = event.edit.plan])
        [] event.kind \in {"current_plan_replaced", "accept_proposal"} ->
             [u EXCEPT !.plan = event.plan]
        [] OTHER -> u

apply_status(t, event) ==
  IF ~TargetsExist(t, event) THEN "invalid_argument"
  ELSE IF /\ event.kind \in {"accept_proposal", "reject_proposal"}
          /\ t.proposal # event.proposal
  THEN "stale_proposal"
  ELSE IF /\ event.kind = "activity_status_changed"
          /\ ~StatusAllowed(t, event.activity, event.state)
  THEN "invalid_argument"
  ELSE IF ~is_valid(Applied(t, event)) THEN "invalid_argument"
  ELSE "accepted"

=============================================================================
