--------------------------- MODULE DurableDelivery ---------------------------
(***************************************************************************)
(* How the durable commands of one trip travel from PostgreSQL to the      *)
(* planner: the gateway's transactions that record a command, the outbox   *)
(* dispatcher and the runtime supervisor of each backend process, the      *)
(* runtime lease they compete for, and the planner's version record.       *)
(*                                                                         *)
(* A PostgreSQL transaction is one step.  An exchange with the planner is  *)
(* three: the request enters the backend's stream, the planner executes    *)
(* it, the answer is used.  A request can be lost, an answer can be lost,  *)
(* and a request whose sender has given up can still be executed.  Clocks  *)
(* appear as the steps in which a claim or a lease expires.                *)
(***************************************************************************)
EXTENDS TripRuntimeVersions, Sequences, FiniteSets

CONSTANTS
  Backends,     \* backend processes, by LIVEROUTE_BACKEND_INSTANCE_ID
  MaxSeq,       \* bound on mutation sequences
  MaxEpoch,     \* bound on runtime epochs
  MaxMirrors,   \* MaxPendingCanonicalMirror
  WireCapacity, \* bound on requests in a backend's stream
  Faults        \* what may go wrong in this instance

AllFaults == {"loss",              \* requests and answers are lost
              "rejection",         \* the planner rejects a command for good
              "expiry",            \* a renewed lease expires before it is renewed again
              "release",           \* the trip is deactivated
              "planner_restart",
              "backend_restart"}

ASSUME DurableDeliveryAssumption ==
  /\ MaxSeq \in Nat \ {0} /\ MaxSeq < MaxU64
  /\ MaxEpoch \in Nat \ {0} /\ MaxEpoch <= MaxU64
  /\ MaxMirrors \in Nat
  /\ WireCapacity \in Nat
  /\ Faults \subseteq AllFaults

VARIABLES
  trip,        \* the trips row
  rows,        \* command_intents and planner_outbox, by mutation sequence
  lease,       \* trip_runtime_leases; epoch 0 when there is no row
  versions,    \* the planner's version record of the trip
  wire,        \* requests on their way to the planner, per backend
  dispatcher,  \* the outbox dispatcher of each backend
  supervisor   \* the activation of the trip in each backend

database == <<trip, rows>>
vars == <<database, lease, versions, wire, dispatcher, supervisor>>

Seqs    == 2 .. MaxSeq     \* CreateTrip itself has used sequence 1
NoOwner == "no owner"
NoLease == [holder |-> NoOwner, epoch |-> 0, live |-> FALSE]

Row == [order : {"none", "runtime_first", "canonical_first"},
        expected : 0 .. MaxSeq,
        intent : {"pending", "applied", "rejected"},
        sync : {"not_required", "pending", "synced", "paused_internal"},
        delivery : {"pending", "accepted", "terminal_rejected", "paused_internal"},
        confirmed : BOOLEAN,
        claim : Backends \cup {NoOwner}]

NoRow == [order |-> "none", expected |-> 0, intent |-> "pending", sync |-> "not_required",
          delivery |-> "pending", confirmed |-> FALSE, claim |-> NoOwner]

(* seq is the finalized sequence of a bootstrap, and revision the expected  *)
(* revision of an event.  awaited: the sender has not given up.             *)
Request == [kind : {"apply", "confirm", "bootstrap"}, epoch : 1 .. MaxEpoch,
            seq : 1 .. MaxSeq, revision : 0 .. MaxSeq, awaited : BOOLEAN]

Statuses == {"none", "accepted", "rejected", "duplicate", "inactive", "invalid_argument",
             "stale_epoch", "stale_mutation_sequence", "stale_trip_revision"}

Ack == [status : Statuses, epoch : 0 .. MaxEpoch, revision : 0 .. MaxSeq + 1,
        accepted : 0 .. MaxSeq, finalized : 0 .. MaxSeq]

NoAck == [status |-> "none", epoch |-> 0, revision |-> 0, accepted |-> 0, finalized |-> 0]

(* recovery: the confirmation in progress is one of recoverConfirmations.   *)
Dispatcher == [at : {"idle", "recovered", "claimed", "applying", "applied",
                     "finalized", "confirming", "confirmed"},
               seq : 0 .. MaxSeq, epoch : 0 .. MaxEpoch, recovery : BOOLEAN, ack : Ack]

Idle == [at |-> "idle", seq |-> 0, epoch |-> 0, recovery |-> FALSE, ack |-> NoAck]

Supervisor == [at : {"inactive", "acquired", "bootstrapping", "bootstrapped", "active"},
               epoch : 0 .. MaxEpoch, revision : 0 .. MaxSeq, finalized : 0 .. MaxSeq,
               ack : Ack]

Unheld == [at |-> "inactive", epoch |-> 0, revision |-> 0, finalized |-> 0, ack |-> NoAck]

TypeOK ==
  /\ trip \in [revision : 1 .. MaxSeq, next : 2 .. MaxSeq + 1, finalized : 1 .. MaxSeq]
  /\ rows \in [Seqs -> Row]
  /\ lease \in [holder : Backends \cup {NoOwner}, epoch : 0 .. MaxEpoch, live : BOOLEAN]
  /\ versions \in Versions
  /\ wire \in [Backends -> Seq(Request)]
  /\ dispatcher \in [Backends -> Dispatcher]
  /\ supervisor \in [Backends -> Supervisor]

(* A trip as CreateTrip leaves it.                                          *)
Init ==
  /\ trip = [revision |-> 1, next |-> 2, finalized |-> 1]
  /\ rows = [s \in Seqs |-> NoRow]
  /\ lease = NoLease
  /\ versions = Inactive
  /\ wire = [b \in Backends |-> <<>>]
  /\ dispatcher = [b \in Backends |-> Idle]
  /\ supervisor = [b \in Backends |-> Unheld]

(* The same trip once backend b has activated it.                           *)
ActiveInit ==
  /\ trip = [revision |-> 1, next |-> 2, finalized |-> 1]
  /\ rows = [s \in Seqs |-> NoRow]
  /\ versions = Bootstrapped(1, 1, 1, 0)
  /\ wire = [b \in Backends |-> <<>>]
  /\ dispatcher = [b \in Backends |-> Idle]
  /\ \E b \in Backends :
       /\ lease = [holder |-> b, epoch |-> 1, live |-> TRUE]
       /\ supervisor = [c \in Backends |->
            IF c = b THEN [Unheld EXCEPT !.at = "active", !.epoch = 1] ELSE Unheld]

Recorded == {s \in Seqs : rows[s] # NoRow}
Resolved(s) == s \in Recorded /\ rows[s].delivery \in {"accepted", "terminal_rejected"}
Unresolved(s) == s \in Recorded /\ rows[s].delivery \in {"pending", "paused_internal"}
-----------------------------------------------------------------------------
(* Commands.  Both kinds take the next sequence and compare the revision    *)
(* the client saw; the expected revision is then the trip's.                *)
NewRow(order) ==
  [order |-> order, expected |-> trip.revision,
   intent |-> IF order = "runtime_first" THEN "pending" ELSE "applied",
   sync |-> IF order = "runtime_first" THEN "not_required" ELSE "pending",
   delivery |-> "pending", confirmed |-> FALSE, claim |-> NoOwner]

(* Mutant: a command is recorded while an earlier one is undecided.         *)
RecordUnblocked ==
  /\ trip.next \in Seqs
  /\ rows' = [rows EXCEPT ![trip.next] = NewRow("runtime_first")]
  /\ trip' = [trip EXCEPT !.next = @ + 1]
  /\ UNCHANGED <<lease, versions, wire, dispatcher, supervisor>>

RecordRuntimeFirst ==
  /\ trip.next \in Seqs
  /\ \A s \in Recorded : /\ rows[s].intent # "pending"
                         /\ rows[s].sync \notin {"pending", "paused_internal"}
  /\ rows' = [rows EXCEPT ![trip.next] = NewRow("runtime_first")]
  /\ trip' = [trip EXCEPT !.next = @ + 1]
  /\ UNCHANGED <<lease, versions, wire, dispatcher, supervisor>>

(* Mutant: an edit is recorded while a runtime-first command is undecided.  *)
RecordCanonicalUnblocked ==
  /\ trip.next \in Seqs
  /\ rows' = [rows EXCEPT ![trip.next] = NewRow("canonical_first")]
  /\ trip' = [revision |-> trip.revision + 1, next |-> trip.next + 1,
              finalized |-> trip.next]
  /\ UNCHANGED <<lease, versions, wire, dispatcher, supervisor>>

(* An edit of the saved plan: PostgreSQL has the result before the planner. *)
RecordCanonicalFirst ==
  /\ trip.next \in Seqs
  /\ \A s \in Recorded : rows[s].intent # "pending"
  /\ Cardinality({s \in Recorded : rows[s].sync \in {"pending", "paused_internal"}})
       < MaxMirrors
  /\ rows' = [rows EXCEPT ![trip.next] = NewRow("canonical_first")]
  /\ trip' = [revision |-> trip.revision + 1, next |-> trip.next + 1,
              finalized |-> trip.next]
  /\ UNCHANGED <<lease, versions, wire, dispatcher, supervisor>>

-----------------------------------------------------------------------------
(* The lease.                                                               *)
Current(b) == lease.holder = b /\ lease.live

Acquire(b) ==
  /\ supervisor[b].at = "inactive"
  /\ ~lease.live
  /\ lease.epoch < MaxEpoch
  /\ lease' = [holder |-> b, epoch |-> lease.epoch + 1, live |-> TRUE]
  /\ supervisor' = [supervisor EXCEPT ![b] = [Unheld EXCEPT !.at = "acquired"]]
  /\ UNCHANGED <<database, versions, wire, dispatcher>>

(* Only an active trip's lease is renewed.                                  *)
Renewed == \E b \in Backends :
  Current(b) /\ supervisor[b].at = "active" /\ supervisor[b].epoch = lease.epoch

LeaseExpires ==
  /\ lease.live
  /\ Renewed => "expiry" \in Faults
  /\ lease' = [lease EXCEPT !.live = FALSE]
  /\ UNCHANGED <<database, versions, wire, dispatcher, supervisor>>

(* Renew finds the lease expired, taken over or released.                   *)
LeaseLost(b) ==
  /\ supervisor[b].at = "active"
  /\ ~(Current(b) /\ lease.epoch = supervisor[b].epoch)
  /\ supervisor' = [supervisor EXCEPT ![b] = Unheld]
  /\ UNCHANGED <<database, lease, versions, wire, dispatcher>>

-----------------------------------------------------------------------------
(* Requests.                                                                *)
HasRoom(b) == Len(wire[b]) < WireCapacity

Send(b, kind, epoch, seq, revision) ==
  wire' = [wire EXCEPT ![b] = Append(@, [kind |-> kind, epoch |-> epoch, seq |-> seq,
                                         revision |-> revision, awaited |-> TRUE])]

(* The sender of the given kinds of request stops waiting.                  *)
Abandoned(b, kinds) ==
  [wire EXCEPT ![b] = [i \in DOMAIN @ |->
     IF @[i].kind \in kinds THEN [@[i] EXCEPT !.awaited = FALSE] ELSE @[i]]]

(* Deactivate of the supervisor deletes the lease row: of the epoch it      *)
(* activated, or of the current lease while it is still activating, which   *)
(* also cancels the bootstrap.                                              *)
Release(b) ==
  /\ "release" \in Faults
  /\ supervisor[b].at # "inactive"
  /\ lease' = IF (IF supervisor[b].at = "active"
                  THEN lease.holder = b /\ lease.epoch = supervisor[b].epoch
                  ELSE Current(b))
              THEN NoLease ELSE lease
  /\ supervisor' = [supervisor EXCEPT ![b] = Unheld]
  /\ wire' = Abandoned(b, {"bootstrap"})
  /\ UNCHANGED <<database, versions, dispatcher>>

(* The answer carries the planner's versions v after the request.           *)
Answer(b, r, status, v) ==
  LET ack == [status |-> status, epoch |-> v.epoch, revision |-> v.revision,
              accepted |-> v.accepted, finalized |-> v.finalized]
  IN  /\ dispatcher' = IF r.awaited /\ r.kind # "bootstrap"
                       THEN [dispatcher EXCEPT ![b].ack = ack,
                               ![b].at = IF r.kind = "apply" THEN "applied" ELSE "confirmed"]
                       ELSE dispatcher
      /\ supervisor' = IF r.awaited /\ r.kind = "bootstrap"
                       THEN [supervisor EXCEPT ![b].ack = ack, ![b].at = "bootstrapped"]
                       ELSE supervisor
      /\ versions' = v
      /\ wire' = [wire EXCEPT ![b] = Tail(@)]
      /\ UNCHANGED <<database, lease>>

(* Mutant: an event that was consumed before is applied again.              *)
DeliverApply_again(b, r) ==
  LET status == preview_durable(versions, r.epoch, r.seq, r.revision, Unspecified)
  IN  IF status \in {"accepted", "duplicate"}
      THEN Answer(b, r, "accepted", accept_durable(versions, r.seq))
      ELSE Answer(b, r, status, versions)

(* The planner executes an event.  It may reject a runtime-first command    *)
(* (expired, or not applicable to its state), which uses up the sequence.   *)
DeliverApply(b, r) ==
  LET status == preview_durable(versions, r.epoch, r.seq, r.revision, Unspecified)
  IN  \/ /\ status = "accepted"
         /\ Answer(b, r, "accepted", accept_durable(versions, r.seq))
      \/ /\ status = "accepted"
         /\ "rejection" \in Faults
         /\ rows[r.seq].order = "runtime_first"
         /\ Answer(b, r, "rejected", resolve_terminal_durable(versions, r.seq))
      \/ /\ status # "accepted"
         /\ Answer(b, r, status, versions)

DeliverConfirm(b, r) ==
  LET status == confirm_finalized_status(versions, r.epoch, r.seq)
  IN  Answer(b, r, status,
             IF status = "accepted" THEN confirm_finalized(versions, r.seq) ELSE versions)

DeliverBootstrap(b, r) ==
  LET status == bootstrap_status(versions, r.epoch, r.revision, r.seq, 0)
  IN  Answer(b, r, status,
             IF status = "accepted" THEN Bootstrapped(r.epoch, r.revision, r.seq, 0)
             ELSE versions)

Deliver(b) ==
  /\ wire[b] # <<>>
  /\ LET r == Head(wire[b])
     IN  \/ r.kind = "apply" /\ DeliverApply(b, r)
         \/ r.kind = "confirm" /\ DeliverConfirm(b, r)
         \/ r.kind = "bootstrap" /\ DeliverBootstrap(b, r)

Drop(b) ==
  /\ "loss" \in Faults
  /\ wire[b] # <<>>
  /\ wire' = [wire EXCEPT ![b] = Tail(@)]
  /\ UNCHANGED <<database, lease, versions, dispatcher, supervisor>>

-----------------------------------------------------------------------------
(* Activation: Acquire above, then Bootstrap of the Bootstrapper.           *)
Fail(b) == supervisor' = [supervisor EXCEPT ![b] = Unheld]

(* Mutant: the bootstrap carries the last recorded sequence as finalized.   *)
SendBootstrap_recorded(b) ==
  /\ supervisor[b].at = "acquired"
  /\ Current(b)
  /\ HasRoom(b)
  /\ Send(b, "bootstrap", lease.epoch, trip.next - 1, trip.revision)
  /\ supervisor' = [supervisor EXCEPT ![b] =
       [Unheld EXCEPT !.at = "bootstrapping", !.epoch = lease.epoch,
                      !.revision = trip.revision, !.finalized = trip.next - 1]]
  /\ UNCHANGED <<database, lease, versions, dispatcher>>

SendBootstrap(b) ==
  /\ supervisor[b].at = "acquired"
  /\ \/ /\ Current(b)
        /\ HasRoom(b)
        /\ Send(b, "bootstrap", lease.epoch, trip.finalized, trip.revision)
        /\ supervisor' = [supervisor EXCEPT ![b] =
             [Unheld EXCEPT !.at = "bootstrapping", !.epoch = lease.epoch,
                            !.revision = trip.revision, !.finalized = trip.finalized]]
     \/ /\ ~Current(b)
        /\ Fail(b)
        /\ UNCHANGED wire
  /\ UNCHANGED <<database, lease, versions, dispatcher>>

(* Mutant: every recorded mirror is taken for covered, whatever was loaded. *)
Covers_everything(ack) == TRUE

(* The trip has not moved on since it was loaded, and no runtime-first      *)
(* command it covers is undecided.                                          *)
Covers(ack) ==
  /\ trip.revision = ack.revision
  /\ trip.finalized = ack.finalized
  /\ \A s \in Recorded :
       (s <= ack.finalized /\ rows[s].order = "runtime_first") => ~Unresolved(s)

ResolveCanonicalBootstrap(b) ==
  /\ supervisor[b].at = "bootstrapped"
  /\ LET me == supervisor[b]
         matches == /\ me.ack.status \in {"accepted", "duplicate"}
                    /\ me.ack.epoch = me.epoch
                    /\ me.ack.revision = me.revision
                    /\ me.ack.accepted = me.finalized
                    /\ me.ack.finalized = me.finalized
     IN  \/ /\ matches
            /\ Covers(me.ack)
            /\ rows' = [s \in Seqs |->
                 IF s \notin Recorded \/ s > trip.finalized THEN rows[s]
                 ELSE IF rows[s].order = "canonical_first" /\ Unresolved(s)
                 THEN [rows[s] EXCEPT !.sync = "synced", !.delivery = "accepted",
                                      !.confirmed = TRUE, !.claim = NoOwner]
                 ELSE [rows[s] EXCEPT !.confirmed = TRUE]]
            /\ supervisor' = [supervisor EXCEPT ![b] =
                                [Unheld EXCEPT !.at = "active", !.epoch = me.epoch]]
         \/ /\ ~(matches /\ Covers(me.ack))
            /\ Fail(b)
            /\ UNCHANGED rows
  /\ UNCHANGED <<trip, lease, versions, wire, dispatcher>>

(* The bootstrap exchange times out, or its answer is lost.                 *)
BootstrapTimeout(b) ==
  /\ "loss" \in Faults
  /\ supervisor[b].at \in {"bootstrapping", "bootstrapped"}
  /\ Fail(b)
  /\ wire' = Abandoned(b, {"bootstrap"})
  /\ UNCHANGED <<database, lease, versions, dispatcher>>

-----------------------------------------------------------------------------
(* The dispatcher.  RunOnce first recovers confirmations, then claims.      *)
Unconfirmed == {s \in Seqs : Resolved(s) /\ ~rows[s].confirmed}

(* Mutant: a pass goes straight to the claims.                              *)
RecoverConfirmations_skipped(b) ==
  /\ dispatcher[b].at = "idle"
  /\ dispatcher' = [dispatcher EXCEPT ![b].at = "recovered"]
  /\ UNCHANGED <<wire, database, lease, versions, supervisor>>

RecoverConfirmations(b) ==
  /\ dispatcher[b].at = "idle"
  /\ IF Unconfirmed # {} /\ Current(b)
     THEN /\ HasRoom(b)
          /\ \E s \in Unconfirmed :
               /\ \A t \in Unconfirmed : t <= s
               /\ Send(b, "confirm", lease.epoch, s, 0)
               /\ dispatcher' = [dispatcher EXCEPT ![b] =
                    [Idle EXCEPT !.at = "confirming", !.seq = s, !.epoch = lease.epoch,
                                 !.recovery = TRUE]]
     ELSE /\ dispatcher' = [dispatcher EXCEPT ![b].at = "recovered"]
          /\ UNCHANGED wire
  /\ UNCHANGED <<database, lease, versions, supervisor>>

(* Mutant: rows of a trip are claimed in any order.                         *)
Due_unordered(s) ==
  s \in Recorded /\ rows[s].delivery = "pending" /\ rows[s].claim = NoOwner

(* A row is due when it is unclaimed and no earlier row is unresolved; the  *)
(* pass also ends when nothing is due.                                      *)
Due(s) ==
  /\ s \in Recorded
  /\ rows[s].delivery = "pending"
  /\ rows[s].claim = NoOwner
  /\ \A t \in Recorded : t < s => ~Unresolved(t)

ClaimDue(b) ==
  /\ dispatcher[b].at = "recovered"
  /\ \/ \E s \in Seqs :
          /\ Due(s)
          /\ rows' = [rows EXCEPT ![s].claim = b]
          /\ dispatcher' = [dispatcher EXCEPT ![b] = [Idle EXCEPT !.at = "claimed", !.seq = s]]
     \/ /\ \A s \in Seqs : ~Due(s)
        /\ dispatcher' = [dispatcher EXCEPT ![b] = Idle]
        /\ UNCHANGED rows
  /\ UNCHANGED <<trip, lease, versions, wire, supervisor>>

ClaimExpires(s) ==
  /\ s \in Recorded
  /\ rows[s].claim # NoOwner
  /\ rows' = [rows EXCEPT ![s].claim = NoOwner]
  /\ UNCHANGED <<trip, lease, versions, wire, dispatcher, supervisor>>

Done(b) == dispatcher' = [dispatcher EXCEPT ![b] = Idle]

HoldsClaim(b) ==
  LET row == rows[dispatcher[b].seq] IN row.claim = b /\ row.delivery = "pending"

(* ReleaseForRetry and PauseInternal do nothing without the claim.          *)
ReleaseForRetry(b) ==
  rows' = IF HoldsClaim(b) THEN [rows EXCEPT ![dispatcher[b].seq].claim = NoOwner] ELSE rows

PauseInternal(b) ==
  rows' = IF HoldsClaim(b)
          THEN [rows EXCEPT ![dispatcher[b].seq].claim = NoOwner,
                            ![dispatcher[b].seq].delivery = "paused_internal"]
          ELSE rows

Dispatch(b) ==
  /\ dispatcher[b].at = "claimed"
  /\ LET s == dispatcher[b].seq
     IN  \/ /\ Current(b)
            /\ HasRoom(b)
            /\ Send(b, "apply", lease.epoch, s, rows[s].expected)
            /\ dispatcher' = [dispatcher EXCEPT ![b].at = "applying", ![b].epoch = lease.epoch]
            /\ UNCHANGED rows
         \/ /\ ~Current(b)
            /\ ReleaseForRetry(b)
            /\ Done(b)
            /\ UNCHANGED wire
  /\ UNCHANGED <<trip, lease, versions, supervisor>>

(* Mutant: an exchange that timed out counts as delivered.                  *)
ApplyTimeout_delivered(b) ==
  /\ "loss" \in Faults
  /\ dispatcher[b].at \in {"applying", "applied"}
  /\ rows' = [rows EXCEPT ![dispatcher[b].seq].delivery = "accepted"]
  /\ Done(b)
  /\ wire' = Abandoned(b, {"apply"})
  /\ UNCHANGED <<trip, lease, versions, supervisor>>

(* The event's exchange times out, or its answer is lost.                   *)
ApplyTimeout(b) ==
  /\ "loss" \in Faults
  /\ dispatcher[b].at \in {"applying", "applied"}
  /\ ReleaseForRetry(b)
  /\ Done(b)
  /\ wire' = Abandoned(b, {"apply"})
  /\ UNCHANGED <<trip, lease, versions, supervisor>>

-----------------------------------------------------------------------------
(* What dispatch makes of the answer.                                       *)
Succeeded(ack) == ack.status \in {"accepted", "duplicate"}
Retryable(ack) == ack.status = "inactive"

(* The answer resolves the row: it is of the dispatching epoch and covers   *)
(* the sequence; a mirror must have been applied.                           *)
Resolves(b) ==
  LET me == dispatcher[b]
  IN  /\ ~Retryable(me.ack)
      /\ rows[me.seq].order = "canonical_first" => Succeeded(me.ack)
      /\ me.ack.epoch = me.epoch
      /\ me.ack.accepted >= me.seq

Retry(b) ==
  /\ dispatcher[b].at = "applied"
  /\ Retryable(dispatcher[b].ack)
  /\ ReleaseForRetry(b)
  /\ Done(b)
  /\ UNCHANGED <<trip, lease, versions, wire, supervisor>>

Pause(b) ==
  /\ dispatcher[b].at = "applied"
  /\ ~Retryable(dispatcher[b].ack)
  /\ ~Resolves(b)
  /\ PauseInternal(b)
  /\ Done(b)
  /\ UNCHANGED <<trip, lease, versions, wire, supervisor>>

ToConfirm(b) ==
  dispatcher' = [dispatcher EXCEPT ![b].at = "finalized", ![b].ack = NoAck]

(* A row that was finalized before matches this outcome only if the planner *)
(* state version is also the one stored, which observations may have moved. *)
SameOutcome(b, applied) ==
  /\ rows[dispatcher[b].seq].intent = (IF applied THEN "applied" ELSE "rejected")
  /\ ToConfirm(b) \/ Done(b)

(* Mutants: the intent's state and the order are not looked at.             *)
FinalizeRuntimeFirst_twice(b) ==
  /\ dispatcher[b].at = "applied"
  /\ Resolves(b)
  /\ rows[dispatcher[b].seq].order = "runtime_first"
  /\ rows' = [rows EXCEPT ![dispatcher[b].seq].intent = "applied",
                          ![dispatcher[b].seq].delivery = "accepted",
                          ![dispatcher[b].seq].claim = NoOwner]
  /\ trip' = [trip EXCEPT !.finalized = dispatcher[b].seq, !.revision = @ + 1]
  /\ ToConfirm(b)
  /\ UNCHANGED <<lease, versions, wire, supervisor>>

FinalizeRuntimeFirst_again(b) ==
  /\ dispatcher[b].at = "applied"
  /\ Resolves(b)
  /\ LET s == dispatcher[b].seq
         applied == Succeeded(dispatcher[b].ack)
     IN  /\ rows[s].order = "runtime_first"
         /\ rows' = [rows EXCEPT
              ![s].intent = IF applied THEN "applied" ELSE "rejected",
              ![s].delivery = IF applied THEN "accepted" ELSE "terminal_rejected",
              ![s].claim = NoOwner]
         /\ trip' = [trip EXCEPT !.finalized = s,
                                 !.revision = rows[s].expected + (IF applied THEN 1 ELSE 0)]
         /\ ToConfirm(b)
  /\ UNCHANGED <<lease, versions, wire, supervisor>>

(* Finalize: FinalizeAcceptedMutation or FinalizeTerminal.  The transaction *)
(* looks at the trip and the intent only, not at the claim or the lease.    *)
FinalizeRuntimeFirst(b) ==
  /\ dispatcher[b].at = "applied"
  /\ Resolves(b)
  /\ LET s == dispatcher[b].seq
         applied == Succeeded(dispatcher[b].ack)
         inOrder == trip.revision = rows[s].expected /\ trip.finalized + 1 = s
     IN  /\ rows[s].order = "runtime_first"
         /\ \/ /\ rows[s].intent = "pending"
               /\ inOrder
               /\ rows' = [rows EXCEPT
                    ![s].intent = IF applied THEN "applied" ELSE "rejected",
                    ![s].delivery = IF applied THEN "accepted" ELSE "terminal_rejected",
                    ![s].claim = NoOwner]
               /\ trip' = [trip EXCEPT !.finalized = s,
                                       !.revision = IF applied THEN @ + 1 ELSE @]
               /\ ToConfirm(b)
            \/ /\ rows[s].intent # "pending"
               /\ SameOutcome(b, applied)
               /\ UNCHANGED database
            \/ /\ IF rows[s].intent = "pending" THEN ~inOrder
                  ELSE rows[s].intent # (IF applied THEN "applied" ELSE "rejected")
               /\ Done(b)
               /\ UNCHANGED database
  /\ UNCHANGED <<lease, versions, wire, supervisor>>

FinalizeCanonicalMirror(b) ==
  /\ dispatcher[b].at = "applied"
  /\ Resolves(b)
  /\ LET s == dispatcher[b].seq
         identityMatches == dispatcher[b].ack.revision = rows[s].expected + 1
     IN  /\ rows[s].order = "canonical_first"
         /\ \/ /\ rows[s].delivery = "pending"
               /\ rows' = [rows EXCEPT
                    ![s].sync = IF identityMatches THEN "synced" ELSE "paused_internal",
                    ![s].delivery = IF identityMatches THEN "accepted" ELSE "paused_internal",
                    ![s].claim = NoOwner]
               /\ IF identityMatches THEN ToConfirm(b) ELSE Done(b)
            \/ /\ rows[s].delivery # "pending"
               /\ IF rows[s].delivery = "accepted" /\ identityMatches
                  THEN ToConfirm(b) ELSE Done(b)
               /\ UNCHANGED rows
  /\ UNCHANGED <<trip, lease, versions, wire, supervisor>>

-----------------------------------------------------------------------------
(* The confirmation after a finalization uses the epoch of the dispatch.    *)
SendConfirm(b) ==
  /\ dispatcher[b].at = "finalized"
  /\ HasRoom(b)
  /\ Send(b, "confirm", dispatcher[b].epoch, dispatcher[b].seq, 0)
  /\ dispatcher' = [dispatcher EXCEPT ![b].at = "confirming"]
  /\ UNCHANGED <<database, lease, versions, supervisor>>

Confirms(me) ==
  /\ Succeeded(me.ack)
  /\ me.ack.epoch = me.epoch
  /\ me.ack.finalized >= me.seq

(* A failed confirmation ends the pass, also a recovering one.              *)
ConfirmFinalizedMutations(b) ==
  /\ dispatcher[b].at = "confirmed"
  /\ LET me == dispatcher[b]
         blocked == \E s \in Recorded : s <= me.seq /\ Unresolved(s)
     IN  \/ /\ Confirms(me)
            /\ ~blocked
            /\ rows' = [s \in Seqs |->
                 IF s \in Recorded /\ s <= me.seq
                 THEN [rows[s] EXCEPT !.confirmed = TRUE] ELSE rows[s]]
            /\ dispatcher' = [dispatcher EXCEPT ![b] =
                 [Idle EXCEPT !.at = IF me.recovery THEN "recovered" ELSE "idle"]]
         \/ /\ ~Confirms(me) \/ blocked
            /\ Done(b)
            /\ UNCHANGED rows
  /\ UNCHANGED <<trip, lease, versions, wire, supervisor>>

ConfirmTimeout(b) ==
  /\ "loss" \in Faults
  /\ dispatcher[b].at \in {"confirming", "confirmed"}
  /\ Done(b)
  /\ wire' = Abandoned(b, {"confirm"})
  /\ UNCHANGED <<database, lease, versions, supervisor>>

-----------------------------------------------------------------------------
(* The planner keeps nothing over a restart.  Requests in flight may be     *)
(* lost with the stream, or wait for the next one.                          *)
PlannerRestart ==
  /\ "planner_restart" \in Faults
  /\ IsActive(versions)
  /\ versions' = Inactive
  /\ UNCHANGED <<database, lease, wire, dispatcher, supervisor>>

BackendRestart(b) ==
  /\ "backend_restart" \in Faults
  /\ dispatcher' = [dispatcher EXCEPT ![b] = Idle]
  /\ supervisor' = [supervisor EXCEPT ![b] = Unheld]
  /\ wire' = Abandoned(b, {"apply", "confirm", "bootstrap"})
  /\ UNCHANGED <<database, lease, versions>>

-----------------------------------------------------------------------------
Dispatching(b) ==
  \/ RecoverConfirmations(b)
  \/ ClaimDue(b)
  \/ Dispatch(b)
  \/ Retry(b)
  \/ Pause(b)
  \/ FinalizeRuntimeFirst(b)
  \/ FinalizeCanonicalMirror(b)
  \/ SendConfirm(b)
  \/ ConfirmFinalizedMutations(b)

Activating(b) ==
  \/ Acquire(b)
  \/ SendBootstrap(b)
  \/ ResolveCanonicalBootstrap(b)
  \/ LeaseLost(b)
  \/ Release(b)

Timeout(b) == ApplyTimeout(b) \/ ConfirmTimeout(b) \/ BootstrapTimeout(b)

Next ==
  \/ RecordRuntimeFirst
  \/ RecordCanonicalFirst
  \/ LeaseExpires
  \/ \E s \in Seqs : ClaimExpires(s)
  \/ PlannerRestart
  \/ \E b \in Backends :
       \/ Dispatching(b)
       \/ Activating(b)
       \/ Timeout(b)
       \/ Deliver(b)
       \/ Drop(b)
       \/ BackendRestart(b)

Spec == Init /\ [][Next]_vars

ActiveSpec == ActiveInit /\ [][Next]_vars

(* The dispatcher's loop runs on, every exchange has a deadline, and one    *)
(* that is repeated for ever is answered in time again and again.  Nothing  *)
(* is assumed of a single attempt.                                          *)
DeliverAwaited(b) == wire[b] # <<>> /\ Head(wire[b]).awaited /\ Deliver(b)

Fairness ==
  \A b \in Backends :
    /\ WF_vars(Dispatching(b))
    /\ WF_vars(Deliver(b))
    /\ WF_vars(Timeout(b))
    /\ SF_vars(DeliverAwaited(b))
    /\ SF_vars(FinalizeRuntimeFirst(b) \/ FinalizeCanonicalMirror(b))
    /\ SF_vars(ConfirmFinalizedMutations(b))

FairActiveSpec == ActiveSpec /\ Fairness

-----------------------------------------------------------------------------
(* PostgreSQL decides the commands of a trip one after the other: exactly   *)
(* the sequences up to the finalized one are decided, at most one           *)
(* runtime-first command is open beyond it and expects the trip's revision, *)
(* and the revision counts the commands that were applied.                  *)
FinalizedPrefix ==
  /\ Recorded = 2 .. trip.next - 1
  /\ \A s \in Recorded :
       IF s <= trip.finalized THEN rows[s].intent # "pending"
       ELSE /\ s = trip.finalized + 1
            /\ rows[s].intent = "pending"
            /\ rows[s].expected = trip.revision
  /\ trip.revision = 1 + Cardinality({s \in Recorded : rows[s].intent = "applied"})

(* The planner runs ahead of PostgreSQL by at most the one undecided        *)
(* command, and never takes for finalized what PostgreSQL has not           *)
(* finalized, so no snapshot it offers covers an effect that can be lost.   *)
PlannerIsAtMostOneAhead ==
  /\ versions.finalized <= trip.finalized
  /\ versions.accepted > trip.finalized =>
       /\ versions.accepted = trip.finalized + 1
       /\ versions.accepted \in Recorded
       /\ rows[versions.accepted].intent = "pending"

(* An edit that PostgreSQL shows as synced is in the planner of the current *)
(* lease: no takeover, restart or late answer marks a mirror synced that    *)
(* this planner never received.                                             *)
SyncedMirrorIsInPlanner ==
  IsActive(versions) /\ versions.epoch = lease.epoch =>
    \A s \in Recorded : rows[s].sync = "synced" => s <= versions.accepted

(* The same of every command, also runtime-first ones: what PostgreSQL has  *)
(* resolved is in the planner of the current lease.                         *)
ResolvedIsInPlanner ==
  IsActive(versions) /\ versions.epoch = lease.epoch =>
    \A s \in Seqs : Resolved(s) => s <= versions.accepted

(* When the planner of the current lease has consumed the same commands as  *)
(* PostgreSQL it has the same trip revision: both gave every command the    *)
(* same outcome.                                                            *)
PlannerAgrees ==
  (IsActive(versions) /\ versions.epoch = lease.epoch /\ versions.accepted = trip.finalized)
    => versions.revision = trip.revision

(* No command of an undamaged system ends up paused for an operator: what   *)
(* is recorded is accepted, rejected, or retried.                           *)
NothingIsPaused == \A s \in Recorded : rows[s].delivery # "paused_internal"

(* The outcome of a command, once decided, never changes, and the finalized *)
(* watermark and the trip revision never go back.                           *)
OutcomeIsFinal ==
  [][/\ trip'.finalized >= trip.finalized
     /\ trip'.revision >= trip.revision
     /\ \A s \in Recorded : rows[s].intent # "pending" => rows'[s].intent = rows[s].intent]_vars

(* Every command is eventually resolved and its finalization confirmed to   *)
(* the planner, whatever requests and answers are lost on the way.          *)
EveryCommandIsConfirmed ==
  \A s \in Seqs : (s \in Recorded) ~> (Resolved(s) /\ rows[s].confirmed)
=============================================================================
