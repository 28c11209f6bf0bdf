------------------------ MODULE DurableDeliveryProofs ------------------------
(***************************************************************************)
(* Proofs about DurableDelivery, for any number of backends, commands,     *)
(* epochs and faults: PostgreSQL decides the commands of a trip one after  *)
(* the other, a decision is final, and the planner runs ahead by at most   *)
(* the undecided command.  Every action keeps the invariant of             *)
(* DurableDeliveryInvariant.                                               *)
(***************************************************************************)
EXTENDS DurableDeliveryInvariant

-----------------------------------------------------------------------------
(* Requests stay in order while the trip only moves on and whoever waits    *)
(* goes on waiting.                                                         *)
Grown == /\ trip'.finalized \in Int /\ trip'.next \in Int
         /\ trip'.finalized >= trip.finalized
         /\ trip'.next >= trip.next

DispatcherWaits(b) ==
  dispatcher[b].at \in {"applying", "confirming"} => dispatcher'[b].at = dispatcher[b].at

SupervisorWaits(b) ==
  supervisor[b].at = "bootstrapping" => supervisor'[b].at = "bootstrapping"

(* One request, which may have been abandoned meanwhile.                    *)
LEMMA RequestStays ==
  ASSUME TypeOK, Grown, NEW b \in Backends, NEW r \in Request, RequestFits(b, r),
         NEW q \in Request, q.kind = r.kind, q.seq = r.seq, q.awaited => r.awaited,
         q.awaited /\ q.kind # "bootstrap" => DispatcherWaits(b),
         q.awaited /\ q.kind = "bootstrap" => SupervisorWaits(b)
  PROVE  RequestFits(b, q)'
<1>1. /\ r.kind = "apply" => r.seq \in 2 .. trip.next - 1
      /\ r.kind # "apply" => r.seq <= trip.finalized
  BY Zenon DEF RequestFits
<1>2. /\ q.kind = "apply" => q.seq \in 2 .. trip'.next - 1
      /\ q.kind # "apply" => q.seq <= trip'.finalized
  BY <1>1, InWire DEF Grown, Request
<1>3. CASE ~q.awaited
  BY Zenon, <1>2, <1>3 DEF RequestFits
<1>4. CASE q.awaited
  <2>1. CASE q.kind = "apply"
    BY Zenon, <1>2, <1>4, <2>1 DEF RequestFits, DispatcherWaits
  <2>2. CASE q.kind = "confirm"
    BY Zenon, <1>2, <1>4, <2>2 DEF RequestFits, DispatcherWaits
  <2>3. CASE q.kind = "bootstrap"
    BY Zenon, <1>2, <1>4, <2>3 DEF RequestFits, SupervisorWaits
  <2> QED BY Zenon, <2>1, <2>2, <2>3 DEF Request
<1> QED BY Zenon, <1>3, <1>4

(* The requests of one stream that no step touches.                         *)
LEMMA WireKept ==
  ASSUME TypeOK, WireFits, Grown, NEW b \in Backends, wire'[b] = wire[b],
         DispatcherWaits(b), SupervisorWaits(b)
  PROVE  (/\ \A i \in DOMAIN wire[b] : RequestFits(b, wire[b][i])
          /\ AwaitedOnce(b))'
<1>1. AwaitedOnce(b)'
  BY Zenon DEF WireFits, AwaitedOnce
<1>2. ASSUME NEW i \in DOMAIN wire'[b]
      PROVE  RequestFits(b, wire[b][i])'
  <2>1. RequestFits(b, wire[b][i]) /\ wire[b][i] \in Request
    BY Zenon, InWire DEF WireFits
  <2>2. PICK q \in Request : q = wire[b][i]
    BY Zenon, <2>1
  <2>3. RequestFits(b, q)
    BY Zenon, <2>1, <2>2
  <2>4. RequestFits(b, q)'
    BY Zenon, <2>3, RequestStays
  <2> QED BY Zenon, <2>2, <2>4
<1> QED BY Zenon, <1>1, <1>2

(* The requests of all streams.                                             *)
LEMMA WireUnchanged ==
  ASSUME TypeOK, WireFits, Grown, UNCHANGED wire,
         \A b \in Backends : DispatcherWaits(b) /\ SupervisorWaits(b)
  PROVE  WireFits'
  BY Zenon, WireKept DEF WireFits

(* A request is sent by a worker that was not waiting.                      *)
LEMMA WireSent ==
  ASSUME TypeOK, WireFits, Grown, NEW b \in Backends, NEW r \in Request,
         wire' = [wire EXCEPT ![b] = Append(@, r)],
         RequestFits(b, r)',
         r.kind # "bootstrap" => dispatcher[b].at \notin {"applying", "confirming"},
         r.kind = "bootstrap" => supervisor[b].at # "bootstrapping",
         \A c \in Backends : DispatcherWaits(c) /\ SupervisorWaits(c)
  PROVE  WireFits' /\ wire' \in [Backends -> Seq(Request)]
<1>1. /\ Append(wire[b], r) \in Seq(Request)
      /\ DOMAIN Append(wire[b], r) = 1 .. Len(wire[b]) + 1
      /\ \A i \in DOMAIN wire[b] : Append(wire[b], r)[i] = wire[b][i]
      /\ Append(wire[b], r)[Len(wire[b]) + 1] = r
      /\ DOMAIN wire[b] = 1 .. Len(wire[b]) /\ Len(wire[b]) \in Nat
  BY Zenon, InWire, AppendShape
<1>2. wire' \in [Backends -> Seq(Request)] /\ wire'[b] = Append(wire[b], r)
  BY Zenon, <1>1 DEF TypeOK
<1>3. ASSUME NEW c \in Backends, c # b
      PROVE  (/\ \A i \in DOMAIN wire[c] : RequestFits(c, wire[c][i])
              /\ AwaitedOnce(c))'
  BY Zenon, <1>3, WireKept DEF TypeOK
<1>4. ASSUME NEW i \in DOMAIN wire[b]
      PROVE  /\ wire[b][i] \in Request
             /\ RequestFits(b, wire[b][i])
             /\ wire'[b][i] = wire[b][i]
             /\ wire[b][i].awaited
                  => (wire[b][i].kind = "bootstrap") # (r.kind = "bootstrap")
  <2>1. wire[b][i] \in Request /\ RequestFits(b, wire[b][i])
    BY Zenon, InWire DEF WireFits
  <2> QED BY Zenon, <1>1, <1>2, <2>1 DEF RequestFits, Request
<1>5. ASSUME NEW i \in DOMAIN wire'[b]
      PROVE  RequestFits(b, wire[b][i])'
  <2>1. CASE i \in DOMAIN wire[b]
    <3>1. PICK q \in Request : q = wire[b][i]
      BY Zenon, <1>4, <2>1
    <3>2. RequestFits(b, q)'
      BY Zenon, <1>4, <2>1, <3>1, RequestStays
    <3> QED BY Zenon, <1>4, <2>1, <3>1, <3>2
  <2>2. CASE i = Len(wire[b]) + 1
    BY Zenon, <1>1, <1>2, <2>2
  <2> QED BY <1>1, <1>2, <2>1, <2>2
<1>6. AwaitedOnce(b)'
  <2> SUFFICES ASSUME NEW i \in DOMAIN wire'[b], NEW j \in DOMAIN wire'[b],
                      wire'[b][i].awaited, wire'[b][j].awaited,
                      (wire'[b][i].kind = "bootstrap") = (wire'[b][j].kind = "bootstrap")
               PROVE  i = j
    BY DEF AwaitedOnce
  <2>1. CASE i \in DOMAIN wire[b] /\ j \in DOMAIN wire[b]
    BY <1>4, <2>1 DEF WireFits, AwaitedOnce
  <2>2. CASE i = Len(wire[b]) + 1 \/ j = Len(wire[b]) + 1
    BY <1>1, <1>2, <1>4, <2>2
  <2> QED BY <1>1, <1>2, <2>1, <2>2
<1> QED BY Zenon, <1>2, <1>3, <1>5, <1>6 DEF WireFits

(* The first request is taken out; only who waited for it goes on.          *)
LEMMA WirePopped ==
  ASSUME TypeOK, WireFits, Grown, NEW b \in Backends, wire[b] # <<>>,
         wire' = [wire EXCEPT ![b] = Tail(@)],
         \A c \in Backends \ {b} : DispatcherWaits(c) /\ SupervisorWaits(c),
         ~(Head(wire[b]).awaited /\ Head(wire[b]).kind # "bootstrap") => DispatcherWaits(b),
         ~(Head(wire[b]).awaited /\ Head(wire[b]).kind = "bootstrap") => SupervisorWaits(b)
  PROVE  WireFits' /\ wire' \in [Backends -> Seq(Request)]
<1>1. /\ Head(wire[b]) \in Request /\ Head(wire[b]) = wire[b][1] /\ 1 \in DOMAIN wire[b]
      /\ Tail(wire[b]) \in Seq(Request)
      /\ \A i \in DOMAIN Tail(wire[b]) :
           i + 1 \in DOMAIN wire[b] /\ i + 1 # 1 /\ Tail(wire[b])[i] = wire[b][i + 1]
      /\ DOMAIN wire[b] \subseteq Int /\ DOMAIN Tail(wire[b]) \subseteq Int
  BY Zenon, InWire, TailShape
<1>2. wire' \in [Backends -> Seq(Request)] /\ wire'[b] = Tail(wire[b])
  BY Zenon, <1>1 DEF TypeOK
<1>3. ASSUME NEW c \in Backends, c # b
      PROVE  (/\ \A i \in DOMAIN wire[c] : RequestFits(c, wire[c][i])
              /\ AwaitedOnce(c))'
  BY Zenon, <1>3, WireKept DEF TypeOK
<1>4. ASSUME NEW i \in DOMAIN wire'[b]
      PROVE  RequestFits(b, wire[b][i])'
  <2>1. PICK q \in Request : q = wire[b][i + 1]
    BY Zenon, <1>1, <1>2, InWire
  <2>2. RequestFits(b, q)
    BY Zenon, <1>1, <1>2, <2>1 DEF WireFits
  <2>3. q.awaited /\ Head(wire[b]).awaited
          => (q.kind = "bootstrap") # (Head(wire[b]).kind = "bootstrap")
    BY <1>1, <1>2, <2>1 DEF WireFits, AwaitedOnce
  <2>4. RequestFits(b, q)'
    BY Zenon, <2>2, <2>3, RequestStays
  <2> QED BY Zenon, <1>1, <1>2, <2>1, <2>4
<1>5. AwaitedOnce(b)'
  <2> SUFFICES ASSUME NEW i \in DOMAIN wire'[b], NEW j \in DOMAIN wire'[b],
                      wire'[b][i].awaited, wire'[b][j].awaited,
                      (wire'[b][i].kind = "bootstrap") = (wire'[b][j].kind = "bootstrap")
               PROVE  i = j
    BY Zenon DEF AwaitedOnce
  <2>1. i + 1 = j + 1
    BY <1>1, <1>2 DEF WireFits, AwaitedOnce
  <2> QED BY <1>1, <1>2, <2>1
<1> QED BY <1>2, <1>3, <1>4, <1>5 DEF WireFits

(* Whoever stops waiting has abandoned what it waited for.                  *)
LEMMA WireAbandoned ==
  ASSUME TypeOK, WireFits, Grown, NEW b \in Backends, NEW kinds,
         wire' = Abandoned(b, kinds),
         \A c \in Backends \ {b} : DispatcherWaits(c) /\ SupervisorWaits(c),
         {"apply", "confirm"} \subseteq kinds \/ DispatcherWaits(b)
           \/ ("apply" \in kinds /\ dispatcher[b].at # "confirming")
           \/ ("confirm" \in kinds /\ dispatcher[b].at # "applying"),
         "bootstrap" \in kinds \/ SupervisorWaits(b)
  PROVE  WireFits' /\ wire' \in [Backends -> Seq(Request)]
<1>1. /\ wire' \in [Backends -> Seq(Request)]
      /\ \A c \in Backends :
              /\ DOMAIN wire'[c] = DOMAIN wire[c]
              /\ \A i \in DOMAIN wire[c] :
                   LET q == wire[c][i]  r == wire'[c][i]
                   IN  /\ r.kind = q.kind /\ r.epoch = q.epoch /\ r.seq = q.seq
                       /\ r.revision = q.revision
                       /\ r.awaited => q.awaited
                       /\ c = b /\ q.kind \in kinds => ~r.awaited
  BY AbandonedShape DEF TypeOK
<1>2. ASSUME NEW c \in Backends
      PROVE  AwaitedOnce(c)'
  <2>1. AwaitedOnce(c)
    BY Zenon DEF WireFits
  <2>2. /\ DOMAIN wire'[c] = DOMAIN wire[c]
        /\ \A i \in DOMAIN wire[c] : /\ wire'[c][i].kind = wire[c][i].kind
                                     /\ wire'[c][i].awaited => wire[c][i].awaited
    BY Zenon, <1>1
  <2> QED BY <2>1, <2>2 DEF AwaitedOnce
<1>3. ASSUME NEW c \in Backends, NEW i \in DOMAIN wire'[c]
      PROVE  RequestFits(c, wire[c][i])'
  <2>1. PICK q \in Request : q = wire[c][i]
    BY <1>1, InWire
  <2>2. PICK r \in Request : r = wire'[c][i]
    BY <1>1
  <2>3. RequestFits(c, q)
    BY <1>1, <2>1 DEF WireFits
  <2>4. /\ r.kind = q.kind /\ r.seq = q.seq
        /\ r.awaited => q.awaited
        /\ c = b /\ q.kind \in kinds => ~r.awaited
    BY <1>1, <2>1, <2>2
  <2>5. r.awaited /\ r.kind # "bootstrap" => DispatcherWaits(c)
    <3>1. CASE q.kind = "apply"
      BY <2>3, <2>4, <3>1 DEF RequestFits
    <3>2. CASE q.kind = "confirm"
      BY Zenon, <2>3, <2>4, <3>2 DEF RequestFits
    <3> QED BY <2>4, <3>1, <3>2 DEF Request
  <2>6. r.awaited /\ r.kind = "bootstrap" => SupervisorWaits(c)
    BY Zenon, <2>4
  <2>7. RequestFits(c, r)'
    BY Zenon, <2>3, <2>4, <2>5, <2>6, RequestStays
  <2> QED BY Zenon, <2>2, <2>7
<1> QED BY Zenon, <1>1, <1>2, <1>3 DEF WireFits

(* A step that keeps the rows keeps what the invariant says of the rows and *)
(* of the trip.                                                             *)
LEMMA KeptRows ==
  ASSUME Inv, RowsKept
  PROVE  /\ Recorded' = Recorded
         /\ RowsFit'
         /\ DecidedPrefix'
         /\ trip' = trip /\ Grown
         /\ PlannerIsAtMostOneAhead /\ versions' = versions => PlannerIsAtMostOneAhead'
<1>1. Recorded' = Recorded
  <2>1. \A s \in Seqs : rows'[s] # NoRow <=> rows'[s].order # "none"
    BY DEF Inv, RowsFit, RowsKept, RowKept, NoRow
  <2>2. Recorded' = {s \in Seqs : rows'[s].order # "none"}
    BY Zenon, <2>1 DEF Recorded
  <2> QED BY <2>2, RecordedRows DEF RowsKept, RowKept
<1>2. RowsFit'
  BY DEF Inv, RowsFit, RowsKept, RowKept
<1>3. DecidedPrefix'
  <2>1. \A s \in Recorded : s \in Seqs
    BY DEF Recorded
  <2>2. DecidedPrefix /\ trip' = trip
    BY Zenon DEF Inv, RowsKept
  <2>3. \A s \in Recorded : rows'[s].intent = rows[s].intent /\ rows'[s].expected = rows[s].expected
    BY Zenon, <2>1 DEF RowsKept, RowKept
  <2> QED BY Zenon, <1>1, <2>2, <2>3 DEF DecidedPrefix
<1>4. trip' = trip /\ Grown
  BY DEF RowsKept, Grown, Inv, TypeOK
<1>5. PlannerIsAtMostOneAhead /\ versions' = versions => PlannerIsAtMostOneAhead'
  <2>1. \A s \in Recorded : s \in Seqs
    BY Zenon DEF Recorded
  <2> QED BY <1>1, <1>4, <2>1 DEF PlannerIsAtMostOneAhead, RowsKept, RowKept
<1> QED BY Zenon, <1>1, <1>2, <1>3, <1>4, <1>5

(* A dispatcher fits when the watermarks have grown.                        *)
LEMMA FitsStill ==
  ASSUME NEW d \in Dispatcher, NEW n \in Int, NEW f \in Int, NEW m \in Int, NEW g \in Int,
         DispatcherFits(d, n, f), n <= m, f <= g
  PROVE  DispatcherFits(d, m, g)
<1>1. d.seq \in Int
  BY DEF Dispatcher
<1> QED BY <1>1 DEF DispatcherFits

(* A worker of one backend moves; the trip may have moved on.               *)
LEMMA DispatcherMoves ==
  ASSUME Inv, Grown, NEW b \in Backends, NEW d \in Dispatcher,
         dispatcher' = [dispatcher EXCEPT ![b] = d],
         DispatcherFits(d, trip'.next, trip'.finalized)
  PROVE  /\ dispatcher' \in [Backends -> Dispatcher]
         /\ DispatchersFit'
         /\ dispatcher'[b] = d
         /\ \A c \in Backends \ {b} : DispatcherWaits(c)
<1>1. dispatcher \in [Backends -> Dispatcher]
  BY Zenon DEF Inv, TypeOK
<1>2. \A c \in Backends \ {b} : dispatcher'[c] = dispatcher[c]
  BY <1>1
<1>3. ASSUME NEW c \in Backends \ {b}
      PROVE  DispatcherFits(dispatcher[c], trip'.next, trip'.finalized)
  <2>1. DispatcherFits(dispatcher[c], trip.next, trip.finalized) /\ dispatcher[c] \in Dispatcher
    BY Zenon, <1>1 DEF Inv, DispatchersFit
  <2>2. trip.next \in Int /\ trip.finalized \in Int
    BY DEF Inv, TypeOK
  <2> QED BY Zenon, <2>1, <2>2, FitsStill DEF Grown
<1> QED BY <1>1, <1>2, <1>3 DEF DispatchersFit, DispatcherWaits

(* No dispatcher moves.                                                     *)
LEMMA DispatchersStay ==
  ASSUME Inv, Grown, UNCHANGED dispatcher
  PROVE  /\ dispatcher' \in [Backends -> Dispatcher]
         /\ DispatchersFit'
         /\ \A c \in Backends : DispatcherWaits(c)
<1>1. dispatcher \in [Backends -> Dispatcher]
  BY DEF Inv, TypeOK
<1>2. ASSUME NEW c \in Backends
      PROVE  DispatcherFits(dispatcher[c], trip'.next, trip'.finalized)
  <2>1. DispatcherFits(dispatcher[c], trip.next, trip.finalized) /\ dispatcher[c] \in Dispatcher
    BY <1>1 DEF Inv, DispatchersFit
  <2>2. trip.next \in Int /\ trip.finalized \in Int
    BY DEF Inv, TypeOK
  <2> QED BY Zenon, <2>1, <2>2, FitsStill DEF Grown
<1> QED BY Zenon, <1>1, <1>2 DEF DispatchersFit, DispatcherWaits

(* One supervisor moves.                                                    *)
LEMMA SupervisorMoves ==
  ASSUME Inv, NEW b \in Backends, NEW u \in Supervisor,
         supervisor' = [supervisor EXCEPT ![b] = u]
  PROVE  /\ supervisor' \in [Backends -> Supervisor]
         /\ supervisor'[b] = u
         /\ \A c \in Backends \ {b} : SupervisorWaits(c)
  BY DEF Inv, TypeOK, SupervisorWaits

(* No supervisor moves.                                                     *)
LEMMA SupervisorsStay ==
  ASSUME Inv, UNCHANGED supervisor
  PROVE  /\ supervisor' \in [Backends -> Supervisor]
         /\ \A c \in Backends : SupervisorWaits(c)
  BY DEF Inv, TypeOK, SupervisorWaits

(* What a step that decides no command has to keep.                         *)
LEMMA LeasePreserved ==
  ASSUME Inv, RowsKept, UNCHANGED versions,
         lease' \in [holder : Backends \cup {NoOwner}, epoch : 0 .. MaxEpoch, live : BOOLEAN],
         lease'.live => lease'.epoch # 0,
         wire' \in [Backends -> Seq(Request)], WireFits',
         dispatcher' \in [Backends -> Dispatcher], DispatchersFit',
         supervisor' \in [Backends -> Supervisor]
  PROVE  Inv'
<1>1. TypeOK'
  BY Zenon DEF Inv, TypeOK, RowsKept
<1>2. Ordered' /\ VersionsFit'
  BY Zenon DEF Inv, Ordered, VersionsFit, RowsKept
<1>3. RowsFit' /\ DecidedPrefix' /\ PlannerIsAtMostOneAhead'
  BY Zenon, KeptRows DEF Inv
<1> QED BY Zenon, <1>1, <1>2, <1>3 DEF Inv

(* The same, and the lease is left alone.                                   *)
LEMMA Preserved ==
  ASSUME Inv, RowsKept, UNCHANGED <<lease, versions>>,
         wire' \in [Backends -> Seq(Request)], WireFits',
         dispatcher' \in [Backends -> Dispatcher], DispatchersFit',
         supervisor' \in [Backends -> Supervisor]
  PROVE  Inv'
<1>1. /\ lease' \in [holder : Backends \cup {NoOwner}, epoch : 0 .. MaxEpoch, live : BOOLEAN]
      /\ lease'.live => lease'.epoch # 0
  BY Zenon DEF Inv, TypeOK, Ordered
<1> QED BY Zenon, <1>1, LeasePreserved

(* A dispatcher that is not waiting, or no longer, takes its next step.     *)
LEMMA Dispatched ==
  ASSUME Inv, RowsKept, NEW b \in Backends, NEW d \in Dispatcher,
         dispatcher' = [dispatcher EXCEPT ![b] = d],
         DispatcherFits(d, trip.next, trip.finalized),
         dispatcher[b].at \notin {"applying", "confirming"},
         UNCHANGED <<lease, versions, wire, supervisor>>
  PROVE  Inv'
<1>1. Grown /\ trip' = trip
  BY Zenon, KeptRows
<1>2. /\ dispatcher' \in [Backends -> Dispatcher]
      /\ DispatchersFit'
      /\ \A c \in Backends \ {b} : DispatcherWaits(c)
  BY Zenon, <1>1, DispatcherMoves
<1>3. DispatcherWaits(b)
  BY Zenon DEF DispatcherWaits
<1>4. WireFits' /\ wire' \in [Backends -> Seq(Request)]
  BY Zenon, <1>1, <1>2, <1>3, SupervisorsStay, WireUnchanged DEF Inv, TypeOK
<1> QED BY Zenon, <1>2, <1>4, SupervisorsStay, Preserved

-----------------------------------------------------------------------------
(* The dispatcher's steps.                                                  *)
LEMMA ClaimDueStep ==
  ASSUME Inv, NEW b \in Backends, ClaimDue(b)
  PROVE  Inv'
<1>1. UNCHANGED <<trip, lease, versions, wire, supervisor>> /\ dispatcher[b].at = "recovered"
  BY Zenon DEF ClaimDue
<1>2. CASE dispatcher' = [dispatcher EXCEPT ![b] = Idle] /\ UNCHANGED rows
  <2>1. RowsKept
    BY Zenon, <1>1, <1>2, UnchangedRows DEF database
  <2>2. DispatcherFits(Idle, trip.next, trip.finalized)
    BY Zenon, Records DEF DispatcherFits
  <2> QED BY Zenon, <1>1, <1>2, <2>1, <2>2, Records, Dispatched
<1>3. ASSUME NEW s \in Seqs, s \in Recorded, rows' = [rows EXCEPT ![s].claim = b],
             dispatcher' = [dispatcher EXCEPT ![b] = [Idle EXCEPT !.at = "claimed", !.seq = s]]
      PROVE  Inv'
  <2>1. RowsKept /\ s \in 2 .. trip.next - 1
    BY Zenon, <1>1, <1>3, ClaimChanges, RecordedRows
  <2>2. PICK d \in Dispatcher : d = [Idle EXCEPT !.at = "claimed", !.seq = s]
    BY Zenon, SeqsFit, Records DEF Dispatcher
  <2>3. d.at = "claimed" /\ d.seq = s
    BY Zenon, <2>2, Records DEF Dispatcher
  <2>4. DispatcherFits(d, trip.next, trip.finalized)
    BY Zenon, <2>1, <2>3 DEF DispatcherFits
  <2> QED BY Zenon, <1>1, <1>3, <2>1, <2>2, <2>4, Dispatched
<1> QED BY Zenon, <1>2, <1>3 DEF ClaimDue, Due

(* ClaimExpires keeps the invariant: a claim is no part of it.              *)
LEMMA ClaimExpiresStep ==
  ASSUME Inv, NEW s \in Seqs, ClaimExpires(s)
  PROVE  Inv'
<1>1. RowsKept
  BY Zenon, ClaimChanges DEF ClaimExpires
<1>2. Grown
  BY <1>1, KeptRows
<1>3. WireFits' /\ wire' \in [Backends -> Seq(Request)]
  BY Zenon, <1>2, DispatchersStay, SupervisorsStay, WireUnchanged DEF Inv, TypeOK, ClaimExpires
<1> QED BY Zenon, <1>1, <1>2, <1>3, DispatchersStay, SupervisorsStay, Preserved DEF ClaimExpires

(* A dispatcher that ends its pass, without having waited.                  *)
LEMMA DoneStep ==
  ASSUME Inv, RowsKept, NEW b \in Backends, Done(b),
         dispatcher[b].at \notin {"applying", "confirming"},
         UNCHANGED <<lease, versions, wire, supervisor>>
  PROVE  Inv'
<1>1. DispatcherFits(Idle, trip.next, trip.finalized)
  BY Zenon, Records DEF DispatcherFits
<1> QED BY Zenon, <1>1, Records, Dispatched DEF Done

(* Retry keeps the invariant.                                               *)
LEMMA RetryStep ==
  ASSUME Inv, NEW b \in Backends, Retry(b)
  PROVE  Inv'
  BY Zenon, Released, DoneStep DEF Retry

(* Pause keeps the invariant.                                               *)
LEMMA PauseStep ==
  ASSUME Inv, NEW b \in Backends, Pause(b)
  PROVE  Inv'
  BY Zenon, Paused, DoneStep DEF Pause

(* A dispatcher goes on to confirm what is finalized.                       *)
LEMMA ToConfirmStep ==
  ASSUME Inv, RowsKept, NEW b \in Backends, ToConfirm(b), dispatcher[b].at = "applied",
         dispatcher[b].seq <= trip.finalized,
         UNCHANGED <<lease, versions, wire, supervisor>>
  PROVE  Inv'
<1>1. dispatcher[b] \in Dispatcher
  BY Zenon DEF Inv, TypeOK
<1>2. PICK d \in Dispatcher : d = [dispatcher[b] EXCEPT !.at = "finalized", !.ack = NoAck]
  BY Zenon, <1>1, Records DEF Dispatcher
<1>3. d.at = "finalized" /\ d.seq = dispatcher[b].seq /\ d.epoch = dispatcher[b].epoch
  BY Zenon, <1>1, <1>2 DEF Dispatcher
<1>4. DispatcherFits(d, trip.next, trip.finalized)
  BY Zenon, <1>3 DEF Inv, DispatchersFit, DispatcherFits
<1>5. dispatcher' = [dispatcher EXCEPT ![b] = d]
  BY Zenon, <1>2 DEF ToConfirm, Inv, TypeOK
<1> QED BY Zenon, <1>4, <1>5, Dispatched

(* A dispatcher sends a request and waits for its answer.                   *)
LEMMA SentStep ==
  ASSUME Inv, NEW b \in Backends, NEW r \in Request, NEW d \in Dispatcher,
         wire' = [wire EXCEPT ![b] = Append(@, r)],
         dispatcher' = [dispatcher EXCEPT ![b] = d],
         \/ r.kind = "apply" /\ d.at = "applying" /\ r.seq \in 2 .. trip.next - 1
         \/ r.kind = "confirm" /\ d.at = "confirming" /\ r.seq <= trip.finalized,
         DispatcherFits(d, trip.next, trip.finalized),
         dispatcher[b].at \notin {"applying", "confirming"},
         UNCHANGED <<trip, rows, lease, versions, supervisor>>
  PROVE  Inv'
<1>1. RowsKept /\ Grown
  BY Zenon, UnchangedRows, KeptRows DEF database
<1>2. /\ dispatcher' \in [Backends -> Dispatcher]
      /\ DispatchersFit'
      /\ dispatcher'[b] = d
      /\ \A c \in Backends \ {b} : DispatcherWaits(c)
  BY Zenon, <1>1, DispatcherMoves
<1>3. DispatcherWaits(b)
  BY Zenon DEF DispatcherWaits
<1>4. RequestFits(b, r)'
  BY Zenon, <1>2 DEF RequestFits
<1>5. WireFits' /\ wire' \in [Backends -> Seq(Request)]
  <2>1. \A c \in Backends : DispatcherWaits(c) /\ SupervisorWaits(c)
    BY Zenon, <1>2, <1>3, SupervisorsStay
  <2> QED BY Zenon, <1>1, <1>4, <2>1, WireSent DEF Inv
<1> QED BY Zenon, <1>1, <1>2, <1>5, SupervisorsStay, Preserved

(* RecoverConfirmations keeps the invariant: what it confirms is finalized. *)
LEMMA RecoverConfirmationsStep ==
  ASSUME Inv, NEW b \in Backends, RecoverConfirmations(b)
  PROVE  Inv'
<1>1. UNCHANGED <<trip, rows, lease, versions, supervisor>> /\ dispatcher[b].at = "idle"
  BY Zenon DEF RecoverConfirmations, database
<1>2. dispatcher[b] \in Dispatcher
  BY Zenon DEF Inv, TypeOK
<1>3. CASE dispatcher' = [dispatcher EXCEPT ![b].at = "recovered"] /\ UNCHANGED wire
  <2>1. PICK d \in Dispatcher : d = [dispatcher[b] EXCEPT !.at = "recovered"]
    BY Zenon, <1>2 DEF Dispatcher
  <2>2. DispatcherFits(d, trip.next, trip.finalized)
    BY Zenon, <1>2, <2>1 DEF DispatcherFits, Dispatcher
  <2>3. dispatcher' = [dispatcher EXCEPT ![b] = d]
    BY Zenon, <1>3, <2>1
  <2>4. RowsKept
    BY Zenon, <1>1, UnchangedRows DEF database
  <2> QED BY Zenon, <1>1, <1>3, <2>2, <2>3, <2>4, Dispatched
<1>4. ASSUME NEW s \in Unconfirmed, Current(b), Send(b, "confirm", lease.epoch, s, 0),
             dispatcher' = [dispatcher EXCEPT ![b] =
                    [Idle EXCEPT !.at = "confirming", !.seq = s, !.epoch = lease.epoch,
                                 !.recovery = TRUE]]
      PROVE  Inv'
  <2>1. s \in Seqs /\ s \in 2 .. trip.next - 1 /\ s <= trip.finalized
    <3>1. s \in Seqs /\ s \in Recorded /\ rows[s].intent # "pending"
      BY Zenon, <1>4 DEF Unconfirmed, Resolved, Inv, RowsFit
    <3> QED BY Zenon, <3>1, RecordedRows DEF Inv, DecidedPrefix
  <2>2. lease.epoch \in 1 .. MaxEpoch
    BY <1>4 DEF Current, Inv, Ordered, TypeOK
  <2>3. PICK r \in Request :
          /\ r = [kind |-> "confirm", epoch |-> lease.epoch, seq |-> s, revision |-> 0,
                  awaited |-> TRUE]
          /\ r.kind = "confirm" /\ r.seq = s
    <3>1. 0 \in 0 .. MaxSeq
      BY DurableDeliveryAssumption
    <3> QED BY <2>1, <2>2, <3>1, SeqsFit, Requests
  <2>4. PICK d \in Dispatcher :
          /\ d = Recovering(Idle, lease.epoch, s)
          /\ d.at = "confirming" /\ d.seq = s /\ d.epoch = lease.epoch
    <3>1. lease.epoch \in 0 .. MaxEpoch /\ s \in 0 .. MaxSeq
      BY <2>1, <2>2, SeqsFit
    <3> QED BY <3>1, Records, RecoveringShape
  <2>6. DispatcherFits(d, trip.next, trip.finalized)
    BY <2>1, <2>2, <2>4 DEF DispatcherFits
  <2>7. wire' = [wire EXCEPT ![b] = Append(@, r)]
    BY Zenon, <1>4, <2>3 DEF Send
  <2>8. dispatcher' = [dispatcher EXCEPT ![b] = d]
    BY Zenon, <1>4, <2>4 DEF Recovering
  <2> QED BY Zenon, <1>1, <2>1, <2>3, <2>4, <2>6, <2>7, <2>8, SentStep
<1> QED BY Zenon, <1>3, <1>4 DEF RecoverConfirmations

(* Dispatch keeps the invariant: the request is about the claimed row.      *)
LEMMA DispatchStep ==
  ASSUME Inv, NEW b \in Backends, Dispatch(b)
  PROVE  Inv'
<1>1. UNCHANGED <<trip, lease, versions, supervisor>> /\ dispatcher[b].at = "claimed"
  BY Zenon DEF Dispatch
<1>2. dispatcher[b] \in Dispatcher /\ dispatcher[b].seq \in 2 .. trip.next - 1
  BY Zenon, <1>1 DEF Inv, TypeOK, DispatchersFit, DispatcherFits
<1>3. CASE ReleaseForRetry(b) /\ Done(b) /\ UNCHANGED wire
  BY Zenon, <1>1, <1>3, Released, DoneStep
<1>4. ASSUME Current(b),
             Send(b, "apply", lease.epoch, dispatcher[b].seq, rows[dispatcher[b].seq].expected),
             dispatcher' = [dispatcher EXCEPT ![b].at = "applying", ![b].epoch = lease.epoch],
             UNCHANGED rows
      PROVE  Inv'
  <2>1. lease.epoch \in 1 .. MaxEpoch
    BY <1>4 DEF Current, Inv, Ordered, TypeOK
  <2>2. dispatcher[b].seq \in Seqs
    BY Zenon, <1>2, RecordedRows DEF Recorded
  <2>3. rows[dispatcher[b].seq].expected \in 0 .. MaxSeq
    BY Zenon, <2>2 DEF Inv, TypeOK, Row
  <2>4. PICK r \in Request :
          /\ r = [kind |-> "apply", epoch |-> lease.epoch, seq |-> dispatcher[b].seq,
                  revision |-> rows[dispatcher[b].seq].expected, awaited |-> TRUE]
          /\ r.kind = "apply" /\ r.seq = dispatcher[b].seq
    BY <2>1, <2>2, <2>3, SeqsFit, Requests
  <2>5. PICK d \in Dispatcher :
          /\ d = Applying(dispatcher[b], lease.epoch)
          /\ d.at = "applying" /\ d.seq = dispatcher[b].seq /\ d.epoch = lease.epoch
    <3>1. lease.epoch \in 0 .. MaxEpoch /\ dispatcher[b] \in Dispatcher
      BY <1>2, <2>1
    <3> QED BY <3>1, ApplyingShape
  <2>7. DispatcherFits(d, trip.next, trip.finalized)
    BY <1>2, <2>1, <2>5 DEF DispatcherFits
  <2>8. wire' = [wire EXCEPT ![b] = Append(@, r)]
    BY Zenon, <1>4, <2>4 DEF Send
  <2>9. dispatcher' = [dispatcher EXCEPT ![b] = d]
    BY Zenon, <1>4, <2>5 DEF Inv, TypeOK, Applying
  <2> QED BY Zenon, <1>1, <1>2, <1>4, <2>4, <2>5, <2>7, <2>8, <2>9, SentStep
<1> QED BY Zenon, <1>3, <1>4 DEF Dispatch

(* A dispatcher gives up an exchange.                                       *)
LEMMA GivenUpStep ==
  ASSUME Inv, RowsKept, NEW b \in Backends, NEW kind, Done(b), wire' = Abandoned(b, {kind}),
         \/ kind = "apply" /\ dispatcher[b].at \in {"applying", "applied"}
         \/ kind = "confirm" /\ dispatcher[b].at \in {"confirming", "confirmed"},
         UNCHANGED <<lease, versions, supervisor>>
  PROVE  Inv'
<1>1. Grown
  BY Zenon, KeptRows
<1>2. DispatcherFits(Idle, trip'.next, trip'.finalized)
  BY Zenon, Records DEF DispatcherFits
<1>3. /\ dispatcher' \in [Backends -> Dispatcher]
      /\ DispatchersFit'
      /\ \A c \in Backends \ {b} : DispatcherWaits(c)
  BY Zenon, <1>1, <1>2, Records, DispatcherMoves DEF Done
<1>4. WireFits' /\ wire' \in [Backends -> Seq(Request)]
  BY Zenon, <1>1, <1>3, SupervisorsStay, WireAbandoned DEF Inv
<1> QED BY Zenon, <1>3, <1>4, SupervisorsStay, Preserved

(* A dispatcher that gives an event up keeps the invariant.                 *)
LEMMA ApplyTimeoutStep ==
  ASSUME Inv, NEW b \in Backends, ApplyTimeout(b)
  PROVE  Inv'
  BY Released, GivenUpStep DEF ApplyTimeout

(* A dispatcher that gives a confirmation up keeps the invariant.           *)
LEMMA ConfirmTimeoutStep ==
  ASSUME Inv, NEW b \in Backends, ConfirmTimeout(b)
  PROVE  Inv'
  BY Zenon, UnchangedRows, GivenUpStep DEF ConfirmTimeout

(* SendConfirm keeps the invariant.                                         *)
LEMMA SendConfirmStep ==
  ASSUME Inv, NEW b \in Backends, SendConfirm(b)
  PROVE  Inv'
<1>1. UNCHANGED <<trip, rows, lease, versions, supervisor>> /\ dispatcher[b].at = "finalized"
  BY DEF SendConfirm, database
<1>2. /\ dispatcher[b] \in Dispatcher
      /\ dispatcher[b].seq \in 2 .. trip.next - 1 /\ dispatcher[b].seq <= trip.finalized
      /\ dispatcher[b].epoch # 0
  BY Zenon, <1>1 DEF Inv, TypeOK, DispatchersFit, DispatcherFits
<1>3. dispatcher[b].seq \in Seqs /\ dispatcher[b].epoch \in 0 .. MaxEpoch
  BY Zenon, <1>2, RecordedRows DEF Recorded, Dispatcher
<1>4. PICK r \in Request :
        /\ r = [kind |-> "confirm", epoch |-> dispatcher[b].epoch, seq |-> dispatcher[b].seq,
                revision |-> 0, awaited |-> TRUE]
        /\ r.kind = "confirm" /\ r.seq = dispatcher[b].seq
  <2>1. 0 \in 0 .. MaxSeq
    BY DurableDeliveryAssumption
  <2>2. dispatcher[b].epoch \in 1 .. MaxEpoch
    BY <1>2, <1>3
  <2> QED BY <1>3, <2>1, <2>2, SeqsFit, Requests
<1>5. PICK d \in Dispatcher :
        /\ d = Confirming(dispatcher[b])
        /\ d.at = "confirming" /\ d.seq = dispatcher[b].seq /\ d.epoch = dispatcher[b].epoch
  BY Zenon, <1>2, ConfirmingShape
<1>6. DispatcherFits(d, trip.next, trip.finalized)
  BY Zenon, <1>2, <1>5 DEF DispatcherFits
<1>7. wire' = [wire EXCEPT ![b] = Append(@, r)]
  BY Zenon, <1>4 DEF SendConfirm, Send
<1>8. dispatcher' = [dispatcher EXCEPT ![b] = d]
  BY Zenon, <1>5 DEF SendConfirm, Confirming, Inv, TypeOK
<1> QED BY Zenon, <1>1, <1>2, <1>4, <1>5, <1>6, <1>7, <1>8, SentStep

(* ConfirmFinalizedMutations keeps the invariant.                           *)
LEMMA ConfirmFinalizedMutationsStep ==
  ASSUME Inv, NEW b \in Backends, ConfirmFinalizedMutations(b)
  PROVE  Inv'
<1>1. UNCHANGED <<trip, lease, versions, wire, supervisor>> /\ dispatcher[b].at = "confirmed"
  BY Zenon DEF ConfirmFinalizedMutations
<1>2. CASE Done(b) /\ UNCHANGED rows
  BY Zenon, <1>1, <1>2, UnchangedRows, DoneStep DEF database
<1>3. ASSUME rows' = [s \in Seqs |->
                        IF s \in Recorded /\ s <= dispatcher[b].seq
                        THEN [rows[s] EXCEPT !.confirmed = TRUE] ELSE rows[s]],
             dispatcher' = [dispatcher EXCEPT ![b] =
               [Idle EXCEPT !.at = IF dispatcher[b].recovery THEN "recovered" ELSE "idle"]]
      PROVE  Inv'
  <2>1. RowsKept
    BY Zenon, ConfirmFinalizedMutationsChanges
  <2>2. PICK at \in {"recovered", "idle"} :
          dispatcher' = [dispatcher EXCEPT ![b] = [Idle EXCEPT !.at = at]]
    <3>1. (IF dispatcher[b].recovery THEN "recovered" ELSE "idle") \in {"recovered", "idle"}
      BY Zenon
    <3> QED BY Zenon, <1>3, <3>1
  <2>3. PICK d \in Dispatcher : d = [Idle EXCEPT !.at = at] /\ d.at = at
    <3>1. [Idle EXCEPT !.at = at] \in Dispatcher
      BY Zenon, Records DEF Dispatcher
    <3>2. [Idle EXCEPT !.at = at].at = at
      BY Zenon, Records DEF Dispatcher
    <3> QED BY Zenon, <3>1, <3>2
  <2>4. DispatcherFits(d, trip.next, trip.finalized)
    BY Zenon, <2>3 DEF DispatcherFits
  <2> QED BY Zenon, <1>1, <2>1, <2>2, <2>3, <2>4, Dispatched
<1> QED BY Zenon, <1>2, <1>3 DEF ConfirmFinalizedMutations

(* FinalizeCanonicalMirror keeps the invariant, whatever it makes of the    *)
(* answer.                                                                  *)
LEMMA FinalizeCanonicalMirrorStep ==
  ASSUME Inv, NEW b \in Backends, FinalizeCanonicalMirror(b)
  PROVE  Inv'
<1> DEFINE s == dispatcher[b].seq
<1>1. /\ UNCHANGED <<trip, lease, versions, wire, supervisor>>
      /\ dispatcher[b].at = "applied"
      /\ rows[s].order = "canonical_first"
  BY Zenon DEF FinalizeCanonicalMirror
<1>2. ToConfirm(b) \/ Done(b)
  BY DEF FinalizeCanonicalMirror
<1>3. s \in Seqs /\ s \in Recorded
  BY Zenon, <1>1, RecordedRows DEF Inv, DispatchersFit, DispatcherFits, Recorded
<1>4. s <= trip.finalized
  <2>1. rows[s].intent = "applied"
    BY Zenon, <1>1, <1>3 DEF Inv, RowsFit
  <2> QED BY Zenon, <1>3, <2>1 DEF Inv, DecidedPrefix
<1> QED BY <1>1, <1>2, <1>4, FinalizeCanonicalMirrorChanges, ToConfirmStep, DoneStep

-----------------------------------------------------------------------------
(* A runtime-first command is decided.                                      *)
LEMMA Decided ==
  ASSUME Inv, NEW s \in Seqs, s \in Recorded, rows[s].order = "runtime_first",
         rows[s].intent = "pending", s = trip.finalized + 1,
         NEW intent \in {"applied", "rejected"}, NEW delivery \in {"accepted", "terminal_rejected"},
         rows' = [rows EXCEPT ![s].intent = intent, ![s].delivery = delivery,
                              ![s].claim = NoOwner],
         trip' = [trip EXCEPT !.finalized = s,
                              !.revision = IF intent = "applied" THEN @ + 1 ELSE @],
         UNCHANGED versions
  PROVE  /\ trip' \in [revision : 1 .. MaxSeq, next : 2 .. MaxSeq + 1, finalized : 1 .. MaxSeq]
         /\ rows' \in [Seqs -> Row]
         /\ Grown
         /\ trip'.revision <= trip'.finalized /\ trip'.finalized < trip'.next
         /\ RowsFit'
         /\ DecidedPrefix'
         /\ PlannerIsAtMostOneAhead'
<1> DEFINE New(r) == [r EXCEPT !.intent = intent, !.delivery = delivery, !.claim = NoOwner]
<1>1. /\ trip \in [revision : 1 .. MaxSeq, next : 2 .. MaxSeq + 1, finalized : 1 .. MaxSeq]
      /\ trip.revision <= trip.finalized
      /\ s \in 2 .. MaxSeq /\ s < trip.next
      /\ s \in Int /\ trip.finalized \in Int /\ trip.revision \in 1 .. MaxSeq /\ MaxSeq \in Int
      /\ trip.next \in Int
  BY RecordedRows, DurableDeliveryAssumption DEF Inv, TypeOK, Ordered, Seqs
<1>2. /\ trip'.finalized = s /\ trip'.next = trip.next
      /\ trip'.revision = IF intent = "applied" THEN trip.revision + 1 ELSE trip.revision
  BY Zenon, <1>1
<1>3. /\ trip' \in [revision : 1 .. MaxSeq, next : 2 .. MaxSeq + 1, finalized : 1 .. MaxSeq]
      /\ Grown
      /\ trip'.revision <= trip'.finalized /\ trip'.finalized < trip'.next
  <2>1. PICK revision \in 1 .. MaxSeq :
          /\ revision = IF intent = "applied" THEN trip.revision + 1 ELSE trip.revision
          /\ revision <= s
    <3> DEFINE revision == IF intent = "applied" THEN trip.revision + 1 ELSE trip.revision
    <3>1. revision \in 1 .. MaxSeq /\ revision <= s
      BY <1>1
    <3> QED BY Zenon, <3>1
  <2>2. trip' = [trip EXCEPT !.finalized = s, !.revision = revision] /\ s \in 1 .. MaxSeq
    BY <1>1, <2>1
  <2>3. trip' \in [revision : 1 .. MaxSeq, next : 2 .. MaxSeq + 1, finalized : 1 .. MaxSeq]
    BY Zenon, <1>1, <2>2
  <2>4. s >= trip.finalized
    BY <1>1
  <2>5. trip'.revision = revision
    BY Zenon, <1>2, <2>1
  <2> QED BY <1>1, <1>2, <2>1, <2>3, <2>4, <2>5 DEF Grown
<1>4. rows \in [Seqs -> Row] /\ rows[s] \in Row
  BY DEF Inv, TypeOK
<1>5. rows' = [rows EXCEPT ![s] = New(rows[s])]
  BY Zenon, <1>4
<1>6. \A r \in Row : New(r) \in Row
  BY Zenon DEF Row
<1>7. \A r \in Row : /\ New(r).order = r.order /\ New(r).expected = r.expected
                     /\ New(r).sync = r.sync /\ New(r).intent = intent
  BY DEF Row
<1> HIDE DEF New
<1>8. rows' \in [Seqs -> Row]
  BY <1>4, <1>5, <1>6
<1>9. /\ rows'[s].order = "runtime_first" /\ rows'[s].sync = rows[s].sync
      /\ rows'[s].intent = intent
      /\ \A t \in Seqs \ {s} : rows'[t] = rows[t]
      /\ \A t \in Seqs : rows'[t].order = rows[t].order
  BY <1>4, <1>5, <1>7
<1>10. RowsFit'
  <2> SUFFICES ASSUME NEW t \in Seqs
               PROVE  (/\ t < trip.next <=> rows[t].order # "none"
                       /\ rows[t].order = "none" => rows[t] = NoRow
                       /\ rows[t].order = "canonical_first" => rows[t].intent = "applied"
                       /\ rows[t].order = "runtime_first" => rows[t].sync = "not_required"
                       /\ rows[t].delivery \in {"accepted", "terminal_rejected"}
                            => rows[t].intent # "pending")'
    BY Zenon DEF RowsFit
  <2>1. CASE t = s
    BY Zenon, <1>2, <1>9, <2>1 DEF Inv, RowsFit
  <2>2. CASE t # s
    <3>1. /\ t < trip.next <=> rows[t].order # "none"
          /\ rows[t].order = "none" => rows[t] = NoRow
          /\ rows[t].order = "canonical_first" => rows[t].intent = "applied"
          /\ rows[t].order = "runtime_first" => rows[t].sync = "not_required"
          /\ rows[t].delivery \in {"accepted", "terminal_rejected"} => rows[t].intent # "pending"
      BY Zenon DEF Inv, RowsFit
    <3>2. rows'[t] = rows[t] /\ trip'.next = trip.next
      BY Zenon, <1>2, <1>9, <2>2
    <3> QED BY Zenon, <3>1, <3>2
  <2> QED BY Zenon, <2>1, <2>2
<1>11. Recorded' = Recorded
  <2>1. NoRow.order = "none"
    BY Zenon DEF NoRow
  <2>2. \A t \in Seqs : rows'[t] # NoRow <=> rows'[t].order # "none"
    BY Zenon, <1>10, <2>1 DEF RowsFit
  <2> QED BY Zenon, <1>9, <2>2, RecordedRows DEF Recorded
<1>13. DecidedPrefix'
  <2>1. ASSUME NEW t \in Recorded
        PROVE  (IF t <= trip.finalized THEN rows[t].intent # "pending"
                ELSE /\ t = trip.finalized + 1
                     /\ rows[t].intent = "pending"
                     /\ rows[t].expected = trip.revision)'
    <3>1. t \in Int /\ t \in Seqs
      BY Zenon, SeqsFit DEF Recorded
    <3>2. (t <= trip.finalized /\ rows[t].intent # "pending") \/ t = s
      BY DEF Inv, DecidedPrefix
    <3>3. t <= s
      BY <1>1, <3>1, <3>2
    <3>4. rows'[t].intent # "pending"
      BY Zenon, <1>9, <3>1, <3>2
    <3> QED BY <1>2, <3>3, <3>4
  <2>2. Recorded' = 2 .. trip'.next - 1
    BY Zenon, <1>2, <1>11, RecordedRows
  <2> QED BY Zenon, <1>11, <2>1, <2>2 DEF DecidedPrefix
<1>14. PlannerIsAtMostOneAhead'
  <2>1. versions.accepted \in Int /\ versions.finalized \in Int
    BY DEF Inv, TypeOK, Versions, Counter
  <2>2. versions.finalized <= trip.finalized /\ versions.accepted <= trip.finalized + 1
    BY <1>1, <2>1 DEF Inv, PlannerIsAtMostOneAhead
  <2>3. versions.finalized <= s /\ ~(versions.accepted > s)
    BY <1>1, <2>1, <2>2
  <2> QED BY Zenon, <1>2, <2>3 DEF PlannerIsAtMostOneAhead
<1> QED BY Zenon, <1>3, <1>8, <1>10, <1>13, <1>14

(* FinalizeRuntimeFirst keeps the invariant, whether it decides the command *)
(* or gives it up.                                                          *)
LEMMA FinalizeRuntimeFirstStep ==
  ASSUME Inv, NEW b \in Backends, FinalizeRuntimeFirst(b)
  PROVE  Inv'
<1> DEFINE s == dispatcher[b].seq
           applied == Succeeded(dispatcher[b].ack)
           inOrder == trip.revision = rows[s].expected /\ trip.finalized + 1 = s
<1>1. /\ UNCHANGED <<lease, versions, wire, supervisor>>
      /\ dispatcher[b].at = "applied"
      /\ rows[s].order = "runtime_first"
  BY Zenon DEF FinalizeRuntimeFirst
<1>2. dispatcher[b] \in Dispatcher /\ s \in Seqs /\ s \in Recorded /\ s \in 2 .. trip.next - 1
  BY Zenon, <1>1, RecordedRows DEF Inv, TypeOK, DispatchersFit, DispatcherFits, Recorded
<1>3. CASE UNCHANGED database /\ Done(b)
  BY Zenon, <1>1, <1>3, UnchangedRows, DoneStep
<1>4. CASE UNCHANGED database /\ rows[s].intent # "pending" /\ ToConfirm(b)
  <2>1. s <= trip.finalized
    BY Zenon, <1>2, <1>4 DEF Inv, DecidedPrefix
  <2> QED BY Zenon, <1>1, <1>4, <2>1, UnchangedRows, ToConfirmStep
<1>5. ASSUME rows[s].intent = "pending", inOrder, ToConfirm(b),
             rows' = [rows EXCEPT
                    ![s].intent = IF applied THEN "applied" ELSE "rejected",
                    ![s].delivery = IF applied THEN "accepted" ELSE "terminal_rejected",
                    ![s].claim = NoOwner],
             trip' = [trip EXCEPT !.finalized = s,
                                  !.revision = IF applied THEN @ + 1 ELSE @]
      PROVE  Inv'
  <2>1. /\ trip' \in [revision : 1 .. MaxSeq, next : 2 .. MaxSeq + 1, finalized : 1 .. MaxSeq]
        /\ rows' \in [Seqs -> Row]
        /\ Grown
        /\ trip'.revision <= trip'.finalized /\ trip'.finalized < trip'.next
        /\ RowsFit'
        /\ DecidedPrefix'
        /\ PlannerIsAtMostOneAhead'
    <3>1. PICK intent \in {"applied", "rejected"} :
            intent = IF applied THEN "applied" ELSE "rejected"
      BY Zenon
    <3>2. PICK delivery \in {"accepted", "terminal_rejected"} :
            delivery = IF applied THEN "accepted" ELSE "terminal_rejected"
      OBVIOUS
    <3>3. s = trip.finalized + 1
      BY Zenon, <1>5
    <3>4. rows' = [rows EXCEPT ![s].intent = intent, ![s].delivery = delivery,
                               ![s].claim = NoOwner]
      BY <1>5, <3>1, <3>2
    <3>5. trip' = [trip EXCEPT !.finalized = s,
                               !.revision = IF intent = "applied" THEN @ + 1 ELSE @]
      BY Zenon, <1>5, <3>1
    <3> HIDE DEF s, applied
    <3> QED BY Zenon, <1>1, <1>2, <1>5, <3>3, <3>4, <3>5, Decided
  <2>2. trip'.finalized = s /\ trip'.next = trip.next
    BY Zenon, <1>5 DEF Inv, TypeOK
  <2>3. PICK d \in Dispatcher : /\ d = [dispatcher[b] EXCEPT !.at = "finalized", !.ack = NoAck]
                                /\ d.at = "finalized" /\ d.seq = s
                                /\ d.epoch = dispatcher[b].epoch
    <3>1. [dispatcher[b] EXCEPT !.at = "finalized", !.ack = NoAck] \in Dispatcher
      BY Zenon, <1>2, Records DEF Dispatcher
    <3>2. /\ [dispatcher[b] EXCEPT !.at = "finalized", !.ack = NoAck].at = "finalized"
          /\ [dispatcher[b] EXCEPT !.at = "finalized", !.ack = NoAck].seq = s
          /\ [dispatcher[b] EXCEPT !.at = "finalized", !.ack = NoAck].epoch = dispatcher[b].epoch
      BY Zenon, <1>2 DEF Dispatcher
    <3> QED BY Zenon, <3>1, <3>2
  <2>4. DispatcherFits(d, trip'.next, trip'.finalized)
    <3>1. s \in Int
      BY Zenon, <1>2, SeqsFit
    <3> QED BY <1>1, <1>2, <2>2, <2>3, <3>1 DEF Inv, DispatchersFit, DispatcherFits
  <2>5. dispatcher' = [dispatcher EXCEPT ![b] = d]
    BY Zenon, <1>5, <2>3 DEF ToConfirm, Inv, TypeOK
  <2>6. /\ dispatcher' \in [Backends -> Dispatcher]
        /\ DispatchersFit'
        /\ \A c \in Backends \ {b} : DispatcherWaits(c)
    BY Zenon, <2>1, <2>4, <2>5, DispatcherMoves
  <2>7. WireFits'
    <3>1. DispatcherWaits(b)
      BY Zenon, <1>1 DEF DispatcherWaits
    <3> QED BY Zenon, <1>1, <2>1, <2>6, <3>1, SupervisorsStay, WireUnchanged DEF Inv
  <2>8. TypeOK'
    BY Zenon, <1>1, <2>1, <2>6 DEF Inv, TypeOK
  <2>9. Ordered' /\ VersionsFit'
    BY Zenon, <1>1, <2>1 DEF Inv, Ordered, VersionsFit
  <2> QED BY Zenon, <2>1, <2>6, <2>7, <2>8, <2>9 DEF Inv
<1> QED BY Zenon, <1>3, <1>4, <1>5 DEF FinalizeRuntimeFirst, SameOutcome

-----------------------------------------------------------------------------
(* The steps of the lease and of the supervisor.                            *)
LEMMA SupervisedStep ==
  ASSUME Inv, RowsKept, NEW b \in Backends, NEW u \in Supervisor,
         supervisor' = [supervisor EXCEPT ![b] = u],
         \/ supervisor[b].at # "bootstrapping" /\ UNCHANGED wire
         \/ wire' = Abandoned(b, {"bootstrap"}),
         lease' \in [holder : Backends \cup {NoOwner}, epoch : 0 .. MaxEpoch, live : BOOLEAN],
         lease'.live => lease'.epoch # 0,
         UNCHANGED <<versions, dispatcher>>
  PROVE  Inv'
<1>1. Grown
  BY Zenon, KeptRows
<1>2. /\ dispatcher' \in [Backends -> Dispatcher] /\ DispatchersFit'
      /\ \A c \in Backends : DispatcherWaits(c)
  BY Zenon, <1>1, DispatchersStay
<1>3. /\ supervisor' \in [Backends -> Supervisor]
      /\ \A c \in Backends \ {b} : SupervisorWaits(c)
  BY Zenon, SupervisorMoves
<1>4. WireFits' /\ wire' \in [Backends -> Seq(Request)]
  <2>1. CASE supervisor[b].at # "bootstrapping" /\ UNCHANGED wire
    <3>1. SupervisorWaits(b)
      BY Zenon, <2>1 DEF SupervisorWaits
    <3> QED BY Zenon, <1>1, <1>2, <1>3, <2>1, <3>1, WireUnchanged DEF Inv, TypeOK
  <2>2. CASE wire' = Abandoned(b, {"bootstrap"})
    BY Zenon, <1>1, <1>2, <1>3, <2>2, WireAbandoned DEF Inv
  <2> QED BY Zenon, <2>1, <2>2
<1> QED BY Zenon, <1>2, <1>3, <1>4, LeasePreserved

(* The lease is left alone.                                                 *)
LEMMA LeaseStays ==
  ASSUME Inv, UNCHANGED lease
  PROVE  /\ lease' \in [holder : Backends \cup {NoOwner}, epoch : 0 .. MaxEpoch, live : BOOLEAN]
         /\ lease'.live => lease'.epoch # 0
  BY Zenon DEF Inv, TypeOK, Ordered

(* Acquire keeps the invariant.                                             *)
LEMMA AcquireStep ==
  ASSUME Inv, NEW b \in Backends, Acquire(b)
  PROVE  Inv'
<1>1. RowsKept
  BY Zenon, UnchangedRows DEF Acquire
<1>2. [Unheld EXCEPT !.at = "acquired"] \in Supervisor
  BY Zenon, Records DEF Supervisor
<1>3. lease.epoch \in 0 .. MaxEpoch /\ lease.epoch < MaxEpoch /\ MaxEpoch \in Int
  BY DurableDeliveryAssumption DEF Inv, TypeOK, Acquire
<1>4. PICK epoch \in 0 .. MaxEpoch : epoch = lease.epoch + 1 /\ epoch # 0
  BY <1>3
<1>5. lease' = [holder |-> b, epoch |-> epoch, live |-> TRUE]
  BY Zenon, <1>4 DEF Acquire
<1>6. /\ lease' \in [holder : Backends \cup {NoOwner}, epoch : 0 .. MaxEpoch, live : BOOLEAN]
      /\ lease'.live => lease'.epoch # 0
  BY Zenon, <1>4, <1>5
<1>7. /\ UNCHANGED <<versions, dispatcher, wire>> /\ supervisor[b].at # "bootstrapping"
      /\ supervisor' = [supervisor EXCEPT ![b] = [Unheld EXCEPT !.at = "acquired"]]
  BY Zenon DEF Acquire
<1> QED BY Zenon, <1>1, <1>2, <1>6, <1>7, SupervisedStep

(* LeaseExpires keeps the invariant.                                        *)
LEMMA LeaseExpiresStep ==
  ASSUME Inv, LeaseExpires
  PROVE  Inv'
<1>1. RowsKept /\ Grown
  BY Zenon, UnchangedRows, KeptRows DEF LeaseExpires
<1>2. /\ lease' \in [holder : Backends \cup {NoOwner}, epoch : 0 .. MaxEpoch, live : BOOLEAN]
      /\ ~lease'.live
  BY Zenon DEF LeaseExpires, Inv, TypeOK
<1>3. WireFits' /\ wire' \in [Backends -> Seq(Request)]
  BY Zenon, <1>1, DispatchersStay, SupervisorsStay, WireUnchanged DEF Inv, TypeOK, LeaseExpires
<1> QED BY Zenon, <1>1, <1>2, <1>3, DispatchersStay, SupervisorsStay, LeasePreserved DEF LeaseExpires

(* LeaseLost keeps the invariant.                                           *)
LEMMA LeaseLostStep ==
  ASSUME Inv, NEW b \in Backends, LeaseLost(b)
  PROVE  Inv'
  BY Zenon, UnchangedRows, Records, LeaseStays, SupervisedStep DEF LeaseLost

(* BootstrapTimeout keeps the invariant.                                    *)
LEMMA BootstrapTimeoutStep ==
  ASSUME Inv, NEW b \in Backends, BootstrapTimeout(b)
  PROVE  Inv'
  BY Zenon, UnchangedRows, Records, LeaseStays, SupervisedStep DEF BootstrapTimeout, Fail

(* Release keeps the invariant.                                             *)
LEMMA ReleaseStep ==
  ASSUME Inv, NEW b \in Backends, Release(b)
  PROVE  Inv'
<1>1. /\ NoLease \in [holder : Backends \cup {NoOwner}, epoch : 0 .. MaxEpoch, live : BOOLEAN]
      /\ ~NoLease.live
  BY DurableDeliveryAssumption DEF NoLease
<1>2. lease' = NoLease \/ lease' = lease
  BY Zenon DEF Release
<1>3. /\ lease' \in [holder : Backends \cup {NoOwner}, epoch : 0 .. MaxEpoch, live : BOOLEAN]
      /\ lease'.live => lease'.epoch # 0
  BY Zenon, <1>1, <1>2, LeaseStays
<1>4. RowsKept
  BY Zenon, UnchangedRows DEF Release
<1> QED BY Zenon, <1>3, <1>4, Records, SupervisedStep DEF Release

(* SendBootstrap keeps the invariant: the bootstrap carries the finalized   *)
(* watermark.                                                               *)
LEMMA SendBootstrapStep ==
  ASSUME Inv, NEW b \in Backends, SendBootstrap(b)
  PROVE  Inv'
<1>1. /\ RowsKept /\ Grown /\ UNCHANGED <<lease, versions, dispatcher>>
      /\ trip' = trip /\ supervisor[b].at = "acquired"
  BY Zenon, UnchangedRows, KeptRows DEF SendBootstrap
<1>2. CASE Fail(b) /\ UNCHANGED wire
  BY Zenon, <1>1, <1>2, Records, LeaseStays, SupervisedStep DEF Fail
<1>3. ASSUME Current(b), Send(b, "bootstrap", lease.epoch, trip.finalized, trip.revision),
             supervisor' = [supervisor EXCEPT ![b] =
               [Unheld EXCEPT !.at = "bootstrapping", !.epoch = lease.epoch,
                              !.revision = trip.revision, !.finalized = trip.finalized]]
      PROVE  Inv'
  <2>1. /\ lease.epoch \in 1 .. MaxEpoch
        /\ trip.finalized \in 1 .. MaxSeq /\ trip.revision \in 1 .. MaxSeq
    BY <1>3 DEF Current, Inv, Ordered, TypeOK
  <2>2. /\ lease.epoch \in 0 .. MaxEpoch
        /\ trip.finalized \in 0 .. MaxSeq /\ trip.revision \in 0 .. MaxSeq
    BY <2>1
  <2>3. PICK r \in Request :
          /\ r = [kind |-> "bootstrap", epoch |-> lease.epoch, seq |-> trip.finalized,
                  revision |-> trip.revision, awaited |-> TRUE]
          /\ r.kind = "bootstrap" /\ r.seq = trip.finalized
    BY <2>1, <2>2, Requests
  <2>4. PICK u \in Supervisor :
          /\ u = [Unheld EXCEPT !.at = "bootstrapping", !.epoch = lease.epoch,
                                !.revision = trip.revision, !.finalized = trip.finalized]
          /\ u.at = "bootstrapping"
    <3> DEFINE u == [Unheld EXCEPT !.at = "bootstrapping", !.epoch = lease.epoch,
                                   !.revision = trip.revision, !.finalized = trip.finalized]
    <3>1. u \in Supervisor
      BY Zenon, <2>2, Records DEF Supervisor
    <3>2. u.at = "bootstrapping"
      BY Zenon, Records DEF Supervisor
    <3> QED BY Zenon, <3>1, <3>2
  <2>5. supervisor' = [supervisor EXCEPT ![b] = u]
    BY Zenon, <1>3, <2>4
  <2>6. /\ supervisor' \in [Backends -> Supervisor]
        /\ supervisor'[b].at = "bootstrapping"
        /\ \A c \in Backends \ {b} : SupervisorWaits(c)
    BY Zenon, <2>4, <2>5, SupervisorMoves
  <2>7. RequestFits(b, r)'
    <3>1. trip.finalized \in Int
      BY <2>1
    <3> QED BY <1>1, <2>3, <2>6, <3>1 DEF RequestFits
  <2>8. WireFits' /\ wire' \in [Backends -> Seq(Request)]
    <3>1. SupervisorWaits(b)
      BY Zenon, <1>1 DEF SupervisorWaits
    <3>2. wire' = [wire EXCEPT ![b] = Append(@, r)]
      BY Zenon, <1>3, <2>3 DEF Send
    <3>3. \A c \in Backends : DispatcherWaits(c) /\ SupervisorWaits(c)
      BY Zenon, <1>1, <2>6, <3>1, DispatchersStay
    <3> QED BY Zenon, <1>1, <2>3, <2>7, <3>2, <3>3, WireSent DEF Inv
  <2> QED BY Zenon, <1>1, <2>6, <2>8, DispatchersStay, Preserved
<1> QED BY Zenon, <1>2, <1>3 DEF SendBootstrap

(* ResolveCanonicalBootstrap keeps the invariant.                           *)
LEMMA ResolveCanonicalBootstrapStep ==
  ASSUME Inv, NEW b \in Backends, ResolveCanonicalBootstrap(b)
  PROVE  Inv'
<1>1. /\ UNCHANGED <<trip, lease, versions, wire, dispatcher>>
      /\ supervisor[b].at = "bootstrapped"
  BY Zenon DEF ResolveCanonicalBootstrap
<1>2. RowsKept
  BY Zenon, ResolveCanonicalBootstrapChanges
<1>3. PICK u \in Supervisor : supervisor' = [supervisor EXCEPT ![b] = u]
  <2>1. supervisor[b].epoch \in 0 .. MaxEpoch
    BY Zenon DEF Inv, TypeOK, Supervisor
  <2>2. [Unheld EXCEPT !.at = "active", !.epoch = supervisor[b].epoch] \in Supervisor
    BY Zenon, <2>1, Records DEF Supervisor
  <2>3. \/ supervisor' = [supervisor EXCEPT ![b] =
                            [Unheld EXCEPT !.at = "active", !.epoch = supervisor[b].epoch]]
        \/ supervisor' = [supervisor EXCEPT ![b] = Unheld]
    BY Zenon DEF ResolveCanonicalBootstrap, Fail
  <2> QED BY Zenon, <2>2, <2>3, Records
<1> QED BY Zenon, <1>1, <1>2, <1>3, LeaseStays, SupervisedStep

(* BackendRestart keeps the invariant.                                      *)
LEMMA BackendRestartStep ==
  ASSUME Inv, NEW b \in Backends, BackendRestart(b)
  PROVE  Inv'
<1>1. RowsKept /\ Grown /\ UNCHANGED <<lease, versions>>
  BY Zenon, UnchangedRows, KeptRows DEF BackendRestart
<1>2. DispatcherFits(Idle, trip'.next, trip'.finalized)
  BY Zenon, Records DEF DispatcherFits
<1>3. /\ dispatcher' \in [Backends -> Dispatcher]
      /\ DispatchersFit'
      /\ \A c \in Backends \ {b} : DispatcherWaits(c)
  BY Zenon, <1>1, <1>2, Records, DispatcherMoves DEF BackendRestart
<1>4. /\ supervisor' \in [Backends -> Supervisor]
      /\ \A c \in Backends \ {b} : SupervisorWaits(c)
  BY Zenon, Records, SupervisorMoves DEF BackendRestart
<1>5. WireFits' /\ wire' \in [Backends -> Seq(Request)]
  BY Zenon, <1>1, <1>3, <1>4, WireAbandoned DEF Inv, BackendRestart
<1> QED BY Zenon, <1>1, <1>3, <1>4, <1>5, Preserved

(* An executed request leaves the stream, and who waits for it gets the     *)
(* answer.                                                                  *)
LEMMA AnswerStep ==
  ASSUME Inv, NEW b \in Backends, wire[b] # <<>>, NEW r \in Request, r = Head(wire[b]),
         NEW status \in Statuses, NEW v \in Versions, Answer(b, r, status, v),
         VersionsFit', PlannerIsAtMostOneAhead'
  PROVE  Inv'
<1>1. RequestFits(b, r)
  <2>1. r = wire[b][1] /\ 1 \in DOMAIN wire[b]
    BY Zenon, InWire, TailShape DEF Inv
  <2> QED BY Zenon, <2>1 DEF Inv, WireFits
<1>2. versions' = v
  BY Zenon DEF Answer
<1>3. AckOf(status, v) \in Ack
  BY Zenon, <1>2, AckShape DEF VersionsFit
<1> DEFINE ack == AckOf(status, v)
<1>4. /\ UNCHANGED <<trip, rows, lease>>
      /\ wire' = [wire EXCEPT ![b] = Tail(@)]
      /\ \/ /\ UNCHANGED <<dispatcher, supervisor>>
            /\ ~r.awaited
         \/ /\ UNCHANGED supervisor
            /\ r.awaited /\ r.kind # "bootstrap"
            /\ dispatcher[b].at \in {"applying", "confirming"}
            /\ \E at \in {"applied", "confirmed"} :
                 /\ dispatcher' = [dispatcher EXCEPT ![b] = Answered(dispatcher[b], ack, at)]
                 /\ at = "applied" <=> dispatcher[b].at = "applying"
         \/ /\ UNCHANGED dispatcher
            /\ r.awaited /\ r.kind = "bootstrap"
            /\ supervisor[b].at = "bootstrapping"
            /\ supervisor' = [supervisor EXCEPT ![b] =
                                Answered(supervisor[b], ack, "bootstrapped")]
  BY <1>1, <1>3, AnswerGoes
<1> HIDE DEF ack
<1>5. ack \in Ack
  BY Zenon, <1>3 DEF ack
<1>6. RowsKept /\ Grown
  BY Zenon, <1>4, UnchangedRows, KeptRows DEF database
<1>7. dispatcher[b] \in Dispatcher /\ supervisor[b] \in Supervisor
  BY Zenon DEF Inv, TypeOK
<1>8. /\ dispatcher' \in [Backends -> Dispatcher]
      /\ DispatchersFit'
      /\ \A c \in Backends \ {b} : DispatcherWaits(c)
      /\ ~(r.awaited /\ r.kind # "bootstrap") => DispatcherWaits(b)
  <2>1. CASE UNCHANGED dispatcher
    BY Zenon, <1>6, <2>1, DispatchersStay
  <2>2. ASSUME NEW at \in {"applied", "confirmed"},
               r.awaited /\ r.kind # "bootstrap",
               dispatcher[b].at \in {"applying", "confirming"},
               dispatcher' = [dispatcher EXCEPT ![b] = Answered(dispatcher[b], ack, at)],
               at = "applied" <=> dispatcher[b].at = "applying"
        PROVE  /\ dispatcher' \in [Backends -> Dispatcher]
               /\ DispatchersFit'
               /\ \A c \in Backends \ {b} : DispatcherWaits(c)
    <3>1. PICK d \in Dispatcher :
            /\ d = Answered(dispatcher[b], ack, at)
            /\ d.at = at /\ d.seq = dispatcher[b].seq /\ d.epoch = dispatcher[b].epoch
      <4> DEFINE e == Answered(dispatcher[b], ack, at)
      <4>1. e \in Dispatcher /\ e.at = at /\ e.seq = dispatcher[b].seq /\ e.epoch = dispatcher[b].epoch
        BY <1>5, <1>7, DispatcherAnswered
      <4> QED BY Zenon, <4>1
    <3>2. DispatcherFits(d, trip'.next, trip'.finalized)
      <4>1. DispatcherFits(dispatcher[b], trip'.next, trip'.finalized)
        BY Zenon, <1>4 DEF Inv, DispatchersFit
      <4> QED BY Zenon, <2>2, <3>1, <4>1 DEF DispatcherFits
    <3> QED BY Zenon, <1>6, <2>2, <3>1, <3>2, DispatcherMoves
  <2> QED BY Zenon, <1>4, <2>1, <2>2
<1>9. /\ supervisor' \in [Backends -> Supervisor]
      /\ \A c \in Backends \ {b} : SupervisorWaits(c)
      /\ ~(r.awaited /\ r.kind = "bootstrap") => SupervisorWaits(b)
  <2>1. CASE UNCHANGED supervisor
    BY Zenon, <2>1, SupervisorsStay
  <2>2. CASE /\ r.awaited /\ r.kind = "bootstrap"
             /\ supervisor' = [supervisor EXCEPT ![b] =
                                 Answered(supervisor[b], ack, "bootstrapped")]
    BY Zenon, <1>5, <1>7, <2>2, SupervisorAnswered, SupervisorMoves
  <2> QED BY Zenon, <1>4, <2>1, <2>2
<1>10. WireFits' /\ wire' \in [Backends -> Seq(Request)]
  BY Zenon, <1>4, <1>6, <1>8, <1>9, WirePopped DEF Inv
<1>11. TypeOK'
  BY Zenon, <1>2, <1>4, <1>8, <1>9, <1>10 DEF Inv, TypeOK
<1>12. Ordered'
  BY Zenon, <1>4 DEF Inv, Ordered
<1>13. RowsFit' /\ DecidedPrefix'
  BY Zenon, <1>6, KeptRows
<1> QED BY Zenon, <1>8, <1>10, <1>11, <1>12, <1>13 DEF Inv

(* The versions of a planner that has no runtime for the trip.              *)
LEMMA InactiveVersions ==
  /\ Inactive \in Versions
  /\ Inactive.epoch = 0 /\ Inactive.accepted = 0 /\ Inactive.finalized = 0
  /\ Inactive.revision = 0
<1>1. 0 \in Counter
  BY MaxU64Assumption DEF Counter
<1> QED BY Zenon, <1>1 DEF Inactive, Versions

(* The next command the planner accepts is decided, or the undecided one.   *)
LEMMA NextAccepted ==
  ASSUME Inv, NEW seq \in 2 .. trip.next - 1, seq = versions.accepted + 1,
         seq > trip.finalized
  PROVE  seq = trip.finalized + 1 /\ seq \in Recorded /\ rows[seq].intent = "pending"
<1>1. seq \in Recorded
  BY Zenon, RecordedRows
<1>2. ~(seq <= trip.finalized)
  BY DEF Inv, TypeOK
<1>3. DecidedPrefix
  BY Zenon DEF Inv
<1> QED BY Zenon, <1>1, <1>2, <1>3 DEF DecidedPrefix

(* Executing request r replaces the version record by v, which covers the   *)
(* same commands, or those r names.                                         *)
LEMMA ExecutedStep ==
  ASSUME Inv, NEW b \in Backends, wire[b] # <<>>, NEW r \in Request, r = Head(wire[b]),
         NEW status \in Statuses, NEW v \in Versions, Answer(b, r, status, v),
         v.epoch <= MaxEpoch, v.revision <= MaxSeq + 1, v.accepted <= MaxSeq,
         v.finalized <= trip.finalized,
         v.accepted # versions.accepted =>
           \/ v.accepted <= trip.finalized
           \/ v.accepted = versions.accepted + 1 /\ v.accepted \in 2 .. trip.next - 1
  PROVE  Inv'
<1>1. UNCHANGED <<trip, rows>> /\ versions' = v
  BY Zenon DEF Answer, database
<1>2. /\ v.accepted \in Int /\ v.finalized \in Int /\ trip.finalized \in Int
      /\ trip.finalized <= MaxSeq /\ MaxSeq \in Int
  BY DurableDeliveryAssumption DEF Versions, Counter, Inv, TypeOK
<1>3. VersionsFit'
  BY <1>1, <1>2 DEF VersionsFit
<1>4. PlannerIsAtMostOneAhead'
  <2>1. CASE v.accepted = versions.accepted
    BY Zenon, <1>1, <2>1 DEF Inv, PlannerIsAtMostOneAhead, Recorded
  <2>2. CASE v.accepted <= trip.finalized
    BY <1>1, <1>2, <2>2 DEF PlannerIsAtMostOneAhead
  <2>3. CASE /\ v.accepted = versions.accepted + 1 /\ v.accepted \in 2 .. trip.next - 1
             /\ v.accepted > trip.finalized
    BY Zenon, <1>1, <2>3, NextAccepted DEF PlannerIsAtMostOneAhead, Recorded
  <2> QED BY <1>2, <2>1, <2>2, <2>3
<1> QED BY Zenon, <1>3, <1>4, AnswerStep

(* Deliver keeps the invariant.                                             *)
LEMMA DeliverStep ==
  ASSUME Inv, NEW b \in Backends, Deliver(b)
  PROVE  Inv'
BY Zenon, DeliverExecutes, ExecutedStep DEF Executes, InBounds

(* Drop keeps the invariant.                                                *)
LEMMA DropStep ==
  ASSUME Inv, NEW b \in Backends, Drop(b)
  PROVE  Inv'
<1>1. RowsKept /\ Grown /\ UNCHANGED <<lease, versions, dispatcher, supervisor>>
  BY Zenon, UnchangedRows, KeptRows DEF Drop
<1>2. WireFits' /\ wire' \in [Backends -> Seq(Request)]
  BY Zenon, <1>1, DispatchersStay, SupervisorsStay, WirePopped DEF Inv, Drop
<1> QED BY Zenon, <1>1, <1>2, DispatchersStay, SupervisorsStay, Preserved

(* PlannerRestart keeps the invariant: the planner is behind then.          *)
LEMMA PlannerRestartStep ==
  ASSUME Inv, PlannerRestart
  PROVE  Inv'
<1>1. /\ RowsKept /\ Grown /\ trip' = trip /\ UNCHANGED <<lease, wire, dispatcher, supervisor>>
      /\ versions' = Inactive
  BY Zenon, UnchangedRows, KeptRows DEF PlannerRestart
<1>2. WireFits'
  BY Zenon, <1>1, DispatchersStay, SupervisorsStay, WireUnchanged DEF Inv
<1>3. TypeOK'
  BY Zenon, <1>1, InactiveVersions DEF Inv, TypeOK, RowsKept
<1>4. Ordered'
  BY Zenon, <1>1 DEF Inv, Ordered
<1>5. VersionsFit'
  BY <1>1, InactiveVersions, DurableDeliveryAssumption DEF VersionsFit
<1>6. PlannerIsAtMostOneAhead'
  <2>1. trip.finalized \in 1 .. MaxSeq
    BY Zenon DEF Inv, TypeOK
  <2> QED BY <1>1, <2>1, InactiveVersions DEF PlannerIsAtMostOneAhead
<1>7. RowsFit' /\ DecidedPrefix'
  BY Zenon, <1>1, KeptRows
<1>8. DispatchersFit'
  BY Zenon, <1>1, DispatchersStay
<1> QED BY Zenon, <1>2, <1>3, <1>4, <1>5, <1>6, <1>7, <1>8 DEF Inv

(* A new command is the last one, and is undecided or an edit.              *)
LEMMA RecordingStep ==
  ASSUME Inv, NEW order \in {"runtime_first", "canonical_first"}, Recording(order)
  PROVE  Inv'
<1> DEFINE n == trip.next
           Decides == order = "canonical_first"
<1>1. /\ n \in Seqs /\ n \in Int /\ n \in 2 .. MaxSeq /\ n + 1 \in 2 .. MaxSeq + 1
      /\ trip.revision \in 1 .. MaxSeq /\ trip.finalized \in 1 .. MaxSeq
      /\ trip.revision <= trip.finalized /\ trip.finalized < n /\ MaxSeq \in Int
  BY DurableDeliveryAssumption DEF Inv, TypeOK, Ordered, Recording, Seqs
<1>2. /\ trip'.next = n + 1
      /\ trip'.finalized = IF Decides THEN n ELSE trip.finalized
      /\ trip'.revision = IF Decides THEN trip.revision + 1 ELSE trip.revision
  BY Zenon DEF Recording, Inv, TypeOK
<1>3. n = trip.finalized + 1
  <2>1. n - 1 \in Recorded \/ n = 2
    BY <1>1, RecordedRows
  <2>2. n - 1 \in Recorded => n - 1 <= trip.finalized
    BY Zenon DEF Inv, DecidedPrefix, Recording
  <2> QED BY <1>1, <2>1, <2>2
<1>4. trip' \in [revision : 1 .. MaxSeq, next : 2 .. MaxSeq + 1, finalized : 1 .. MaxSeq]
  <2>1. trip \in [revision : 1 .. MaxSeq, next : 2 .. MaxSeq + 1, finalized : 1 .. MaxSeq]
    BY Zenon DEF Inv, TypeOK
  <2>2. trip.revision + 1 \in 1 .. MaxSeq /\ n \in 1 .. MaxSeq
    BY <1>1
  <2>3. CASE order = "runtime_first"
    BY Zenon, <1>1, <2>1, <2>3 DEF Recording
  <2>4. CASE order = "canonical_first"
    BY Zenon, <1>1, <2>2, <2>4 DEF Recording
  <2> QED BY Zenon, <2>3, <2>4
<1>5. Grown /\ trip'.revision <= trip'.finalized /\ trip'.finalized < trip'.next
  BY <1>1, <1>2, <1>3 DEF Grown
<1>6. /\ rows \in [Seqs -> Row] /\ rows' = [rows EXCEPT ![n] = NewRow(order)]
      /\ UNCHANGED <<lease, versions, wire, dispatcher, supervisor>>
  BY Zenon DEF Inv, TypeOK, Recording
<1>7. /\ rows' \in [Seqs -> Row]
      /\ rows'[n] = NewRow(order)
      /\ \A s \in Seqs \ {n} : rows'[s] = rows[s]
  BY Zenon, <1>1, <1>6, NewRowShape
<1>8. RowsFit'
  <2> SUFFICES ASSUME NEW t \in Seqs
               PROVE  (/\ t < trip.next <=> rows[t].order # "none"
                       /\ rows[t].order = "none" => rows[t] = NoRow
                       /\ rows[t].order = "canonical_first" => rows[t].intent = "applied"
                       /\ rows[t].order = "runtime_first" => rows[t].sync = "not_required"
                       /\ rows[t].delivery \in {"accepted", "terminal_rejected"}
                            => rows[t].intent # "pending")'
    BY Zenon DEF RowsFit
  <2>1. CASE t = n
    BY <1>1, <1>2, <1>7, <2>1, NewRowShape
  <2>2. CASE t # n
    <3>1. /\ t < trip.next <=> rows[t].order # "none"
          /\ rows[t].order = "none" => rows[t] = NoRow
          /\ rows[t].order = "canonical_first" => rows[t].intent = "applied"
          /\ rows[t].order = "runtime_first" => rows[t].sync = "not_required"
          /\ rows[t].delivery \in {"accepted", "terminal_rejected"} => rows[t].intent # "pending"
      BY Zenon DEF Inv, RowsFit
    <3>2. rows'[t] = rows[t] /\ (t < trip'.next <=> t < trip.next)
      BY <1>1, <1>2, <1>7, <2>2, SeqsFit
    <3> QED BY Zenon, <3>1, <3>2
  <2> QED BY Zenon, <2>1, <2>2
<1>9. Recorded' = Recorded \cup {n} /\ n \notin Recorded
  <2>1. NoRow.order = "none"
    BY Zenon DEF NoRow
  <2>2. \A t \in Seqs : rows'[t] # NoRow <=> rows'[t].order # "none"
    BY Zenon, <1>8, <2>1 DEF RowsFit
  <2>3. n \notin Recorded
    BY <1>1, RecordedRows
  <2> QED BY <1>1, <1>7, <2>2, <2>3, NewRowShape, RecordedRows DEF Recorded
<1>11. DecidedPrefix'
  <2>1. Recorded' = 2 .. trip'.next - 1
    BY <1>1, <1>2, <1>9, RecordedRows
  <2>2. ASSUME NEW t \in Recorded'
        PROVE  (IF t <= trip.finalized THEN rows[t].intent # "pending"
                ELSE /\ t = trip.finalized + 1
                     /\ rows[t].intent = "pending"
                     /\ rows[t].expected = trip.revision)'
    <3>1. CASE t = n
      BY <1>1, <1>2, <1>3, <1>7, <3>1, NewRowShape
    <3>2. CASE t \in Recorded
      <4>1. t \in Seqs /\ t # n /\ t <= n - 1 /\ t \in Int
        BY <1>1, <1>9, <3>2, RecordedRows DEF Recorded
      <4>2. rows'[t].intent # "pending"
        BY Zenon, <1>7, <3>2, <4>1 DEF Recording
      <4>3. t <= trip'.finalized
        BY <1>1, <1>2, <1>3, <4>1
      <4> QED BY Zenon, <4>2, <4>3
    <3> QED BY Zenon, <1>9, <3>1, <3>2
  <2> QED BY Zenon, <2>1, <2>2 DEF DecidedPrefix
<1>12. PlannerIsAtMostOneAhead'
  <2>1. versions.accepted \in Int /\ versions.finalized \in Int
    BY DEF Inv, TypeOK, Versions, Counter
  <2>2. versions.finalized <= trip.finalized /\ versions.accepted <= trip.finalized
    BY <1>1, <2>1 DEF Inv, PlannerIsAtMostOneAhead, Recording
  <2>3. versions.finalized <= trip'.finalized /\ ~(versions.accepted > trip'.finalized)
    BY <1>1, <1>2, <2>1, <2>2
  <2> QED BY Zenon, <1>6, <2>3 DEF PlannerIsAtMostOneAhead
<1>13. TypeOK'
  BY <1>4, <1>6, <1>7 DEF Inv, TypeOK
<1>14. Ordered' /\ VersionsFit'
  BY Zenon, <1>5, <1>6 DEF Inv, Ordered, VersionsFit
<1>15. WireFits' /\ DispatchersFit'
  BY Zenon, <1>5, <1>6, DispatchersStay, SupervisorsStay, WireUnchanged DEF Inv
<1> QED BY Zenon, <1>8, <1>11, <1>12, <1>13, <1>14, <1>15 DEF Inv

(* RecordRuntimeFirst and RecordCanonicalFirst keep the invariant.          *)
LEMMA RecordStep ==
  ASSUME Inv, RecordRuntimeFirst \/ RecordCanonicalFirst
  PROVE  Inv'
<1>1. CASE RecordRuntimeFirst
  <2>1. Recording("runtime_first")
    BY Zenon, <1>1 DEF RecordRuntimeFirst, Recording
  <2> QED BY Zenon, <2>1, RecordingStep
<1>2. CASE RecordCanonicalFirst
  <2>1. Recording("canonical_first")
    BY <1>2 DEF RecordCanonicalFirst, Recording
  <2> QED BY Zenon, <2>1, RecordingStep
<1> QED BY Zenon, <1>1, <1>2

-----------------------------------------------------------------------------
(* The invariant holds at the start, of a new trip and of an active one.    *)
StartOf(v) ==
  /\ trip = [revision |-> 1, next |-> 2, finalized |-> 1]
  /\ rows = [s \in Seqs |-> NoRow]
  /\ versions = v
  /\ wire = [b \in Backends |-> <<>>]
  /\ dispatcher = [b \in Backends |-> Idle]

(* A trip with no command yet.                                              *)
LEMMA StartInv ==
  ASSUME NEW v \in Versions, StartOf(v), v.epoch <= MaxEpoch, v.revision <= MaxSeq + 1,
         v.accepted <= 1, v.finalized <= 1,
         lease \in [holder : Backends \cup {NoOwner}, epoch : 0 .. MaxEpoch, live : BOOLEAN],
         lease.live => lease.epoch # 0,
         supervisor \in [Backends -> Supervisor]
  PROVE  Inv
<1>1. /\ trip \in [revision : 1 .. MaxSeq, next : 2 .. MaxSeq + 1, finalized : 1 .. MaxSeq]
      /\ trip.revision = 1 /\ trip.next = 2 /\ trip.finalized = 1
  BY DurableDeliveryAssumption DEF StartOf
<1>2. NoRow \in Row /\ NoRow.order = "none" /\ NoRow.delivery = "pending"
  BY DurableDeliveryAssumption DEF NoRow, Row
<1>3. rows \in [Seqs -> Row] /\ \A s \in Seqs : rows[s] = NoRow
  BY Zenon, <1>2 DEF StartOf
<1>4. wire \in [Backends -> Seq(Request)] /\ \A b \in Backends : DOMAIN wire[b] = {}
  BY DEF StartOf
<1>5. dispatcher \in [Backends -> Dispatcher] /\ \A b \in Backends : dispatcher[b].at = "idle"
  BY Zenon, Records DEF StartOf
<1>6. TypeOK
  BY Zenon, <1>1, <1>3, <1>4, <1>5 DEF TypeOK, StartOf
<1>7. Ordered
  BY <1>1 DEF Ordered
<1>8. VersionsFit
  <2>1. v.accepted \in Int /\ v.finalized \in Int /\ MaxSeq \in Int /\ 1 <= MaxSeq
    BY DurableDeliveryAssumption DEF Versions, Counter
  <2>2. v.accepted <= MaxSeq /\ v.finalized <= MaxSeq
    BY <2>1
  <2> QED BY Zenon, <2>2 DEF StartOf, VersionsFit
<1>9. RowsFit
  <2>1. \A s \in Seqs : ~(s < trip.next)
    BY <1>1, SeqsFit
  <2> QED BY Zenon, <1>2, <1>3, <2>1 DEF RowsFit
<1>10. Recorded = {}
  BY Zenon, <1>3 DEF Recorded
<1>11. DecidedPrefix
  <2>1. 2 .. trip.next - 1 = {}
    BY <1>1
  <2> QED BY <1>10, <2>1 DEF DecidedPrefix
<1>12. DispatchersFit
  BY Zenon, <1>5 DEF DispatchersFit, DispatcherFits
<1>13. WireFits
  BY Zenon, <1>4 DEF WireFits, AwaitedOnce
<1>14. PlannerIsAtMostOneAhead
  <2>1. v.accepted \in Int /\ versions = v
    BY DEF Versions, Counter, StartOf
  <2> QED BY <1>1, <2>1 DEF PlannerIsAtMostOneAhead
<1> QED BY Zenon, <1>6, <1>7, <1>8, <1>9, <1>11, <1>12, <1>13, <1>14 DEF Inv

(* The initial states, where nobody holds the lease.                        *)
LEMMA InitInv == Init => Inv
<1> SUFFICES ASSUME Init PROVE Inv
  BY Zenon
<1>1. /\ lease \in [holder : Backends \cup {NoOwner}, epoch : 0 .. MaxEpoch, live : BOOLEAN]
      /\ ~lease.live
  BY DurableDeliveryAssumption DEF Init, NoLease
<1>2. supervisor \in [Backends -> Supervisor]
  BY Records DEF Init
<1>3. StartOf(Inactive)
  BY Zenon DEF Init, StartOf
<1>4. /\ Inactive.epoch <= MaxEpoch /\ Inactive.revision <= MaxSeq + 1
      /\ Inactive.accepted <= 1 /\ Inactive.finalized <= 1
  BY InactiveVersions, DurableDeliveryAssumption
<1> QED BY <1>1, <1>2, <1>3, <1>4, InactiveVersions, StartInv

(* The initial states of a trip that is already bootstrapped.               *)
LEMMA ActiveInitInv == ActiveInit => Inv
<1> SUFFICES ASSUME ActiveInit PROVE Inv
  BY Zenon
<1>1. 1 \in 1 .. MaxEpoch /\ 1 \in 1 .. MaxSeq /\ 1 \in 0 .. MaxSeq /\ 1 \in 0 .. MaxEpoch
  BY DurableDeliveryAssumption
<1>2. PICK b \in Backends :
        /\ lease = [holder |-> b, epoch |-> 1, live |-> TRUE]
        /\ supervisor = [c \in Backends |->
             IF c = b THEN [Unheld EXCEPT !.at = "active", !.epoch = 1] ELSE Unheld]
  BY Zenon DEF ActiveInit
<1>3. /\ lease \in [holder : Backends \cup {NoOwner}, epoch : 0 .. MaxEpoch, live : BOOLEAN]
      /\ lease.live => lease.epoch # 0
  BY <1>1, <1>2
<1>4. supervisor \in [Backends -> Supervisor]
  <2>1. [Unheld EXCEPT !.at = "active", !.epoch = 1] \in Supervisor
    BY Zenon, <1>1, Records DEF Supervisor
  <2> QED BY Zenon, <1>2, <2>1, Records
<1>5. PICK v \in Versions :
        /\ v = Bootstrapped(1, 1, 1, 0)
        /\ v.epoch = 1 /\ v.accepted = 1 /\ v.finalized = 1 /\ v.revision = 1
  BY <1>1, BootstrappedVersions
<1>6. StartOf(v)
  BY <1>5 DEF ActiveInit, StartOf
<1>7. v.epoch <= MaxEpoch /\ v.revision <= MaxSeq + 1 /\ v.accepted <= 1 /\ v.finalized <= 1
  BY <1>5, DurableDeliveryAssumption
<1> QED BY Zenon, <1>3, <1>4, <1>6, <1>7, StartInv

(* A stuttering step keeps the invariant.                                   *)
LEMMA UnchangedStep ==
  ASSUME Inv, UNCHANGED vars
  PROVE  Inv'
<1>1. RowsKept /\ Grown /\ UNCHANGED <<lease, versions, wire, dispatcher, supervisor>>
  BY Zenon, UnchangedRows, KeptRows DEF vars
<1>2. WireFits' /\ wire' \in [Backends -> Seq(Request)]
  BY Zenon, <1>1, DispatchersStay, SupervisorsStay, WireUnchanged DEF Inv, TypeOK
<1> QED BY Zenon, <1>1, <1>2, DispatchersStay, SupervisorsStay, Preserved

(* Every step of the system keeps the invariant.                            *)
LEMMA NextInv == Inv /\ [Next]_vars => Inv'
<1> SUFFICES ASSUME Inv, [Next]_vars PROVE Inv'
  BY Zenon
<1>1. CASE RecordRuntimeFirst \/ RecordCanonicalFirst
  BY Zenon, <1>1, RecordStep
<1>2. CASE LeaseExpires \/ PlannerRestart
  BY Zenon, <1>2, LeaseExpiresStep, PlannerRestartStep
<1>3. ASSUME NEW s \in Seqs, ClaimExpires(s) PROVE Inv'
  BY Zenon, <1>3, ClaimExpiresStep
<1>4. ASSUME NEW b \in Backends, Dispatching(b) PROVE Inv'
  BY Zenon, <1>4, RecoverConfirmationsStep, ClaimDueStep, DispatchStep, RetryStep, PauseStep,
     FinalizeRuntimeFirstStep, FinalizeCanonicalMirrorStep, SendConfirmStep,
     ConfirmFinalizedMutationsStep DEF Dispatching
<1>5. ASSUME NEW b \in Backends, Activating(b) PROVE Inv'
  BY Zenon, <1>5, AcquireStep, SendBootstrapStep, ResolveCanonicalBootstrapStep, LeaseLostStep,
     ReleaseStep DEF Activating
<1>6. ASSUME NEW b \in Backends, Timeout(b) PROVE Inv'
  BY Zenon, <1>6, ApplyTimeoutStep, ConfirmTimeoutStep, BootstrapTimeoutStep DEF Timeout
<1>7. ASSUME NEW b \in Backends, Deliver(b) \/ Drop(b) \/ BackendRestart(b) PROVE Inv'
  BY Zenon, <1>7, DeliverStep, DropStep, BackendRestartStep
<1>8. CASE UNCHANGED vars
  BY Zenon, <1>8, UnchangedStep
<1> QED BY Zenon, <1>1, <1>2, <1>3, <1>4, <1>5, <1>6, <1>7, <1>8 DEF Next

(* The outcome of a decided command stays, and the watermarks never go back. *)
LEMMA OutcomeStays ==
  ASSUME Inv, [Next]_vars
  PROVE  /\ trip'.finalized >= trip.finalized
         /\ trip'.revision >= trip.revision
         /\ \A s \in Recorded : rows[s].intent # "pending" => rows'[s].intent = rows[s].intent
<1>1. /\ trip \in [revision : 1 .. MaxSeq, next : 2 .. MaxSeq + 1, finalized : 1 .. MaxSeq]
      /\ rows \in [Seqs -> Row] /\ Recorded \subseteq Seqs
      /\ trip.finalized \in Int /\ trip.revision \in Int /\ trip.finalized < trip.next
  BY DEF Inv, TypeOK, Ordered, Recorded
<1>2. CASE RowsKept
  BY <1>1, <1>2 DEF RowsKept, RowKept
<1>3. ASSUME NEW order \in {"runtime_first", "canonical_first"}, Recording(order)
      PROVE  /\ trip'.finalized >= trip.finalized
             /\ trip'.revision >= trip.revision
             /\ \A s \in Recorded : rows[s].intent # "pending" => rows'[s].intent = rows[s].intent
  <2>1. trip'.finalized >= trip.finalized /\ trip'.revision >= trip.revision
    BY <1>1, <1>3 DEF Recording
  <2>2. trip.next \notin Recorded /\ trip.next \in Seqs
    BY <1>3, RecordedRows DEF Recording
  <2>3. \A s \in Recorded : rows'[s] = rows[s]
    BY Zenon, <1>1, <1>3, <2>2 DEF Recording
  <2> QED BY Zenon, <2>1, <2>3
<1>4. ASSUME NEW s \in Seqs, Deciding(s)
      PROVE  /\ trip'.finalized >= trip.finalized
             /\ trip'.revision >= trip.revision
             /\ \A t \in Recorded : rows[t].intent # "pending" => rows'[t].intent = rows[t].intent
  <2>1. trip'.finalized >= trip.finalized /\ trip'.revision >= trip.revision
    BY <1>1, <1>4 DEF Deciding
  <2>2. \A t \in Recorded : t # s => rows'[t] = rows[t]
    BY <1>1, <1>4 DEF Deciding
  <2> QED BY Zenon, <1>4, <2>1, <2>2 DEF Deciding
<1> QED BY Zenon, <1>2, <1>3, <1>4, DatabaseChanges

-----------------------------------------------------------------------------
(* The invariant of every behaviour, of a trip that was just created and of *)
(* one that is active, whatever is lost, expires, restarts or is released.  *)
THEOREM DeliveryInvariance == (Spec => []Inv) /\ (ActiveSpec => []Inv)
<1>1. Spec => []Inv
  BY InitInv, NextInv, PTL DEF Spec
<1>2. ActiveSpec => []Inv
  BY ActiveInitInv, NextInv, PTL DEF ActiveSpec
<1> QED BY Zenon, <1>1, <1>2

(* Every variable keeps its type: no worker, request or answer of the       *)
(* delivery carries a sequence, epoch or revision out of range.             *)
THEOREM DeliveryTypes == Spec => []TypeOK
<1>1. Inv => TypeOK
  BY Zenon DEF Inv
<1> QED BY <1>1, DeliveryInvariance, PTL

(* The planner is ahead of PostgreSQL by at most the undecided command, and *)
(* confirms nothing that is not finalized, for every fault the model has.   *)
THEOREM PlannerStaysClose == Spec => []PlannerIsAtMostOneAhead
<1>1. Inv => PlannerIsAtMostOneAhead
  BY Zenon DEF Inv
<1> QED BY <1>1, DeliveryInvariance, PTL

(* A decided command keeps its outcome and the watermarks of the trips row  *)
(* never go back, although a finalization looks at no claim and no lease.   *)
THEOREM DecisionsAreFinal == Spec => OutcomeIsFinal
<1> DEFINE A == /\ trip'.finalized >= trip.finalized
                /\ trip'.revision >= trip.revision
                /\ \A s \in Recorded : rows[s].intent # "pending" => rows'[s].intent = rows[s].intent
<1>1. Inv /\ [Next]_vars => [A]_vars
  BY Zenon, OutcomeStays
<1> HIDE DEF A
<1>2. Spec => [][A]_vars
  BY <1>1, DeliveryInvariance, PTL DEF Spec
<1> QED BY Zenon, <1>2 DEF A, OutcomeIsFinal
=============================================================================
