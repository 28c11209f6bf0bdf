------------------------ MODULE DurableSyncInvariant -------------------------
(***************************************************************************)
(* Proofs about DurableDelivery across takeovers: no takeover, restart or  *)
(* late answer marks an edit as synced that the planner of the current     *)
(* lease has not received.  The argument is about epochs: an epoch of the  *)
(* lease has one bootstrap, sent when nothing else is known of the epoch,  *)
(* and it carries everything that is finalized by then.                    *)
(***************************************************************************)
EXTENDS DurableDeliveryInvariant

(* A number of commands that the planner of the current lease has consumed, *)
(* or will have consumed once its bootstrap is executed.                    *)
Bootstraps(b) == {i \in DOMAIN wire[b] : wire[b][i].kind = "bootstrap"}

Reached(n) ==
  /\ \A b \in Backends : \A i \in Bootstraps(b) :
       wire[b][i].epoch = lease.epoch => n <= wire[b][i].seq
  /\ IsActive(versions) /\ versions.epoch = lease.epoch => n <= versions.accepted

(* No bootstrap of the epoch was executed or is on its way.                 *)
Fresh(epoch) ==
  /\ versions.epoch # epoch
  /\ \A b \in Backends :
       /\ \A i \in Bootstraps(b) : wire[b][i].epoch # epoch
       /\ dispatcher[b].ack.epoch # epoch
       /\ supervisor[b].ack.epoch # epoch

(* Nobody knows an epoch that the lease has not had.                        *)
EpochsFit ==
  /\ versions.epoch <= lease.epoch
  /\ \A b \in Backends :
       /\ \A i \in Bootstraps(b) : wire[b][i].epoch <= lease.epoch
       /\ dispatcher[b].epoch <= lease.epoch /\ dispatcher[b].ack.epoch <= lease.epoch
       /\ supervisor[b].epoch <= lease.epoch /\ supervisor[b].ack.epoch <= lease.epoch
       /\ supervisor[b].at = "acquired" => lease.epoch # 0
       /\ supervisor[b].at = "acquired" /\ lease.holder = b => Fresh(lease.epoch)

(* An epoch has one bootstrap, and no answer before it was executed.        *)
BootstrapsFit ==
  \A b \in Backends : \A i \in Bootstraps(b) :
    LET epoch == wire[b][i].epoch
    IN  /\ versions.epoch # epoch
        /\ \A c \in Backends :
             /\ \A j \in Bootstraps(c) : wire[c][j].epoch = epoch => b = c /\ i = j
             /\ dispatcher[c].ack.epoch # epoch
             /\ supervisor[c].ack.epoch # epoch

(* An answer of the planner's epoch does not know more than the planner.    *)
AnswersFit ==
  IsActive(versions) =>
    \A b \in Backends :
      /\ dispatcher[b].ack.epoch = versions.epoch
           => dispatcher[b].ack.accepted <= versions.accepted
      /\ supervisor[b].ack.epoch = versions.epoch
           => supervisor[b].ack.accepted <= versions.accepted

(* What is synced is in the planner of the current lease, and so is what a  *)
(* holder of an earlier lease may still mark as synced.                     *)
LateFits ==
  /\ \A s \in Seqs : rows[s].sync = "synced" => Reached(s)
  /\ \A b \in Backends :
       LET me == dispatcher[b]  sup == supervisor[b]
       IN  /\ /\ me.at \in {"applying", "applied"} /\ me.epoch < lease.epoch
              /\ rows[me.seq].order = "canonical_first"
              => Reached(me.seq)
           /\ sup.at \in {"bootstrapping", "bootstrapped"} =>
                /\ sup.finalized <= trip.finalized
                /\ sup.epoch < lease.epoch => Reached(sup.finalized)

SyncInv == Inv /\ EpochsFit /\ BootstrapsFit /\ AnswersFit /\ LateFits

-----------------------------------------------------------------------------
(* What a step that neither takes the lease nor sends a bootstrap does.  No *)
(* bootstrap is added to a stream: what is the i-th request was the i-th or *)
(* the next one before.                                                     *)
WireShrinks ==
  \E k \in [Backends -> {0, 1}] :
    \A b \in Backends : \A i \in Bootstraps(b)' :
      /\ i + k[b] \in Bootstraps(b)
      /\ wire'[b][i].epoch = wire[b][i + k[b]].epoch
      /\ wire'[b][i].seq = wire[b][i + k[b]].seq

(* The planner restarts, goes on, or executes a bootstrap.                  *)
PlannerMoves ==
  \/ versions'.epoch = 0
  \/ versions'.epoch = versions.epoch /\ versions'.accepted >= versions.accepted
  \/ \E b \in Backends : \E i \in Bootstraps(b) :
       /\ versions'.epoch = wire[b][i].epoch /\ versions'.accepted = wire[b][i].seq
       /\ \A c \in Backends : \A j \in Bootstraps(c)' : wire'[c][j].epoch # wire[b][i].epoch

(* An answer is kept, dropped, or new and then of the planner's versions.   *)
AckKept(old, new) ==
  \/ new = old
  \/ new.epoch = 0
  \/ new.epoch = versions'.epoch /\ new.accepted = versions'.accepted

DispatcherKept(b) ==
  LET old == dispatcher[b]  new == dispatcher'[b]
  IN  /\ new.epoch <= lease.epoch
      /\ AckKept(old.ack, new.ack)
      /\ new.at \in {"applying", "applied"} =>
           \/ new.epoch = lease.epoch
           \/ /\ old.at \in {"applying", "applied"}
              /\ new.seq = old.seq /\ new.epoch = old.epoch

SupervisorKept(b) ==
  LET old == supervisor[b]  new == supervisor'[b]
  IN  /\ new.epoch <= lease.epoch
      /\ AckKept(old.ack, new.ack)
      /\ new.at = "acquired" => old.at = "acquired"
      /\ new.at \in {"bootstrapping", "bootstrapped"} =>
           /\ old.at \in {"bootstrapping", "bootstrapped"}
           /\ new.epoch = old.epoch /\ new.finalized = old.finalized

(* A mirror becomes synced only when the planner has reached it.            *)
MirrorsKept ==
  /\ trip'.finalized >= trip.finalized
  /\ \A s \in Recorded : rows'[s].order = rows[s].order
  /\ \A s \in Seqs : rows'[s].sync = "synced" => rows[s].sync = "synced" \/ Reached(s)

(* The type invariant, for the arithmetic below.                            *)
LEMMA Numbers ==
  ASSUME Inv
  PROVE  /\ versions.epoch \in Int /\ versions.accepted \in Int /\ lease.epoch \in Int
         /\ trip.finalized \in Int
         /\ \A b \in Backends :
              /\ dispatcher[b].epoch \in Int /\ dispatcher[b].seq \in Int
              /\ dispatcher[b].ack.epoch \in Int /\ dispatcher[b].ack.accepted \in Int
              /\ supervisor[b].epoch \in Int /\ supervisor[b].finalized \in Int
              /\ supervisor[b].ack.epoch \in Int /\ supervisor[b].ack.accepted \in Int
              /\ \A i \in Bootstraps(b) :
                   /\ i \in Int /\ wire[b][i].seq \in Int
                   /\ wire[b][i].epoch \in Int /\ wire[b][i].epoch # 0
<1>1. /\ versions.epoch \in Int /\ versions.accepted \in Int /\ lease.epoch \in Int
      /\ trip.finalized \in Int
  BY DEF Inv, TypeOK, Versions, Counter
<1>2. ASSUME NEW b \in Backends
      PROVE  /\ dispatcher[b].epoch \in Int /\ dispatcher[b].seq \in Int
             /\ dispatcher[b].ack.epoch \in Int /\ dispatcher[b].ack.accepted \in Int
             /\ supervisor[b].epoch \in Int /\ supervisor[b].finalized \in Int
             /\ supervisor[b].ack.epoch \in Int /\ supervisor[b].ack.accepted \in Int
  <2>1. dispatcher[b] \in Dispatcher /\ supervisor[b] \in Supervisor
    BY DEF Inv, TypeOK
  <2>2. dispatcher[b].ack \in Ack /\ supervisor[b].ack \in Ack
    BY Zenon, <2>1 DEF Dispatcher, Supervisor
  <2>3. \A ack \in Ack : ack.epoch \in Int /\ ack.accepted \in Int
    BY DEF Ack
  <2> QED BY <2>1, <2>2, <2>3 DEF Dispatcher, Supervisor
<1>3. ASSUME NEW b \in Backends, NEW i \in Bootstraps(b)
      PROVE  /\ i \in Int /\ wire[b][i].seq \in Int
             /\ wire[b][i].epoch \in Int /\ wire[b][i].epoch # 0
  <2>1. wire[b] \in Seq(Request) /\ wire[b][i] \in Request /\ i \in DOMAIN wire[b]
    BY InWire DEF Inv, Bootstraps
  <2>2. DOMAIN wire[b] \subseteq Int
    BY <2>1
  <2> QED BY <2>1, <2>2 DEF Request
<1> QED BY Zenon, <1>1, <1>2, <1>3

(* The row a dispatcher delivers is recorded.                               *)
LEMMA DispatchedRow ==
  ASSUME Inv, NEW b \in Backends, dispatcher[b].at \in {"applying", "applied"}
  PROVE  dispatcher[b].seq \in Recorded
BY Zenon DEF Inv, DecidedPrefix, DispatchersFit, DispatcherFits

(* What the planner has reached stays reached.                              *)
LEMMA ReachedStays ==
  ASSUME SyncInv, Inv', WireShrinks, PlannerMoves, lease'.epoch = lease.epoch,
         NEW n \in Int, Reached(n)
  PROVE  Reached(n)'
<1>1. PICK k \in [Backends -> {0, 1}] :
        \A b \in Backends : \A i \in Bootstraps(b)' :
          /\ i + k[b] \in Bootstraps(b)
          /\ wire'[b][i].epoch = wire[b][i + k[b]].epoch
          /\ wire'[b][i].seq = wire[b][i + k[b]].seq
  BY Zenon DEF WireShrinks
<1>2. \A b \in Backends : \A i \in Bootstraps(b)' :
        wire'[b][i].epoch = lease'.epoch => n <= wire'[b][i].seq
  BY <1>1 DEF Reached
<1>3. ASSUME versions'.epoch # 0, versions'.epoch = lease'.epoch
      PROVE  n <= versions'.accepted
  <2>1. CASE versions'.epoch = versions.epoch /\ versions'.accepted >= versions.accepted
    <3>1. n <= versions.accepted
      BY Zenon, <1>3, <2>1 DEF Reached, IsActive
    <3>2. versions.accepted \in Int
      BY Zenon, Numbers DEF SyncInv
    <3>3. versions'.accepted \in Int
      BY DEF Inv, TypeOK, Versions, Counter
    <3> QED BY <2>1, <3>1, <3>2, <3>3
  <2>2. ASSUME NEW b \in Backends, NEW i \in Bootstraps(b),
               versions'.epoch = wire[b][i].epoch, versions'.accepted = wire[b][i].seq
        PROVE  n <= versions'.accepted
    BY <1>3, <2>2 DEF Reached
  <2> QED BY <1>3, <2>1, <2>2 DEF PlannerMoves
<1> QED BY <1>2, <1>3 DEF Reached, IsActive

Quiet ==
  /\ lease'.epoch = lease.epoch /\ lease'.holder = lease.holder
  /\ WireShrinks
  /\ PlannerMoves
  /\ MirrorsKept
  /\ \A b \in Backends : DispatcherKept(b) /\ SupervisorKept(b)

(* A property of the epochs that are known holds after a quiet step if it   *)
(* held before.                                                             *)
LEMMA KnownEpochs ==
  ASSUME Quiet, NEW e, e # 0, Fresh(e)
  PROVE  Fresh(e)'
<1>1. PICK k \in [Backends -> {0, 1}] :
        \A b \in Backends : \A i \in Bootstraps(b)' :
          i + k[b] \in Bootstraps(b) /\ wire'[b][i].epoch = wire[b][i + k[b]].epoch
  BY Zenon DEF Quiet, WireShrinks
<1>2. versions'.epoch # e
  BY Zenon DEF Quiet, PlannerMoves, Fresh
<1>3. ASSUME NEW b \in Backends
      PROVE  /\ \A i \in Bootstraps(b)' : wire'[b][i].epoch # e
             /\ dispatcher'[b].ack.epoch # e
             /\ supervisor'[b].ack.epoch # e
  <2>1. AckKept(dispatcher[b].ack, dispatcher'[b].ack)
    BY Zenon DEF Quiet, DispatcherKept
  <2>2. AckKept(supervisor[b].ack, supervisor'[b].ack)
    BY Zenon DEF Quiet, SupervisorKept
  <2>3. dispatcher'[b].ack.epoch # e
    BY <1>2, <2>1 DEF AckKept, Fresh
  <2>4. supervisor'[b].ack.epoch # e
    BY Zenon, <1>2, <2>2 DEF AckKept, Fresh
  <2> QED BY Zenon, <1>1, <2>3, <2>4 DEF Fresh
<1> QED BY <1>2, <1>3 DEF Fresh

(* A quiet step makes no epoch known that was not.                          *)
LEMMA QuietEpochs ==
  ASSUME SyncInv, Inv', Quiet
  PROVE  EpochsFit'
<1>1. PICK k \in [Backends -> {0, 1}] :
        \A b \in Backends : \A i \in Bootstraps(b)' :
          i + k[b] \in Bootstraps(b) /\ wire'[b][i].epoch = wire[b][i + k[b]].epoch
  BY Zenon DEF Quiet, WireShrinks
<1>2. lease'.epoch = lease.epoch /\ lease.epoch \in Int /\ 0 <= lease.epoch
  BY DEF Quiet, SyncInv, Inv, TypeOK
<1>3. versions'.epoch <= lease'.epoch
  BY <1>2 DEF Quiet, PlannerMoves, SyncInv, EpochsFit
<1>4. ASSUME NEW b \in Backends
      PROVE  /\ \A i \in Bootstraps(b)' : wire'[b][i].epoch <= lease'.epoch
             /\ dispatcher'[b].epoch <= lease'.epoch /\ dispatcher'[b].ack.epoch <= lease'.epoch
             /\ supervisor'[b].epoch <= lease'.epoch /\ supervisor'[b].ack.epoch <= lease'.epoch
             /\ supervisor'[b].at = "acquired" => lease'.epoch # 0
             /\ supervisor'[b].at = "acquired" /\ lease'.holder = b => Fresh(lease.epoch)'
  <2>1. DispatcherKept(b) /\ SupervisorKept(b)
    BY Zenon DEF Quiet
  <2>2. dispatcher'[b].ack.epoch <= lease'.epoch
    BY Zenon, <1>2, <1>3, <2>1 DEF DispatcherKept, AckKept, SyncInv, EpochsFit
  <2>3. supervisor'[b].ack.epoch <= lease'.epoch
    BY <1>2, <1>3, <2>1 DEF SupervisorKept, AckKept, SyncInv, EpochsFit
  <2>4. dispatcher'[b].epoch <= lease'.epoch /\ supervisor'[b].epoch <= lease'.epoch
    BY Zenon, <1>2, <2>1 DEF DispatcherKept, SupervisorKept
  <2>5. supervisor'[b].at = "acquired" => lease'.epoch # 0
    BY Zenon, <1>2, <2>1 DEF SupervisorKept, SyncInv, EpochsFit
  <2>6. ASSUME supervisor'[b].at = "acquired", lease'.holder = b
        PROVE  Fresh(lease.epoch)'
    <3>1. lease.epoch # 0 /\ Fresh(lease.epoch)
      BY Zenon, <2>1, <2>6 DEF SupervisorKept, Quiet, SyncInv, EpochsFit
    <3> DEFINE e == lease.epoch
    <3>2. e # 0 /\ Fresh(e)
      BY Zenon, <3>1
    <3>3. PICK f : f = e
      OBVIOUS
    <3>4. f # 0 /\ Fresh(f)
      BY Zenon, <3>2, <3>3 DEF Fresh
    <3> HIDE DEF e
    <3>5. Fresh(f)'
      BY Zenon, <3>4, KnownEpochs
    <3>6. f = lease'.epoch
      BY Zenon, <1>2, <3>3 DEF e
    <3> QED BY Zenon, <3>5, <3>6 DEF Fresh
  <2>7. \A i \in Bootstraps(b)' : wire'[b][i].epoch <= lease'.epoch
    BY Zenon, <1>1, <1>2 DEF SyncInv, EpochsFit
  <2> QED BY <2>2, <2>3, <2>4, <2>5, <2>6, <2>7
<1> QED BY Zenon, <1>3, <1>4 DEF EpochsFit

(* A quiet step sends no bootstrap.                                         *)
LEMMA QuietBootstraps ==
  ASSUME SyncInv, Inv', Quiet
  PROVE  BootstrapsFit'
<1>1. PICK k \in [Backends -> {0, 1}] :
        \A b \in Backends : \A i \in Bootstraps(b)' :
          i + k[b] \in Bootstraps(b) /\ wire'[b][i].epoch = wire[b][i + k[b]].epoch
  BY Zenon DEF Quiet, WireShrinks
<1> SUFFICES ASSUME NEW b \in Backends, NEW i \in Bootstraps(b)'
             PROVE  /\ versions'.epoch # wire'[b][i].epoch
                    /\ \A c \in Backends :
                         /\ \A j \in Bootstraps(c)' :
                              wire'[c][j].epoch = wire'[b][i].epoch => b = c /\ i = j
                         /\ dispatcher'[c].ack.epoch # wire'[b][i].epoch
                         /\ supervisor'[c].ack.epoch # wire'[b][i].epoch
  BY Zenon DEF BootstrapsFit
<1> DEFINE e == wire'[b][i].epoch
<1>2. i + k[b] \in Bootstraps(b) /\ e = wire[b][i + k[b]].epoch
  BY Zenon, <1>1
<1>3. e # 0
  BY Zenon, <1>2, Numbers DEF SyncInv
<1> HIDE DEF e
<1>4. versions'.epoch # e
  <2>1. versions.epoch # e
    BY Zenon, <1>2 DEF SyncInv, BootstrapsFit
  <2>2. ASSUME NEW c \in Backends, NEW j \in Bootstraps(c),
               versions'.epoch = wire[c][j].epoch,
               \A d \in Backends : \A l \in Bootstraps(d)' :
                 wire'[d][l].epoch # wire[c][j].epoch
        PROVE  versions'.epoch # e
    BY Zenon, <2>2 DEF e
  <2> QED BY Zenon, <1>3, <2>1, <2>2 DEF Quiet, PlannerMoves
<1>5. ASSUME NEW c \in Backends
      PROVE  /\ \A j \in Bootstraps(c)' : wire'[c][j].epoch = e => b = c /\ i = j
             /\ dispatcher'[c].ack.epoch # e
             /\ supervisor'[c].ack.epoch # e
  <2>1. dispatcher[c].ack.epoch # e /\ supervisor[c].ack.epoch # e
    BY <1>2 DEF SyncInv, BootstrapsFit
  <2>2. DispatcherKept(c) /\ SupervisorKept(c)
    BY Zenon DEF Quiet
  <2>3. dispatcher'[c].ack.epoch # e
    BY <1>3, <1>4, <2>1, <2>2 DEF DispatcherKept, AckKept
  <2>4. supervisor'[c].ack.epoch # e
    BY Zenon, <1>3, <1>4, <2>1, <2>2 DEF SupervisorKept, AckKept
  <2>5. ASSUME NEW j \in Bootstraps(c)', wire'[c][j].epoch = e
        PROVE  b = c /\ i = j
    <3>1. j + k[c] \in Bootstraps(c) /\ wire[c][j + k[c]].epoch = e
      BY Zenon, <1>1, <2>5
    <3>2. b = c /\ i + k[b] = j + k[c]
      BY <1>2, <3>1 DEF SyncInv, BootstrapsFit
    <3>3. i \in Int /\ j \in Int /\ k[b] \in Int
      <4>1. i \in DOMAIN wire'[b] /\ j \in DOMAIN wire'[c]
        BY Zenon DEF Bootstraps
      <4>2. wire'[b] \in Seq(Request) /\ wire'[c] \in Seq(Request)
        BY Zenon DEF Inv, TypeOK
      <4> QED BY <4>1, <4>2
    <3> QED BY <3>2, <3>3
  <2> QED BY Zenon, <2>3, <2>4, <2>5
<1> QED BY Zenon, <1>4, <1>5 DEF e

(* After a quiet step no answer knows more than the planner.                *)
LEMMA QuietAnswers ==
  ASSUME SyncInv, Inv', Quiet
  PROVE  AnswersFit'
<1> SUFFICES ASSUME versions'.epoch # 0, NEW ack, NEW new,
                    ack.epoch \in Int, ack.accepted \in Int, AckKept(ack, new),
                    versions.epoch # 0 /\ ack.epoch = versions.epoch
                      => ack.accepted <= versions.accepted,
                    \A b \in Backends : \A i \in Bootstraps(b) :
                      ack.epoch # wire[b][i].epoch,
                    new.epoch = versions'.epoch
             PROVE  new.accepted <= versions'.accepted
  <2>1. \A b \in Backends :
          /\ AckKept(dispatcher[b].ack, dispatcher'[b].ack)
          /\ AckKept(supervisor[b].ack, supervisor'[b].ack)
    BY Zenon DEF Quiet, DispatcherKept, SupervisorKept
  <2> QED BY <2>1, Numbers DEF AnswersFit, IsActive, SyncInv, BootstrapsFit
<1>1. versions'.accepted \in Int /\ versions.accepted \in Int
  BY DEF SyncInv, Inv, TypeOK, Versions, Counter
<1>2. CASE new.accepted = versions'.accepted
  BY <1>1, <1>2
<1>3. CASE new = ack
  BY <1>1, <1>3 DEF Quiet, PlannerMoves
<1> QED BY Zenon, <1>2, <1>3 DEF AckKept

(* After a quiet step what is synced, or may yet be marked, is reached.     *)
LEMMA QuietLate ==
  ASSUME SyncInv, Inv', Quiet
  PROVE  LateFits'
<1>1. \A n \in Int : Reached(n) => Reached(n)'
  BY Zenon, ReachedStays DEF Quiet
<1>2. ASSUME NEW s \in Seqs, rows'[s].sync = "synced"
      PROVE  Reached(s)'
  BY Zenon, <1>1, <1>2, SeqsFit DEF Quiet, MirrorsKept, SyncInv, LateFits
<1>3. ASSUME NEW b \in Backends, dispatcher'[b].at \in {"applying", "applied"},
             dispatcher'[b].epoch < lease'.epoch,
             rows'[dispatcher'[b].seq].order = "canonical_first"
      PROVE  Reached(dispatcher[b].seq)' 
  <2>1. DispatcherKept(b) /\ lease'.epoch = lease.epoch
    BY Zenon DEF Quiet
  <2>2. dispatcher'[b].epoch # lease.epoch
    BY <1>3, <2>1, Numbers DEF SyncInv
  <2>3. /\ dispatcher[b].at \in {"applying", "applied"}
        /\ dispatcher'[b].seq = dispatcher[b].seq /\ dispatcher'[b].epoch = dispatcher[b].epoch
    BY Zenon, <1>3, <2>1, <2>2 DEF DispatcherKept
  <2>4. dispatcher[b].seq \in Recorded
    BY <2>3, DispatchedRow DEF SyncInv
  <2>5. rows[dispatcher[b].seq].order = "canonical_first"
    BY Zenon, <1>3, <2>3, <2>4 DEF Quiet, MirrorsKept
  <2>6. Reached(dispatcher[b].seq) /\ dispatcher[b].seq \in Int
    BY <1>3, <2>1, <2>3, <2>5, Numbers DEF SyncInv, LateFits
  <2>7. PICK n \in Int : n = dispatcher[b].seq
    BY Zenon, <2>6
  <2>8. Reached(n)'
    BY Zenon, <1>1, <2>6, <2>7 DEF Reached
  <2> QED BY <2>3, <2>7, <2>8 DEF Reached
<1>4. ASSUME NEW b \in Backends, supervisor'[b].at \in {"bootstrapping", "bootstrapped"}
      PROVE  /\ supervisor'[b].finalized <= trip'.finalized
             /\ supervisor'[b].epoch < lease'.epoch => Reached(supervisor[b].finalized)'
  <2>1. SupervisorKept(b) /\ lease'.epoch = lease.epoch
    BY Zenon DEF Quiet
  <2>2. /\ supervisor[b].at \in {"bootstrapping", "bootstrapped"}
        /\ supervisor'[b].epoch = supervisor[b].epoch
        /\ supervisor'[b].finalized = supervisor[b].finalized
    BY Zenon, <1>4, <2>1 DEF SupervisorKept
  <2>3. trip'.finalized \in Int /\ trip'.finalized >= trip.finalized
    BY DEF Quiet, MirrorsKept, Inv, TypeOK
  <2>4. supervisor'[b].finalized <= trip'.finalized
    BY <2>2, <2>3, Numbers DEF SyncInv, LateFits
  <2>5. ASSUME supervisor'[b].epoch < lease'.epoch
        PROVE  Reached(supervisor[b].finalized)'
    <3>1. Reached(supervisor[b].finalized) /\ supervisor[b].finalized \in Int
      BY Zenon, <2>1, <2>2, <2>5, Numbers DEF SyncInv, LateFits
    <3>2. PICK n \in Int : n = supervisor[b].finalized
      BY Zenon, <3>1
    <3>3. Reached(n)'
      BY <1>1, <3>1, <3>2 DEF Reached
    <3> QED BY Zenon, <2>2, <3>2, <3>3 DEF Reached
  <2> QED BY Zenon, <2>4, <2>5
<1> QED BY Zenon, <1>2, <1>3, <1>4 DEF LateFits

(* A quiet step keeps the invariant.                                        *)
LEMMA QuietStep ==
  ASSUME SyncInv, Inv', Quiet
  PROVE  SyncInv'
BY Zenon, QuietEpochs, QuietBootstraps, QuietAnswers, QuietLate DEF SyncInv

-----------------------------------------------------------------------------
(* The quiet steps.                                                         *)
LEMMA WireShifts ==
  ASSUME NEW k \in [Backends -> {0, 1}],
         \A b \in Backends : \A i \in DOMAIN wire'[b] :
           wire'[b][i].kind = "bootstrap" =>
             /\ i + k[b] \in DOMAIN wire[b] /\ wire[b][i + k[b]].kind = "bootstrap"
             /\ wire'[b][i].epoch = wire[b][i + k[b]].epoch
             /\ wire'[b][i].seq = wire[b][i + k[b]].seq
  PROVE  WireShrinks
BY DEF WireShrinks, Bootstraps

(* A stream whose requests differ only in who waits for them.               *)
LEMMA WireStays ==
  ASSUME Inv,
         \A b \in Backends :
           /\ DOMAIN wire'[b] = DOMAIN wire[b]
           /\ \A i \in DOMAIN wire[b] :
                /\ wire'[b][i].kind = wire[b][i].kind
                /\ wire'[b][i].epoch = wire[b][i].epoch
                /\ wire'[b][i].seq = wire[b][i].seq
  PROVE  WireShrinks
<1>1. PICK k \in [Backends -> {0, 1}] : k = [b \in Backends |-> 0]
  BY Zenon
<1>2. \A b \in Backends : DOMAIN wire[b] \subseteq Int
  <2>1. \A b \in Backends : wire[b] \in Seq(Request)
    BY DEF Inv, TypeOK
  <2> QED BY <2>1
<1>3. \A b \in Backends : \A i \in DOMAIN wire[b] : i + k[b] = i
  BY <1>1, <1>2
<1> QED BY <1>3, WireShifts

(* A stream that no step touches.                                           *)
LEMMA WireUnchangedShrinks ==
  ASSUME Inv, UNCHANGED wire
  PROVE  WireShrinks
BY Zenon, WireStays

(* A stream whose requests are given up.                                    *)
LEMMA WireAbandonedShrinks ==
  ASSUME Inv, NEW b \in Backends, NEW kinds, wire' = Abandoned(b, kinds)
  PROVE  WireShrinks
BY WireStays, AbandonedShape DEF Inv, TypeOK

(* A stream whose first request was executed or lost.                       *)
LEMMA WirePoppedShrinks ==
  ASSUME Inv, NEW b \in Backends, wire[b] # <<>>, wire' = [wire EXCEPT ![b] = Tail(@)]
  PROVE  /\ WireShrinks
         /\ \A c \in Backends : \A j \in Bootstraps(c)' :
              \E i \in Bootstraps(c) : /\ wire'[c][j].epoch = wire[c][i].epoch
                                       /\ c = b => i # 1
<1>1. PICK k \in [Backends -> {0, 1}] : k = [c \in Backends |-> IF c = b THEN 1 ELSE 0]
  BY Zenon
<1>2. \A c \in Backends : wire[c] \in Seq(Request) /\ DOMAIN wire[c] \subseteq Int
  <2>1. \A c \in Backends : wire[c] \in Seq(Request)
    BY DEF Inv, TypeOK
  <2> QED BY <2>1
<1>3. /\ wire'[b] = Tail(wire[b])
      /\ \A c \in Backends \ {b} : wire'[c] = wire[c]
  BY DEF Inv, TypeOK
<1>4. \A i \in DOMAIN wire'[b] :
        i + 1 \in DOMAIN wire[b] /\ i + 1 # 1 /\ wire'[b][i] = wire[b][i + 1]
  <2>1. wire[b] \in Seq(Request)
    BY Zenon, <1>2
  <2>2. \A i \in DOMAIN Tail(wire[b]) :
          i + 1 \in DOMAIN wire[b] /\ i + 1 # 1 /\ Tail(wire[b])[i] = wire[b][i + 1]
    BY Zenon, <2>1, TailShape
  <2> QED BY Zenon, <1>3, <2>2
<1>5. ASSUME NEW c \in Backends, NEW i \in DOMAIN wire'[c]
      PROVE  /\ i + k[c] \in DOMAIN wire[c] /\ wire'[c][i] = wire[c][i + k[c]]
             /\ c = b => i + k[c] # 1
  <2>1. CASE c = b
    BY <1>1, <1>4, <2>1
  <2>2. CASE c # b
    <3>1. wire'[c] = wire[c] /\ k[c] = 0 /\ i \in Int
      BY Zenon, <1>1, <1>2, <1>3, <2>2
    <3> QED BY <2>2, <3>1
  <2> QED BY <2>1, <2>2
<1>6. WireShrinks
  BY <1>5, WireShifts
<1> QED BY <1>5, <1>6 DEF Bootstraps

(* A stream that got an event or a confirmation.                            *)
LEMMA WireSentShrinks ==
  ASSUME Inv, NEW b \in Backends, NEW kind \in {"apply", "confirm"}, NEW epoch, NEW seq,
         NEW revision, Send(b, kind, epoch, seq, revision)
  PROVE  WireShrinks
<1> DEFINE r == [kind |-> kind, epoch |-> epoch, seq |-> seq, revision |-> revision,
                 awaited |-> TRUE]
<1>1. PICK k \in [Backends -> {0, 1}] : k = [c \in Backends |-> 0]
  BY Zenon
<1>2. \A c \in Backends : wire[c] \in Seq(Request) /\ DOMAIN wire[c] \subseteq Int
  <2>1. \A c \in Backends : wire[c] \in Seq(Request)
    BY Zenon DEF Inv, TypeOK
  <2> QED BY <2>1
<1>3. /\ wire'[b] = Append(wire[b], r)
      /\ \A c \in Backends \ {b} : wire'[c] = wire[c]
  BY Zenon DEF Inv, TypeOK, Send
<1> HIDE DEF r
<1>4. ASSUME NEW c \in Backends, NEW i \in DOMAIN wire'[c], wire'[c][i].kind = "bootstrap"
      PROVE  i \in DOMAIN wire[c] /\ wire'[c][i] = wire[c][i]
  <2>1. CASE c = b
    <3>1. /\ DOMAIN Append(wire[b], r) = 1 .. Len(wire[b]) + 1
          /\ \A j \in 1 .. Len(wire[b]) : Append(wire[b], r)[j] = wire[b][j]
          /\ Append(wire[b], r)[Len(wire[b]) + 1] = r
          /\ DOMAIN wire[b] = 1 .. Len(wire[b]) /\ Len(wire[b]) \in Nat
      BY <1>2
    <3>2. r.kind # "bootstrap"
      BY Zenon DEF r
    <3>3. i # Len(wire[b]) + 1
      BY Zenon, <1>3, <1>4, <2>1, <3>1, <3>2
    <3> QED BY <1>3, <2>1, <3>1, <3>3
  <2>2. CASE c # b
    BY Zenon, <1>3, <2>2
  <2> QED BY Zenon, <2>1, <2>2
<1>5. \A c \in Backends : \A i \in DOMAIN wire[c] : i + k[c] = i
  BY <1>1, <1>2
<1> QED BY <1>4, <1>5, WireShifts

(* What a step leaves alone it leaves quiet.                                *)
LEMMA Stays ==
  ASSUME SyncInv
  PROVE  /\ UNCHANGED dispatcher => \A b \in Backends : DispatcherKept(b)
         /\ UNCHANGED supervisor => \A b \in Backends : SupervisorKept(b)
         /\ UNCHANGED versions => PlannerMoves
         /\ UNCHANGED <<trip, rows>> => MirrorsKept
<1>1. UNCHANGED dispatcher => \A b \in Backends : DispatcherKept(b)
  BY Zenon DEF DispatcherKept, AckKept, SyncInv, EpochsFit
<1>2. UNCHANGED supervisor => \A b \in Backends : SupervisorKept(b)
  BY Zenon DEF SupervisorKept, AckKept, SyncInv, EpochsFit
<1>3. UNCHANGED versions => PlannerMoves
  BY Numbers DEF PlannerMoves, SyncInv
<1>4. UNCHANGED <<trip, rows>> => MirrorsKept
  BY Numbers DEF MirrorsKept, SyncInv
<1> QED BY Zenon, <1>1, <1>2, <1>3, <1>4

(* A step of one dispatcher.                                                *)
LEMMA QuietDispatch ==
  ASSUME SyncInv, Inv', NEW b \in Backends, MirrorsKept, WireShrinks,
         \A c \in Backends \ {b} : dispatcher'[c] = dispatcher[c],
         DispatcherKept(b),
         UNCHANGED <<lease, versions, supervisor>>
  PROVE  SyncInv'
<1>1. \A c \in Backends : DispatcherKept(c)
  BY DEF DispatcherKept, AckKept, SyncInv, EpochsFit
<1> QED BY Zenon, <1>1, Stays, QuietStep DEF Quiet

(* A step of one supervisor.                                                *)
LEMMA QuietSupervision ==
  ASSUME SyncInv, Inv', NEW b \in Backends, MirrorsKept, WireShrinks,
         \A c \in Backends \ {b} : supervisor'[c] = supervisor[c],
         SupervisorKept(b),
         UNCHANGED <<lease, versions, dispatcher>>
  PROVE  SyncInv'
<1>1. \A c \in Backends : SupervisorKept(c)
  BY DEF SupervisorKept, AckKept, SyncInv, EpochsFit
<1> QED BY Zenon, <1>1, Stays, QuietStep DEF Quiet

(* A worker that starts over knows nothing.                                 *)
LEMMA StartsOver ==
  ASSUME SyncInv, NEW b \in Backends
  PROVE  /\ dispatcher' = [dispatcher EXCEPT ![b] = Idle] =>
              /\ \A c \in Backends \ {b} : dispatcher'[c] = dispatcher[c]
              /\ DispatcherKept(b)
         /\ supervisor' = [supervisor EXCEPT ![b] = Unheld] =>
              /\ \A c \in Backends \ {b} : supervisor'[c] = supervisor[c]
              /\ SupervisorKept(b)
<1>1. /\ Idle.epoch = 0 /\ Idle.ack.epoch = 0 /\ Idle.at = "idle"
      /\ Unheld.epoch = 0 /\ Unheld.ack.epoch = 0 /\ Unheld.at = "inactive"
  BY Zenon DEF Idle, Unheld, NoAck
<1>2. lease.epoch >= 0
  BY DEF SyncInv, Inv, TypeOK
<1>3. ASSUME dispatcher' = [dispatcher EXCEPT ![b] = Idle]
      PROVE  DispatcherKept(b) /\ \A c \in Backends \ {b} : dispatcher'[c] = dispatcher[c]
  <2>1. dispatcher'[b] = Idle /\ \A c \in Backends \ {b} : dispatcher'[c] = dispatcher[c]
    BY <1>3 DEF SyncInv, Inv, TypeOK
  <2> QED BY <1>1, <1>2, <2>1 DEF DispatcherKept, AckKept
<1>4. ASSUME supervisor' = [supervisor EXCEPT ![b] = Unheld]
      PROVE  SupervisorKept(b) /\ \A c \in Backends \ {b} : supervisor'[c] = supervisor[c]
  <2>1. supervisor'[b] = Unheld /\ \A c \in Backends \ {b} : supervisor'[c] = supervisor[c]
    BY Zenon, <1>4 DEF SyncInv, Inv, TypeOK
  <2> QED BY Zenon, <1>1, <1>2, <2>1 DEF SupervisorKept, AckKept
<1> QED BY Zenon, <1>3, <1>4

(* Rows whose mirrors stay as they are.                                     *)
LEMMA SyncsStay ==
  ASSUME SyncInv, RowsKept, \A s \in Seqs : rows'[s].sync = rows[s].sync
  PROVE  MirrorsKept
<1>1. trip'.finalized >= trip.finalized
  BY Numbers DEF RowsKept, SyncInv
<1> QED BY Zenon, <1>1 DEF RowsKept, RowKept, MirrorsKept, Recorded

(* A claim says nothing about the mirror of its row.                        *)
LEMMA ClaimsStay ==
  ASSUME SyncInv, NEW s \in Seqs, NEW claim, rows' = [rows EXCEPT ![s].claim = claim]
  PROVE  \A t \in Seqs : rows'[t].sync = rows[t].sync
<1>1. rows \in [Seqs -> Row]
  BY DEF SyncInv, Inv, TypeOK
<1> QED BY <1>1 DEF Row

(* Neither does giving the row up.                                          *)
LEMMA GivesUpClaim ==
  ASSUME SyncInv, NEW b \in Backends, dispatcher[b].at \in {"claimed", "applying", "applied"},
         trip' = trip, ReleaseForRetry(b) \/ PauseInternal(b)
  PROVE  MirrorsKept
<1>1. RowsKept
  BY Zenon, Released, Paused DEF SyncInv
<1>2. \A s \in Seqs : rows'[s].sync = rows[s].sync
  <2>1. rows \in [Seqs -> Row]
    BY DEF SyncInv, Inv, TypeOK
  <2> QED BY <2>1 DEF ReleaseForRetry, PauseInternal, Row
<1> QED BY <1>1, <1>2, SyncsStay

(* ClaimDue is quiet.                                                       *)
LEMMA QuietClaimDue ==
  ASSUME SyncInv, Inv', NEW b \in Backends, ClaimDue(b)
  PROVE  SyncInv'
<1>1. UNCHANGED <<trip, lease, versions, wire, supervisor>>
  BY Zenon DEF ClaimDue
<1>2. WireShrinks
  BY Zenon, <1>1, WireUnchangedShrinks DEF SyncInv
<1>3. CASE dispatcher' = [dispatcher EXCEPT ![b] = Idle] /\ UNCHANGED rows
  BY Zenon, <1>1, <1>2, <1>3, StartsOver, Stays, QuietDispatch
<1>4. ASSUME NEW s \in Seqs, Due(s), rows' = [rows EXCEPT ![s].claim = b],
             dispatcher' = [dispatcher EXCEPT ![b] = [Idle EXCEPT !.at = "claimed", !.seq = s]]
      PROVE  SyncInv'
  <2>1. MirrorsKept
    <3>1. RowsKept
      BY Zenon, <1>1, <1>4, ClaimChanges DEF SyncInv, Due
    <3> QED BY Zenon, <1>4, <3>1, ClaimsStay, SyncsStay
  <2>2. /\ dispatcher'[b] = [Idle EXCEPT !.at = "claimed", !.seq = s]
        /\ \A c \in Backends \ {b} : dispatcher'[c] = dispatcher[c]
    BY Zenon, <1>4 DEF SyncInv, Inv, TypeOK
  <2>3. dispatcher'[b].at = "claimed" /\ dispatcher'[b].epoch = 0 /\ dispatcher'[b].ack.epoch = 0
    BY <2>2 DEF Idle, NoAck
  <2>4. lease.epoch >= 0
    BY DEF SyncInv, Inv, TypeOK
  <2>5. DispatcherKept(b)
    BY <2>3, <2>4 DEF DispatcherKept, AckKept
  <2> QED BY Zenon, <1>1, <1>2, <2>1, <2>2, <2>5, QuietDispatch
<1> QED BY Zenon, <1>3, <1>4 DEF ClaimDue

(* ClaimExpires is quiet.                                                   *)
LEMMA QuietClaimExpires ==
  ASSUME SyncInv, Inv', NEW s \in Seqs, ClaimExpires(s)
  PROVE  SyncInv'
<1>1. /\ UNCHANGED <<trip, lease, versions, wire, dispatcher, supervisor>>
      /\ rows' = [rows EXCEPT ![s].claim = NoOwner]
      /\ s \in Recorded
  BY DEF ClaimExpires
<1>2. RowsKept
  BY Zenon, <1>1, Records, ClaimChanges DEF SyncInv
<1>3. MirrorsKept
  BY Zenon, <1>1, <1>2, ClaimsStay, SyncsStay
<1> QED BY <1>1, <1>3, WireUnchangedShrinks, Stays, QuietStep DEF Quiet, SyncInv

(* Retry, Pause and ApplyTimeout are quiet.                                 *)
LEMMA QuietRetry ==
  ASSUME SyncInv, Inv', NEW b \in Backends, Retry(b) \/ Pause(b) \/ ApplyTimeout(b)
  PROVE  SyncInv'
<1>1. /\ dispatcher[b].at \in {"applying", "applied"}
      /\ ReleaseForRetry(b) \/ PauseInternal(b)
      /\ dispatcher' = [dispatcher EXCEPT ![b] = Idle]
      /\ UNCHANGED <<trip, lease, versions, supervisor>>
  BY Zenon DEF Retry, Pause, ApplyTimeout, Done
<1>2. WireShrinks
  BY Zenon, WireUnchangedShrinks, WireAbandonedShrinks DEF Retry, Pause, ApplyTimeout, SyncInv
<1> QED BY Zenon, <1>1, <1>2, GivesUpClaim, StartsOver, QuietDispatch

(* ConfirmTimeout is quiet.                                                 *)
LEMMA QuietConfirmTimeout ==
  ASSUME SyncInv, Inv', NEW b \in Backends, ConfirmTimeout(b)
  PROVE  SyncInv'
<1>1. /\ dispatcher' = [dispatcher EXCEPT ![b] = Idle]
      /\ UNCHANGED <<trip, rows, lease, versions, supervisor>>
      /\ wire' = Abandoned(b, {"confirm"})
  BY Zenon DEF ConfirmTimeout, Done, database
<1>2. WireShrinks
  BY Zenon, <1>1, WireAbandonedShrinks DEF SyncInv
<1> QED BY Zenon, <1>1, <1>2, Stays, StartsOver, QuietDispatch

(* RecoverConfirmations is quiet: its epoch is that of the lease.           *)
LEMMA QuietRecoverConfirmations ==
  ASSUME SyncInv, Inv', NEW b \in Backends, RecoverConfirmations(b)
  PROVE  SyncInv'
<1>1. UNCHANGED <<trip, rows, lease, versions, supervisor>> /\ dispatcher[b].at = "idle"
  BY Zenon DEF RecoverConfirmations, database
<1>2. dispatcher \in [Backends -> Dispatcher] /\ dispatcher[b] \in Dispatcher
  BY Zenon DEF SyncInv, Inv, TypeOK
<1>3. /\ WireShrinks
      /\ \A c \in Backends \ {b} : dispatcher'[c] = dispatcher[c]
  BY Zenon, <1>2, WireSentShrinks, WireUnchangedShrinks DEF RecoverConfirmations, SyncInv
<1>4. CASE dispatcher' = [dispatcher EXCEPT ![b].at = "recovered"]
  <2>1. /\ dispatcher'[b].epoch = dispatcher[b].epoch /\ dispatcher'[b].ack = dispatcher[b].ack
        /\ dispatcher'[b].at = "recovered"
    BY Zenon, <1>2, <1>4 DEF Dispatcher
  <2>2. DispatcherKept(b)
    BY Zenon, <2>1 DEF DispatcherKept, AckKept, SyncInv, EpochsFit
  <2> QED BY Zenon, <1>1, <1>3, <2>2, Stays, QuietDispatch
<1>5. ASSUME NEW s \in Unconfirmed,
             dispatcher' = [dispatcher EXCEPT ![b] =
                    [Idle EXCEPT !.at = "confirming", !.seq = s, !.epoch = lease.epoch,
                                 !.recovery = TRUE]]
      PROVE  SyncInv'
  <2>1. dispatcher'[b] = Recovering(Idle, lease.epoch, s)
    BY Zenon, <1>2, <1>5 DEF Recovering
  <2>2. lease.epoch \in 0 .. MaxEpoch /\ s \in 0 .. MaxSeq
    BY Zenon, SeqsFit DEF Unconfirmed, SyncInv, Inv, TypeOK
  <2>3. /\ dispatcher'[b].epoch = lease.epoch /\ dispatcher'[b].ack = Idle.ack
        /\ dispatcher'[b].at = "confirming"
    BY <2>1, <2>2, Records, RecoveringShape
  <2>4. Idle.ack.epoch = 0
    BY Zenon DEF Idle, NoAck
  <2>5. DispatcherKept(b)
    BY <2>2, <2>3, <2>4 DEF DispatcherKept, AckKept
  <2> QED BY Zenon, <1>1, <1>3, <2>5, Stays, QuietDispatch
<1> QED BY Zenon, <1>4, <1>5 DEF RecoverConfirmations

(* Dispatch is quiet: its epoch is that of the lease.                       *)
LEMMA QuietDispatchStep ==
  ASSUME SyncInv, Inv', NEW b \in Backends, Dispatch(b)
  PROVE  SyncInv'
<1>1. UNCHANGED <<trip, lease, versions, supervisor>> /\ dispatcher[b].at = "claimed"
  BY Zenon DEF Dispatch
<1>2. CASE ReleaseForRetry(b) /\ Done(b) /\ UNCHANGED wire
  BY Zenon, <1>1, <1>2, GivesUpClaim, WireUnchangedShrinks, StartsOver, QuietDispatch DEF Done, SyncInv
<1>3. ASSUME Send(b, "apply", lease.epoch, dispatcher[b].seq, rows[dispatcher[b].seq].expected),
             dispatcher' = [dispatcher EXCEPT ![b].at = "applying", ![b].epoch = lease.epoch],
             UNCHANGED rows
      PROVE  SyncInv'
  <2>1. dispatcher \in [Backends -> Dispatcher] /\ dispatcher[b] \in Dispatcher
    BY Zenon DEF SyncInv, Inv, TypeOK
  <2>2. /\ dispatcher'[b].epoch = lease.epoch /\ dispatcher'[b].ack = dispatcher[b].ack
        /\ \A c \in Backends \ {b} : dispatcher'[c] = dispatcher[c]
    BY Zenon, <1>3, <2>1 DEF Dispatcher
  <2>3. DispatcherKept(b)
    BY <2>2, Numbers DEF DispatcherKept, AckKept, SyncInv
  <2>4. WireShrinks
    BY Zenon, <1>3, WireSentShrinks DEF SyncInv
  <2> QED BY Zenon, <1>1, <1>3, <2>2, <2>3, <2>4, Stays, QuietDispatch
<1> QED BY Zenon, <1>2, <1>3 DEF Dispatch

(* SendConfirm is quiet.                                                    *)
LEMMA QuietSendConfirm ==
  ASSUME SyncInv, Inv', NEW b \in Backends, SendConfirm(b)
  PROVE  SyncInv'
<1>1. /\ UNCHANGED <<trip, rows, lease, versions, supervisor>>
      /\ dispatcher' = [dispatcher EXCEPT ![b].at = "confirming"]
  BY Zenon DEF SendConfirm, database
<1>2. dispatcher \in [Backends -> Dispatcher] /\ dispatcher[b] \in Dispatcher
  BY Zenon DEF SyncInv, Inv, TypeOK
<1>3. /\ dispatcher'[b].epoch = dispatcher[b].epoch /\ dispatcher'[b].ack = dispatcher[b].ack
      /\ dispatcher'[b].at = "confirming"
      /\ \A c \in Backends \ {b} : dispatcher'[c] = dispatcher[c]
  BY Zenon, <1>1, <1>2 DEF Dispatcher
<1>4. DispatcherKept(b)
  BY Zenon, <1>3 DEF DispatcherKept, AckKept, SyncInv, EpochsFit
<1>5. WireShrinks
  BY Zenon, WireSentShrinks DEF SendConfirm, SyncInv
<1> QED BY Zenon, <1>1, <1>3, <1>4, <1>5, Stays, QuietDispatch

(* What a dispatcher does once the row is decided.                          *)
LEMMA GoesOn ==
  ASSUME SyncInv, NEW b \in Backends, ToConfirm(b) \/ Done(b)
  PROVE  /\ \A c \in Backends \ {b} : dispatcher'[c] = dispatcher[c]
         /\ DispatcherKept(b)
<1>1. CASE Done(b)
  BY Zenon, <1>1, StartsOver DEF Done
<1>2. CASE ToConfirm(b)
  <2>1. dispatcher \in [Backends -> Dispatcher] /\ dispatcher[b] \in Dispatcher
    BY Zenon DEF SyncInv, Inv, TypeOK
  <2>2. /\ dispatcher'[b].epoch = dispatcher[b].epoch /\ dispatcher'[b].ack = NoAck
        /\ dispatcher'[b].at = "finalized"
        /\ \A c \in Backends \ {b} : dispatcher'[c] = dispatcher[c]
    BY Zenon, <1>2, <2>1 DEF Dispatcher, ToConfirm
  <2>3. NoAck.epoch = 0
    BY Zenon DEF NoAck
  <2> QED BY Zenon, <2>2, <2>3 DEF DispatcherKept, AckKept, SyncInv, EpochsFit
<1> QED BY Zenon, <1>1, <1>2

(* ConfirmFinalizedMutations is quiet.                                      *)
LEMMA QuietConfirmFinalizedMutations ==
  ASSUME SyncInv, Inv', NEW b \in Backends, ConfirmFinalizedMutations(b)
  PROVE  SyncInv'
<1>1. UNCHANGED <<trip, lease, versions, wire, supervisor>>
  BY Zenon DEF ConfirmFinalizedMutations
<1>2. RowsKept
  BY Zenon, ConfirmFinalizedMutationsChanges DEF SyncInv
<1>3. \A s \in Seqs : rows'[s].sync = rows[s].sync
  <2>1. rows \in [Seqs -> Row]
    BY Zenon DEF SyncInv, Inv, TypeOK
  <2> QED BY <2>1 DEF ConfirmFinalizedMutations, Row
<1>4. MirrorsKept
  BY Zenon, <1>2, <1>3, SyncsStay
<1>5. dispatcher \in [Backends -> Dispatcher] /\ dispatcher[b] \in Dispatcher
  BY Zenon DEF SyncInv, Inv, TypeOK
<1>6. /\ dispatcher'[b].epoch = 0 /\ dispatcher'[b].ack.epoch = 0
      /\ dispatcher'[b].at \in {"idle", "recovered"}
      /\ \A c \in Backends \ {b} : dispatcher'[c] = dispatcher[c]
  BY <1>5 DEF ConfirmFinalizedMutations, Done, Idle, NoAck
<1>7. lease.epoch >= 0
  BY DEF SyncInv, Inv, TypeOK
<1>8. DispatcherKept(b)
  BY Zenon, <1>6, <1>7 DEF DispatcherKept, AckKept
<1> QED BY Zenon, <1>1, <1>4, <1>6, <1>8, WireUnchangedShrinks, QuietDispatch DEF SyncInv

(* The answer a finalization relies on shows that the planner of the        *)
(* current lease is as far as the row, also when the lease has moved on.    *)
LEMMA AnswerReaches ==
  ASSUME SyncInv, NEW ack, NEW n \in Int, ack.epoch = lease.epoch, n <= ack.accepted,
         ack.accepted \in Int,
         \E b \in Backends : ack = dispatcher[b].ack \/ ack = supervisor[b].ack
  PROVE  Reached(n)
<1>1. \A b \in Backends : \A i \in Bootstraps(b) : wire[b][i].epoch # lease.epoch
  BY DEF SyncInv, BootstrapsFit
<1>2. IsActive(versions) /\ versions.epoch = lease.epoch => n <= versions.accepted
  BY Numbers DEF SyncInv, AnswersFit
<1> QED BY Zenon, <1>1, <1>2 DEF Reached

(* FinalizeCanonicalMirror marks a mirror as synced that the planner of the *)
(* lease has consumed.                                                      *)
LEMMA QuietFinalizeCanonicalMirror ==
  ASSUME SyncInv, Inv', NEW b \in Backends, FinalizeCanonicalMirror(b)
  PROVE  SyncInv'
<1> DEFINE me == dispatcher[b]
<1>1. /\ UNCHANGED <<trip, lease, versions, wire, supervisor>>
      /\ me.at = "applied" /\ rows[me.seq].order = "canonical_first"
      /\ me.ack.epoch = me.epoch /\ me.ack.accepted >= me.seq
  BY Zenon DEF FinalizeCanonicalMirror, Resolves
<1>2. RowsKept
  BY Zenon, FinalizeCanonicalMirrorChanges DEF SyncInv
<1>3. ToConfirm(b) \/ Done(b)
  BY Zenon DEF FinalizeCanonicalMirror
<1>4. Reached(me.seq)
  <2>1. /\ me.epoch \in Int /\ me.seq \in Int /\ me.ack.accepted \in Int /\ lease.epoch \in Int
        /\ me.epoch <= lease.epoch
    BY Zenon, Numbers DEF SyncInv, EpochsFit
  <2>2. CASE me.epoch < lease.epoch
    BY Zenon, <1>1, <2>2 DEF SyncInv, LateFits
  <2>3. CASE me.epoch = lease.epoch
    BY Zenon, <1>1, <2>1, <2>3, AnswerReaches
  <2> QED BY <2>1, <2>2, <2>3
<1>5. ASSUME NEW s \in Seqs, rows'[s].sync = "synced"
      PROVE  rows[s].sync = "synced" \/ Reached(s)
  <2>1. rows \in [Seqs -> Row] /\ me.seq \in Seqs
    BY Zenon, <1>1, DispatchedRow DEF SyncInv, Inv, TypeOK, Recorded
  <2>2. CASE s # me.seq
    BY Zenon, <1>5, <2>1, <2>2 DEF FinalizeCanonicalMirror, Row
  <2>3. CASE s = me.seq
    BY Zenon, <1>4, <2>3
  <2> QED BY Zenon, <2>2, <2>3
<1>6. MirrorsKept
  BY <1>1, <1>2, <1>5, Numbers DEF RowsKept, RowKept, MirrorsKept, Recorded, SyncInv
<1> QED BY Zenon, <1>1, <1>3, <1>6, GoesOn, WireUnchangedShrinks, QuietDispatch DEF SyncInv

(* FinalizeRuntimeFirst marks no mirror.                                    *)
LEMMA QuietFinalizeRuntimeFirst ==
  ASSUME SyncInv, Inv', NEW b \in Backends, FinalizeRuntimeFirst(b)
  PROVE  SyncInv'
<1>1. /\ UNCHANGED <<lease, versions, wire, supervisor>>
      /\ dispatcher[b].at = "applied"
  BY Zenon DEF FinalizeRuntimeFirst
<1>2. ToConfirm(b) \/ Done(b)
  BY Zenon DEF FinalizeRuntimeFirst, SameOutcome
<1>3. CASE UNCHANGED <<trip, rows>>
  BY Zenon, <1>1, <1>2, <1>3, GoesOn, Stays, WireUnchangedShrinks, QuietDispatch DEF SyncInv
<1>4. CASE ~UNCHANGED <<trip, rows>>
  <2>1. PICK s \in Seqs : Deciding(s)
    BY Zenon, <1>4, FinalizeRuntimeFirstChanges DEF SyncInv, database
  <2>2. rows \in [Seqs -> Row] /\ trip.finalized \in Int
    BY Zenon, Numbers DEF SyncInv, Inv, TypeOK
  <2>3. \A t \in Seqs : rows'[t].sync = rows[t].sync /\ rows'[t].order = rows[t].order
    BY <2>1, <2>2 DEF Deciding, Row
  <2>4. trip'.finalized = trip.finalized + 1
    BY <2>1 DEF Deciding, SyncInv, Inv, TypeOK
  <2>5. MirrorsKept
    BY <2>2, <2>3, <2>4 DEF MirrorsKept, Recorded
  <2> QED BY Zenon, <1>1, <1>2, <2>5, GoesOn, WireUnchangedShrinks, QuietDispatch DEF SyncInv
<1> QED BY Zenon, <1>3, <1>4

(* LeaseLost and BootstrapTimeout are quiet.                                *)
LEMMA QuietLeaseLost ==
  ASSUME SyncInv, Inv', NEW b \in Backends, LeaseLost(b) \/ BootstrapTimeout(b)
  PROVE  SyncInv'
<1>1. /\ UNCHANGED <<trip, rows, lease, versions, dispatcher>>
      /\ supervisor' = [supervisor EXCEPT ![b] = Unheld]
  BY Zenon DEF LeaseLost, BootstrapTimeout, Fail, database
<1>2. WireShrinks
  BY Zenon, WireUnchangedShrinks, WireAbandonedShrinks DEF LeaseLost, BootstrapTimeout, SyncInv
<1> QED BY Zenon, <1>1, <1>2, StartsOver, Stays, QuietSupervision

(* LeaseExpires is quiet: the epoch stays.                                  *)
LEMMA QuietLeaseExpires ==
  ASSUME SyncInv, Inv', LeaseExpires
  PROVE  SyncInv'
<1>1. /\ UNCHANGED <<trip, rows, versions, wire, dispatcher, supervisor>>
      /\ lease' = [lease EXCEPT !.live = FALSE]
  BY DEF LeaseExpires, database
<1>2. lease'.epoch = lease.epoch /\ lease'.holder = lease.holder
  BY Zenon, <1>1 DEF SyncInv, Inv, TypeOK
<1> QED BY <1>1, <1>2, WireUnchangedShrinks, Stays, QuietStep DEF Quiet, SyncInv

(* Drop is quiet.                                                           *)
LEMMA QuietDrop ==
  ASSUME SyncInv, Inv', NEW b \in Backends, Drop(b)
  PROVE  SyncInv'
<1>1. /\ UNCHANGED <<trip, rows, lease, versions, dispatcher, supervisor>>
      /\ wire[b] # <<>> /\ wire' = [wire EXCEPT ![b] = Tail(@)]
  BY Zenon DEF Drop, database
<1> QED BY Zenon, <1>1, WirePoppedShrinks, Stays, QuietStep DEF Quiet, SyncInv

(* A planner that restarts has no epoch, and nothing is claimed of it.      *)
LEMMA QuietPlannerRestart ==
  ASSUME SyncInv, Inv', PlannerRestart
  PROVE  SyncInv'
<1>1. /\ UNCHANGED <<trip, rows, lease, wire, dispatcher, supervisor>>
      /\ versions'.epoch = 0
  BY Zenon DEF PlannerRestart, database, Inactive
<1>2. PlannerMoves
  BY Zenon, <1>1 DEF PlannerMoves
<1> QED BY Zenon, <1>1, <1>2, WireUnchangedShrinks, Stays, QuietStep DEF Quiet, SyncInv

(* BackendRestart is quiet.                                                 *)
LEMMA QuietBackendRestart ==
  ASSUME SyncInv, Inv', NEW b \in Backends, BackendRestart(b)
  PROVE  SyncInv'
<1>1. /\ UNCHANGED <<trip, rows, lease, versions>>
      /\ dispatcher' = [dispatcher EXCEPT ![b] = Idle]
      /\ supervisor' = [supervisor EXCEPT ![b] = Unheld]
      /\ wire' = Abandoned(b, {"apply", "confirm", "bootstrap"})
  BY Zenon DEF BackendRestart, database
<1>2. WireShrinks
  BY Zenon, <1>1, WireAbandonedShrinks DEF SyncInv
<1>3. \A c \in Backends : DispatcherKept(c) /\ SupervisorKept(c)
  <2>1. /\ DispatcherKept(b) /\ SupervisorKept(b)
        /\ \A c \in Backends \ {b} : dispatcher'[c] = dispatcher[c]
        /\ \A c \in Backends \ {b} : supervisor'[c] = supervisor[c]
    BY Zenon, <1>1, StartsOver
  <2> QED BY <2>1 DEF DispatcherKept, SupervisorKept, AckKept, SyncInv, EpochsFit
<1> QED BY Zenon, <1>1, <1>2, <1>3, Stays, QuietStep DEF Quiet

(* A new command is not synced.                                             *)
LEMMA QuietRecording ==
  ASSUME SyncInv, Inv', NEW order \in {"runtime_first", "canonical_first"}, Recording(order)
  PROVE  SyncInv'
<1>1. UNCHANGED <<lease, versions, wire, dispatcher, supervisor>>
  BY Zenon DEF Recording
<1>2. /\ rows \in [Seqs -> Row] /\ trip.next \in Seqs /\ trip.next \notin Recorded
      /\ rows' = [rows EXCEPT ![trip.next] = NewRow(order)]
  <2>1. trip.next \in Int
    BY DEF SyncInv, Inv, TypeOK
  <2> QED BY <2>1, RecordedRows DEF Recording, SyncInv, Inv, TypeOK
<1>3. NewRow(order).sync # "synced"
  BY NewRowShape DEF SyncInv
<1>4. \A s \in Seqs : s # trip.next => rows'[s] = rows[s]
  BY <1>2
<1>5. rows'[trip.next] = NewRow(order)
  BY Zenon, <1>2
<1>6. trip'.finalized >= trip.finalized
  BY DEF Recording, SyncInv, Inv, TypeOK, Ordered
<1>7. MirrorsKept
  BY Zenon, <1>2, <1>3, <1>4, <1>5, <1>6 DEF MirrorsKept, Recorded
<1> QED BY <1>1, <1>7, WireUnchangedShrinks, Stays, QuietStep DEF Quiet, SyncInv

(* What is reached is reached for every smaller number.                     *)
LEMMA ReachedBelow ==
  ASSUME SyncInv, NEW n \in Int, Reached(n), NEW m \in Int, m <= n
  PROVE  Reached(m)
<1>1. \A b \in Backends : \A i \in Bootstraps(b) : wire[b][i].seq \in Int
  BY Zenon, Numbers DEF SyncInv
<1>2. versions.accepted \in Int
  BY Zenon, Numbers DEF SyncInv
<1> QED BY <1>1, <1>2 DEF Reached

(* ResolveCanonicalBootstrap marks what the bootstrap covered.              *)
LEMMA QuietResolveCanonicalBootstrap ==
  ASSUME SyncInv, Inv', NEW b \in Backends, ResolveCanonicalBootstrap(b)
  PROVE  SyncInv'
<1> DEFINE me == supervisor[b]
<1>1. /\ UNCHANGED <<trip, lease, versions, wire, dispatcher>> /\ me.at = "bootstrapped"
  BY Zenon DEF ResolveCanonicalBootstrap
<1>2. RowsKept
  BY Zenon, ResolveCanonicalBootstrapChanges DEF SyncInv
<1>3. WireShrinks
  BY Zenon, <1>1, WireUnchangedShrinks DEF SyncInv
<1>4. CASE Fail(b) /\ UNCHANGED rows
  BY Zenon, <1>1, <1>3, <1>4, StartsOver, Stays, QuietSupervision DEF Fail
<1>5. CASE /\ me.ack.epoch = me.epoch /\ me.ack.accepted = me.finalized
           /\ me.ack.finalized = me.finalized
           /\ Covers(me.ack)
           /\ rows' = BootstrapRows
           /\ supervisor' = [supervisor EXCEPT ![b] =
                               [Unheld EXCEPT !.at = "active", !.epoch = me.epoch]]
  <2>1. me.epoch \in Int /\ me.finalized \in Int /\ lease.epoch \in Int /\ me.epoch <= lease.epoch
    BY Zenon, Numbers DEF SyncInv, EpochsFit
  <2>2. Reached(trip.finalized)
    <3>1. CASE me.epoch < lease.epoch
      BY Zenon, <1>1, <1>5, <3>1 DEF SyncInv, LateFits, Covers
    <3>2. CASE me.epoch = lease.epoch
      <4>1. Reached(me.finalized)
        <5>1. me.ack.accepted \in Int /\ me.finalized <= me.ack.accepted
          BY <1>5, <2>1
        <5> QED BY Zenon, <1>5, <2>1, <3>2, <5>1, AnswerReaches
      <4> QED BY Zenon, <1>5, <4>1 DEF Covers
    <3> QED BY <2>1, <3>1, <3>2
  <2>3. ASSUME NEW s \in Seqs, rows'[s].sync = "synced"
        PROVE  rows[s].sync = "synced" \/ Reached(s)
    <3>1. CASE s > trip.finalized
      BY Zenon, <1>5, <2>3, <3>1 DEF BootstrapRows
    <3>2. CASE ~(s > trip.finalized)
      BY <2>2, <3>2, Numbers, SeqsFit, ReachedBelow DEF SyncInv
    <3> QED BY Zenon, <3>1, <3>2
  <2>4. MirrorsKept
    BY <1>1, <1>2, <2>3, Numbers DEF RowsKept, RowKept, MirrorsKept, Recorded, SyncInv
  <2>5. /\ supervisor'[b] = [Unheld EXCEPT !.at = "active", !.epoch = me.epoch]
        /\ \A c \in Backends \ {b} : supervisor'[c] = supervisor[c]
    BY Zenon, <1>5 DEF SyncInv, Inv, TypeOK
  <2>6. /\ supervisor'[b].at = "active" /\ supervisor'[b].epoch = me.epoch
        /\ supervisor'[b].ack.epoch = 0
    BY <2>5 DEF Unheld, NoAck
  <2>7. SupervisorKept(b)
    BY Zenon, <2>1, <2>6 DEF SupervisorKept, AckKept
  <2> QED BY Zenon, <1>1, <1>3, <2>4, <2>5, <2>7, QuietSupervision
<1> QED BY Zenon, <1>4, <1>5 DEF ResolveCanonicalBootstrap, BootstrapRows

(* An executed request keeps the invariant.                                 *)
LEMMA QuietDeliver ==
  ASSUME SyncInv, Inv', NEW b \in Backends, Deliver(b)
  PROVE  SyncInv'
<1>1. PICK r \in Request, status \in Statuses, v \in Versions : Executes(b, r, status, v)
  BY Zenon, DeliverExecutes DEF SyncInv
<1>2. AckOf(status, v) \in Ack /\ AckOf(status, v).epoch = v.epoch
      /\ AckOf(status, v).accepted = v.accepted
  <2>1. v.finalized <= MaxSeq
    <3>1. v.finalized \in Int /\ trip.finalized \in Int /\ MaxSeq \in Int
      BY DurableDeliveryAssumption DEF SyncInv, Inv, TypeOK, Versions, Counter
    <3>2. v.finalized <= trip.finalized /\ trip.finalized <= MaxSeq
      BY <1>1 DEF Executes, InBounds, SyncInv, Inv, TypeOK
    <3> QED BY <3>1, <3>2
  <2> QED BY Zenon, <1>1, <2>1, AckShape DEF Executes, InBounds
<1>3. /\ UNCHANGED <<trip, rows, lease>> /\ versions' = v
      /\ wire[b] # <<>> /\ r = Head(wire[b]) /\ wire' = [wire EXCEPT ![b] = Tail(@)]
  BY <1>1, <1>2, AnswerGoes DEF Executes, InBounds, SyncInv
<1>4. WireShrinks
  BY Zenon, <1>3, WirePoppedShrinks DEF SyncInv
<1>5. PlannerMoves
  <2>1. CASE v.epoch = versions.epoch /\ v.accepted >= versions.accepted
    BY Zenon, <1>3, <2>1 DEF PlannerMoves
  <2>2. CASE r.kind = "bootstrap" /\ v.epoch = r.epoch /\ v.accepted = r.seq
    <3>1. 1 \in Bootstraps(b) /\ wire[b][1] = r
      <4>1. wire[b] \in Seq(Request)
        BY Zenon DEF SyncInv, Inv, TypeOK
      <4> QED BY Zenon, <1>3, <2>2, <4>1, TailShape DEF Bootstraps
    <3>2. \A c \in Backends : \A j \in Bootstraps(c)' :
            \E i \in Bootstraps(c) : wire'[c][j].epoch = wire[c][i].epoch /\ (c = b => i # 1)
      BY Zenon, <1>3, WirePoppedShrinks DEF SyncInv
    <3>3. \A c \in Backends : \A i \in Bootstraps(c) :
            wire[c][i].epoch = wire[b][1].epoch => c = b /\ i = 1
      BY <3>1 DEF SyncInv, BootstrapsFit
    <3>4. \A c \in Backends : \A j \in Bootstraps(c)' : wire'[c][j].epoch # wire[b][1].epoch
      BY <3>2, <3>3
    <3>5. versions'.epoch = wire[b][1].epoch /\ versions'.accepted = wire[b][1].seq
      BY Zenon, <1>3, <2>2, <3>1
    <3> QED BY Zenon, <3>1, <3>4, <3>5 DEF PlannerMoves
  <2> QED BY Zenon, <1>1, <2>1, <2>2 DEF Executes, InBounds
<1>6. \A ack : AckKept(ack, AckOf(status, v))
  BY Zenon, <1>2, <1>3 DEF AckKept
<1>7. \A c \in Backends : DispatcherKept(c)
  <2>1. CASE UNCHANGED dispatcher
    BY Zenon, <2>1, Stays
  <2>2. ASSUME NEW at \in {"applied", "confirmed"}, at = "applied" => dispatcher[b].at = "applying",
               dispatcher' = [dispatcher EXCEPT ![b] =
                                Answered(dispatcher[b], AckOf(status, v), at)]
        PROVE  \A c \in Backends : DispatcherKept(c)
    <3>1. dispatcher \in [Backends -> Dispatcher] /\ dispatcher[b] \in Dispatcher
      BY DEF SyncInv, Inv, TypeOK
    <3>2. /\ dispatcher'[b] = Answered(dispatcher[b], AckOf(status, v), at)
          /\ \A c \in Backends \ {b} : dispatcher'[c] = dispatcher[c]
      BY Zenon, <2>2, <3>1
    <3>3. /\ dispatcher'[b].at = at /\ dispatcher'[b].ack = AckOf(status, v)
          /\ dispatcher'[b].seq = dispatcher[b].seq /\ dispatcher'[b].epoch = dispatcher[b].epoch
      BY <1>2, <3>1, <3>2, DispatcherAnswered
    <3>4. DispatcherKept(b)
      BY Zenon, <1>6, <2>2, <3>3 DEF DispatcherKept, SyncInv, EpochsFit
    <3> QED BY Zenon, <3>2, <3>4 DEF DispatcherKept, AckKept, SyncInv, EpochsFit
  <2> QED BY <1>1, <1>2, <2>1, <2>2, AnswerGoes DEF Executes, InBounds, SyncInv
<1>8. \A c \in Backends : SupervisorKept(c)
  <2>1. CASE UNCHANGED supervisor
    BY Zenon, <2>1, Stays
  <2>2. ASSUME supervisor[b].at = "bootstrapping",
               supervisor' = [supervisor EXCEPT ![b] =
                                Answered(supervisor[b], AckOf(status, v), "bootstrapped")]
        PROVE  \A c \in Backends : SupervisorKept(c)
    <3>1. supervisor \in [Backends -> Supervisor] /\ supervisor[b] \in Supervisor
      BY Zenon DEF SyncInv, Inv, TypeOK
    <3>2. /\ supervisor'[b] = Answered(supervisor[b], AckOf(status, v), "bootstrapped")
          /\ \A c \in Backends \ {b} : supervisor'[c] = supervisor[c]
      BY Zenon, <2>2, <3>1
    <3>3. /\ supervisor'[b].at = "bootstrapped" /\ supervisor'[b].ack = AckOf(status, v)
          /\ supervisor'[b].epoch = supervisor[b].epoch
          /\ supervisor'[b].finalized = supervisor[b].finalized
      <4>1. AckOf(status, v) \in Ack
        BY Zenon, <1>2
      <4> DEFINE e == Answered(supervisor[b], AckOf(status, v), "bootstrapped")
      <4>2. /\ e.at = "bootstrapped" /\ e.ack = AckOf(status, v)
            /\ e.epoch = supervisor[b].epoch /\ e.finalized = supervisor[b].finalized
        BY <3>1, <4>1, SupervisorAnswered
      <4> QED BY Zenon, <3>2, <4>2
    <3>4. SupervisorKept(b)
      BY <1>6, <2>2, <3>3 DEF SupervisorKept, SyncInv, EpochsFit
    <3> QED BY Zenon, <3>2, <3>4 DEF SupervisorKept, AckKept, SyncInv, EpochsFit
  <2> QED BY <1>1, <1>2, <2>1, <2>2, AnswerGoes DEF Executes, InBounds, SyncInv
<1> QED BY Zenon, <1>3, <1>4, <1>5, <1>7, <1>8, Stays, QuietStep DEF Quiet

-----------------------------------------------------------------------------
(* A new epoch: nothing of it is known.                                     *)
LEMMA SyncAcquire ==
  ASSUME SyncInv, Inv', NEW b \in Backends, Acquire(b)
  PROVE  SyncInv'
<1>1. UNCHANGED <<trip, rows, versions, wire, dispatcher>>
  BY Zenon DEF Acquire, database
<1>2. /\ lease' = [holder |-> b, epoch |-> lease.epoch + 1, live |-> TRUE]
      /\ supervisor' = [supervisor EXCEPT ![b] = [Unheld EXCEPT !.at = "acquired"]]
  BY Zenon DEF Acquire
<1>3. lease'.epoch = lease.epoch + 1 /\ lease.epoch \in Int /\ lease.epoch >= 0
  BY <1>2 DEF SyncInv, Inv, TypeOK
<1>4. /\ supervisor'[b].at = "acquired" /\ supervisor'[b].epoch = 0
      /\ supervisor'[b].ack.epoch = 0
      /\ \A c \in Backends \ {b} : supervisor'[c] = supervisor[c]
  <2>1. /\ supervisor'[b] = [Unheld EXCEPT !.at = "acquired"]
        /\ \A c \in Backends \ {b} : supervisor'[c] = supervisor[c]
    BY <1>2 DEF SyncInv, Inv, TypeOK
  <2> QED BY <2>1 DEF Unheld, NoAck
<1>5. \A c \in Backends : Bootstraps(c)' = Bootstraps(c)
  BY Zenon, <1>1 DEF Bootstraps
<1>6. versions.epoch < lease'.epoch
  <2>1. versions.epoch \in Int /\ versions.epoch <= lease.epoch
    BY Zenon, Numbers DEF SyncInv, EpochsFit
  <2> QED BY <1>3, <2>1
<1>7. ASSUME NEW c \in Backends
      PROVE  /\ \A i \in Bootstraps(c)' : wire'[c][i].epoch < lease'.epoch
             /\ dispatcher'[c].epoch < lease'.epoch /\ dispatcher'[c].ack.epoch < lease'.epoch
             /\ supervisor'[c].epoch < lease'.epoch /\ supervisor'[c].ack.epoch < lease'.epoch
  <2>1. /\ \A i \in Bootstraps(c) : wire[c][i].epoch \in Int
        /\ dispatcher[c].epoch \in Int /\ dispatcher[c].ack.epoch \in Int
        /\ supervisor[c].epoch \in Int /\ supervisor[c].ack.epoch \in Int
    BY Zenon, Numbers DEF SyncInv
  <2>2. /\ \A i \in Bootstraps(c) : wire[c][i].epoch <= lease.epoch
        /\ dispatcher[c].epoch <= lease.epoch /\ dispatcher[c].ack.epoch <= lease.epoch
        /\ supervisor[c].epoch <= lease.epoch /\ supervisor[c].ack.epoch <= lease.epoch
    BY Zenon DEF SyncInv, EpochsFit
  <2>3. \A i \in Bootstraps(c)' : wire'[c][i].epoch < lease'.epoch
    <3>1. \A i \in Bootstraps(c) : wire[c][i].epoch < lease'.epoch
      BY <1>3, <2>1, <2>2
    <3> QED BY Zenon, <1>1, <1>5, <3>1
  <2>4. dispatcher'[c].epoch < lease'.epoch /\ dispatcher'[c].ack.epoch < lease'.epoch
    BY <1>1, <1>3, <2>1, <2>2
  <2>5. supervisor'[c].epoch < lease'.epoch /\ supervisor'[c].ack.epoch < lease'.epoch
    BY <1>3, <1>4, <2>1, <2>2
  <2> QED BY Zenon, <2>3, <2>4, <2>5
<1>8. lease'.epoch \in Int /\ lease'.epoch # 0
  BY <1>3
<1>9. \A c \in Backends :
        /\ \A i \in Bootstraps(c)' : wire'[c][i].epoch \in Int
        /\ dispatcher'[c].epoch \in Int /\ dispatcher'[c].ack.epoch \in Int
        /\ supervisor'[c].epoch \in Int /\ supervisor'[c].ack.epoch \in Int
  BY <1>1, <1>4, <1>5, Numbers DEF SyncInv
<1>10. versions' = versions /\ versions.epoch \in Int
  BY Zenon, <1>1, Numbers DEF SyncInv
<1>11. Fresh(lease.epoch)'
  BY <1>6, <1>7, <1>8, <1>9, <1>10 DEF Fresh
<1>12. EpochsFit'
  BY <1>6, <1>7, <1>8, <1>9, <1>10, <1>11 DEF EpochsFit
<1>13. \A n : Reached(n)'
  BY <1>6, <1>7, <1>8, <1>9, <1>10 DEF Reached
<1>14. BootstrapsFit'
  <2>1. \A c \in Backends : \A i \in Bootstraps(c) : wire[c][i].epoch # 0
    BY Zenon, Numbers DEF SyncInv
  <2> QED BY <1>1, <1>4, <1>5, <2>1 DEF BootstrapsFit, SyncInv
<1>15. AnswersFit'
  BY Zenon, <1>1, <1>4 DEF AnswersFit, SyncInv, IsActive
<1>16. LateFits'
  BY <1>1, <1>4, <1>13 DEF LateFits, SyncInv
<1> QED BY Zenon, <1>12, <1>14, <1>15, <1>16 DEF SyncInv

(* The one bootstrap of an epoch carries what is finalized.                 *)
LEMMA SyncSendBootstrap ==
  ASSUME SyncInv, Inv', NEW b \in Backends, SendBootstrap(b)
  PROVE  SyncInv'
<1>1. UNCHANGED <<trip, rows, lease, versions, dispatcher>> /\ supervisor[b].at = "acquired"
  BY Zenon DEF SendBootstrap, database
<1>2. CASE Fail(b) /\ UNCHANGED wire
  BY Zenon, <1>1, <1>2, StartsOver, Stays, WireUnchangedShrinks, QuietSupervision DEF Fail, SyncInv
<1>3. ASSUME Current(b), Send(b, "bootstrap", lease.epoch, trip.finalized, trip.revision),
             supervisor' = [supervisor EXCEPT ![b] =
               [Unheld EXCEPT !.at = "bootstrapping", !.epoch = lease.epoch,
                              !.revision = trip.revision, !.finalized = trip.finalized]]
      PROVE  SyncInv'
  <2>1. PICK n \in Int :
          \A c \in Backends : \A i \in Bootstraps(c)' :
            \/ /\ c = b /\ i = n
               /\ wire'[c][i].epoch = lease.epoch /\ wire'[c][i].seq = trip.finalized
            \/ /\ i \in Bootstraps(c)
               /\ wire'[c][i] = wire[c][i]
    <3> DEFINE r == [kind |-> "bootstrap", epoch |-> lease.epoch, seq |-> trip.finalized,
                     revision |-> trip.revision, awaited |-> TRUE]
    <3>1. r.epoch = lease.epoch /\ r.seq = trip.finalized
      BY Zenon
    <3>2. /\ wire'[b] = Append(wire[b], r)
          /\ \A c \in Backends \ {b} : wire'[c] = wire[c]
          /\ wire[b] \in Seq(Request)
      BY Zenon, <1>3 DEF Send, SyncInv, Inv, TypeOK
    <3> HIDE DEF r
    <3>3. /\ DOMAIN Append(wire[b], r) = 1 .. Len(wire[b]) + 1
          /\ \A j \in 1 .. Len(wire[b]) : Append(wire[b], r)[j] = wire[b][j]
          /\ Append(wire[b], r)[Len(wire[b]) + 1] = r
          /\ DOMAIN wire[b] = 1 .. Len(wire[b]) /\ Len(wire[b]) \in Nat
      BY <3>2
    <3>4. PICK n \in Int : n = Len(wire[b]) + 1
      BY <3>3
    <3>5. \A i \in DOMAIN wire'[b] :
            \/ i = n /\ wire'[b][i] = r
            \/ i \in DOMAIN wire[b] /\ wire'[b][i] = wire[b][i]
      BY <3>2, <3>3, <3>4
    <3>6. ASSUME NEW c \in Backends, NEW i \in Bootstraps(c)'
          PROVE  \/ /\ c = b /\ i = n
                    /\ wire'[c][i].epoch = lease.epoch /\ wire'[c][i].seq = trip.finalized
                 \/ /\ i \in Bootstraps(c)
                    /\ wire'[c][i] = wire[c][i]
      <4>1. CASE c = b
        BY Zenon, <3>1, <3>5, <4>1 DEF Bootstraps
      <4>2. CASE c # b
        BY Zenon, <3>2, <4>2 DEF Bootstraps
      <4> QED BY Zenon, <4>1, <4>2
    <3> QED BY Zenon, <3>6
  <2>2. /\ supervisor'[b].at = "bootstrapping" /\ supervisor'[b].epoch = lease.epoch
        /\ supervisor'[b].finalized = trip.finalized /\ supervisor'[b].ack.epoch = 0
        /\ \A c \in Backends \ {b} : supervisor'[c] = supervisor[c]
    <3>1. /\ supervisor'[b] = [Unheld EXCEPT !.at = "bootstrapping", !.epoch = lease.epoch,
                               !.revision = trip.revision, !.finalized = trip.finalized]
          /\ \A c \in Backends \ {b} : supervisor'[c] = supervisor[c]
      BY <1>3 DEF SyncInv, Inv, TypeOK
    <3> QED BY <3>1 DEF Unheld, NoAck
  <2>3. lease.epoch # 0 /\ Fresh(lease.epoch) /\ lease.holder = b
    BY Zenon, <1>1, <1>3 DEF Current, SyncInv, EpochsFit
  <2>4. lease.epoch \in Int /\ lease.epoch >= 0 /\ trip.finalized \in Int
    BY DEF SyncInv, Inv, TypeOK
  <2>5. EpochsFit'
    <3>1. \A c \in Backends : \A i \in Bootstraps(c)' : wire'[c][i].epoch <= lease'.epoch
      <4>1. \A c \in Backends : \A i \in Bootstraps(c) : wire[c][i].epoch <= lease.epoch
        BY Zenon DEF SyncInv, EpochsFit
      <4>2. lease.epoch <= lease.epoch /\ lease' = lease
        BY <1>1, <2>4
      <4> QED BY Zenon, <2>1, <4>1, <4>2
    <3>2. ASSUME NEW c \in Backends
          PROVE  /\ supervisor'[c].epoch <= lease'.epoch
                 /\ supervisor'[c].ack.epoch <= lease'.epoch
                 /\ supervisor'[c].at = "acquired" => lease'.epoch # 0
                 /\ ~(supervisor'[c].at = "acquired" /\ lease'.holder = c)
      <4>1. supervisor[c].epoch <= lease.epoch /\ supervisor[c].ack.epoch <= lease.epoch
        BY Zenon DEF SyncInv, EpochsFit
      <4>2. lease.epoch <= lease.epoch /\ 0 <= lease.epoch
        BY <2>4
      <4>3. lease' = lease /\ "bootstrapping" # "acquired"
        BY Zenon, <1>1
      <4>4. CASE c = b
        BY Zenon, <2>2, <2>3, <4>2, <4>3, <4>4
      <4>5. CASE c # b
        BY Zenon, <2>2, <2>3, <4>1, <4>3, <4>5
      <4> QED BY Zenon, <4>4, <4>5
    <3> QED BY <1>1, <3>1, <3>2 DEF SyncInv, EpochsFit
  <2>6. BootstrapsFit'
    <3>1. ASSUME NEW c \in Backends, NEW i \in Bootstraps(c)'
          PROVE  /\ versions.epoch # wire'[c][i].epoch
                 /\ \A d \in Backends :
                      /\ \A j \in Bootstraps(d)' :
                           wire'[d][j].epoch = wire'[c][i].epoch => c = d /\ i = j
                      /\ dispatcher[d].ack.epoch # wire'[c][i].epoch
                      /\ supervisor'[d].ack.epoch # wire'[c][i].epoch
      <4>1. CASE c = b /\ i = n /\ wire'[c][i].epoch = lease.epoch
        <5>1. versions.epoch # lease.epoch
          BY Zenon, <2>3 DEF Fresh
        <5>2. \A d \in Backends :
                /\ dispatcher[d].ack.epoch # lease.epoch
                /\ supervisor'[d].ack.epoch # lease.epoch
          BY Zenon, <2>2, <2>3 DEF Fresh
        <5>3. \A d \in Backends : \A j \in Bootstraps(d)' :
                wire'[d][j].epoch = lease.epoch => b = d /\ n = j
          BY <2>1, <2>3 DEF Fresh
        <5> QED BY Zenon, <4>1, <5>1, <5>2, <5>3
      <4>2. CASE i \in Bootstraps(c) /\ wire'[c][i] = wire[c][i]
        <5>1. wire[c][i].epoch # lease.epoch /\ wire[c][i].epoch # 0
          BY Zenon, <2>3, <4>2, Numbers DEF Fresh, SyncInv
        <5>2. /\ versions.epoch # wire[c][i].epoch
              /\ \A d \in Backends :
                   /\ \A j \in Bootstraps(d) : wire[d][j].epoch = wire[c][i].epoch => c = d /\ i = j
                   /\ dispatcher[d].ack.epoch # wire[c][i].epoch
                   /\ supervisor[d].ack.epoch # wire[c][i].epoch
          BY Zenon, <4>2 DEF SyncInv, BootstrapsFit
        <5>3. \A d \in Backends : supervisor'[d].ack.epoch # wire[c][i].epoch
          BY Zenon, <2>2, <5>1, <5>2
        <5>4. \A d \in Backends : \A j \in Bootstraps(d)' :
                wire'[d][j].epoch = wire[c][i].epoch => c = d /\ i = j
          BY <2>1, <5>1, <5>2
        <5> QED BY Zenon, <4>2, <5>2, <5>3, <5>4
      <4> QED BY Zenon, <2>1, <4>1, <4>2
    <3>2. versions' = versions /\ dispatcher' = dispatcher
      BY Zenon, <1>1
    <3> QED BY <3>1, <3>2 DEF BootstrapsFit
  <2>7. AnswersFit'
    BY Zenon, <1>1, <2>2 DEF AnswersFit, SyncInv, IsActive
  <2>8. ASSUME NEW m \in Int, m <= trip.finalized
        PROVE  Reached(m)'
    <3>1. \A c \in Backends : \A i \in Bootstraps(c)' :
            wire'[c][i].epoch = lease.epoch => m <= wire'[c][i].seq
      BY <2>1, <2>3, <2>8 DEF Fresh
    <3>2. versions.epoch # lease.epoch
      BY Zenon, <2>3 DEF Fresh
    <3> QED BY Zenon, <1>1, <3>1, <3>2 DEF Reached
  <2>9. \A s \in Seqs : rows[s].order = "canonical_first" => Reached(s)'
    <3>1. \A s \in Seqs : rows[s].order = "canonical_first" => s <= trip.finalized
      BY Zenon, RecordedRows DEF SyncInv, Inv, RowsFit, DecidedPrefix
    <3> QED BY Zenon, <2>8, <3>1, SeqsFit
  <2>10. LateFits'
    <3>1. ASSUME NEW s \in Seqs, rows'[s].sync = "synced"
          PROVE  Reached(s)'
      <4>1. rows[s].order = "canonical_first"
        <5>1. NoRow.sync # "synced"
          BY Zenon DEF NoRow
        <5>2. rows[s] \in Row
          BY Zenon DEF SyncInv, Inv, TypeOK
        <5>3. rows[s].order \in {"none", "runtime_first", "canonical_first"}
          BY Zenon, <5>2 DEF Row
        <5> QED BY Zenon, <1>1, <3>1, <5>1, <5>3 DEF SyncInv, Inv, RowsFit
      <4> QED BY Zenon, <2>9, <4>1
    <3>2. ASSUME NEW c \in Backends, dispatcher'[c].at \in {"applying", "applied"},
                 rows'[dispatcher'[c].seq].order = "canonical_first"
          PROVE  Reached(dispatcher[c].seq)'
      <4>1. dispatcher[c].seq \in Seqs
        BY Zenon, <1>1, <3>2, DispatchedRow DEF SyncInv, Recorded
      <4>2. PICK s \in Seqs : s = dispatcher[c].seq
        BY Zenon, <4>1
      <4>3. Reached(s)'
        BY Zenon, <1>1, <2>9, <3>2, <4>2
      <4> QED BY Zenon, <1>1, <4>2, <4>3 DEF Reached
    <3>3. ASSUME NEW c \in Backends, supervisor'[c].at \in {"bootstrapping", "bootstrapped"}
          PROVE  /\ supervisor'[c].finalized <= trip'.finalized
                 /\ supervisor'[c].epoch < lease'.epoch => Reached(supervisor[c].finalized)'
      <4>1. CASE c = b
        BY <1>1, <2>2, <2>4, <4>1
      <4>2. CASE c # b
        <5>1. supervisor'[c] = supervisor[c] /\ supervisor[c].finalized \in Int
          BY Zenon, <2>2, <4>2, Numbers DEF SyncInv
        <5>2. supervisor[c].finalized <= trip.finalized
          BY Zenon, <3>3, <5>1 DEF SyncInv, LateFits
        <5>3. PICK m \in Int : m = supervisor[c].finalized
          BY Zenon, <5>1
        <5>4. Reached(m)'
          BY Zenon, <2>8, <5>2, <5>3
        <5> QED BY Zenon, <1>1, <5>1, <5>2, <5>3, <5>4 DEF Reached
      <4> QED BY Zenon, <4>1, <4>2
    <3> QED BY Zenon, <3>1, <3>2, <3>3 DEF LateFits
  <2> QED BY Zenon, <2>5, <2>6, <2>7, <2>10 DEF SyncInv
<1> QED BY Zenon, <1>2, <1>3 DEF SendBootstrap

(* The initial states have no mirror.                                       *)
LEMMA SyncStart ==
  ASSUME Inv, Init \/ ActiveInit
  PROVE  SyncInv
<1>1. /\ rows = [s \in Seqs |-> NoRow]
      /\ wire = [b \in Backends |-> <<>>]
      /\ dispatcher = [b \in Backends |-> Idle]
      /\ versions.epoch = lease.epoch /\ versions.epoch \in {0, 1}
      /\ \A b \in Backends :
           /\ supervisor[b].at \in {"inactive", "active"}
           /\ supervisor[b].epoch \in {0, lease.epoch}
           /\ supervisor[b].ack = NoAck
  <2>1. CASE Init
    BY Zenon, <2>1 DEF Init, Inactive, NoLease, Unheld
  <2>2. CASE ActiveInit
    <3>1. \A b \in Backends : \/ supervisor[b] = Unheld
                              \/ supervisor[b] = [Unheld EXCEPT !.at = "active", !.epoch = 1]
      BY Zenon, <2>2 DEF ActiveInit
    <3>2. versions.epoch = 1 /\ lease.epoch = 1
      BY <2>2 DEF ActiveInit, Bootstrapped
    <3>3. /\ Unheld.at = "inactive" /\ Unheld.epoch = 0 /\ Unheld.ack = NoAck
          /\ [Unheld EXCEPT !.at = "active", !.epoch = 1].at = "active"
          /\ [Unheld EXCEPT !.at = "active", !.epoch = 1].epoch = 1
          /\ [Unheld EXCEPT !.at = "active", !.epoch = 1].ack = NoAck
      BY Zenon DEF Unheld
    <3>4. /\ rows = [s \in Seqs |-> NoRow]
          /\ wire = [b \in Backends |-> <<>>]
          /\ dispatcher = [b \in Backends |-> Idle]
      BY Zenon, <2>2 DEF ActiveInit
    <3>5. ASSUME NEW b \in Backends
          PROVE  /\ supervisor[b].at \in {"inactive", "active"}
                 /\ supervisor[b].epoch \in {0, lease.epoch}
                 /\ supervisor[b].ack = NoAck
      <4>1. CASE supervisor[b] = Unheld
        BY Zenon, <3>3, <4>1
      <4>2. CASE supervisor[b] = [Unheld EXCEPT !.at = "active", !.epoch = 1]
        BY Zenon, <3>2, <3>3, <4>2
      <4> QED BY Zenon, <3>1, <4>1, <4>2
    <3> QED BY Zenon, <3>2, <3>4, <3>5
  <2> QED BY Zenon, <2>1, <2>2
<1>2. \A b \in Backends : Bootstraps(b) = {}
  <2>1. \A b \in Backends : wire[b] = <<>>
    BY Zenon, <1>1
  <2>2. DOMAIN <<>> = {}
    OBVIOUS
  <2> QED BY Zenon, <2>1, <2>2 DEF Bootstraps
<1>3. Idle.at = "idle" /\ Idle.epoch = 0 /\ Idle.ack = NoAck /\ NoAck.epoch = 0 /\ NoAck.accepted = 0
  BY Zenon DEF Idle, NoAck
<1>4. NoRow.sync = "not_required"
  BY Zenon DEF NoRow
<1>5. EpochsFit
  <2>1. versions.epoch <= lease.epoch /\ 0 <= lease.epoch /\ lease.epoch <= lease.epoch
    BY <1>1
  <2>2. ASSUME NEW b \in Backends
        PROVE  /\ Bootstraps(b) = {}
               /\ dispatcher[b].epoch = 0 /\ dispatcher[b].ack.epoch = 0
               /\ supervisor[b].epoch <= lease.epoch /\ supervisor[b].ack.epoch = 0
               /\ supervisor[b].at # "acquired"
    BY Zenon, <1>1, <1>2, <1>3, <2>1
  <2> QED BY Zenon, <2>1, <2>2 DEF EpochsFit
<1>6. BootstrapsFit
  BY Zenon, <1>2 DEF BootstrapsFit
<1>7. AnswersFit
  BY Zenon, <1>1, <1>3 DEF AnswersFit, IsActive
<1>8. LateFits
  BY Zenon, <1>1, <1>3, <1>4 DEF LateFits
<1> QED BY Zenon, <1>5, <1>6, <1>7, <1>8 DEF SyncInv

(* A stuttering step keeps the invariant.                                   *)
LEMMA SyncUnchanged ==
  ASSUME SyncInv, Inv', UNCHANGED vars
  PROVE  SyncInv'
BY Zenon, Stays, WireUnchangedShrinks, QuietStep DEF vars, database, Quiet, SyncInv

(* Every step of a dispatcher keeps the invariant.                          *)
LEMMA SyncDispatching ==
  ASSUME SyncInv, Inv', NEW b \in Backends, Dispatching(b) \/ Timeout(b)
  PROVE  SyncInv'
BY Zenon, QuietRecoverConfirmations, QuietClaimDue, QuietDispatchStep, QuietRetry,
   QuietFinalizeRuntimeFirst, QuietFinalizeCanonicalMirror, QuietSendConfirm,
   QuietConfirmFinalizedMutations, QuietConfirmTimeout, QuietLeaseLost
   DEF Dispatching, Timeout

(* Every step keeps the invariant, as long as no lease is released.         *)
LEMMA SyncNext ==
  ASSUME "release" \notin Faults, SyncInv, Inv', [Next]_vars
  PROVE  SyncInv'
<1>1. CASE UNCHANGED vars
  BY Zenon, <1>1, SyncUnchanged
<1>2. CASE RecordRuntimeFirst
  BY Zenon, <1>2, QuietRecording DEF RecordRuntimeFirst, Recording
<1>3. CASE RecordCanonicalFirst
  BY Zenon, <1>3, QuietRecording DEF RecordCanonicalFirst, Recording
<1>4. CASE LeaseExpires \/ PlannerRestart \/ \E s \in Seqs : ClaimExpires(s)
  BY Zenon, <1>4, QuietLeaseExpires, QuietPlannerRestart, QuietClaimExpires
<1>5. ASSUME NEW b \in Backends, Activating(b)
      PROVE  SyncInv'
  <2>1. ~Release(b)
    BY Zenon DEF Release
  <2> QED BY Zenon, <1>5, <2>1, SyncAcquire, SyncSendBootstrap, QuietResolveCanonicalBootstrap,
             QuietLeaseLost DEF Activating
<1>6. ASSUME NEW b \in Backends,
             Dispatching(b) \/ Timeout(b) \/ Deliver(b) \/ Drop(b) \/ BackendRestart(b)
      PROVE  SyncInv'
  BY Zenon, <1>6, SyncDispatching, QuietDeliver, QuietDrop, QuietBackendRestart
<1> QED BY Zenon, <1>1, <1>2, <1>3, <1>4, <1>5, <1>6 DEF Next
=============================================================================
