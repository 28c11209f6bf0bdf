---------------------------- MODULE TripExecution ----------------------------
(***************************************************************************)
(* What the execution of saved trips promises, without the goroutines, the *)
(* supervisor and the planner: the states a trip goes through, the         *)
(* authority (the lease row) that fences its runtime, and its durable      *)
(* sequence.                                                               *)
(***************************************************************************)
EXTENDS Integers

CONSTANT Trips

VARIABLES
  state,      \* the execution state of every trip
  authority,  \* "none", "held" or "lapsed"
  sequence,   \* the next mutation sequence
  watermark   \* the finalized mutation sequence

execution == <<state, authority, sequence, watermark>>

Busy == {"activating", "active", "deactivating"}

Known(t) == state[t] \notin {"absent", "deleted"}

Moves(t, from, to) == state[t] \in from /\ state' = [state EXCEPT ![t] = to]

-----------------------------------------------------------------------------
Init ==
  /\ state = [t \in Trips |-> "absent"]
  /\ authority = [t \in Trips |-> "none"]
  /\ sequence = [t \in Trips |-> 0]
  /\ watermark = [t \in Trips |-> 0]

Save(t) ==
  /\ Moves(t, {"absent"}, "inactive")
  /\ sequence' = [sequence EXCEPT ![t] = 1]
  /\ watermark' = [watermark EXCEPT ![t] = 0]
  /\ UNCHANGED authority

Remove(t) ==
  /\ Moves(t, {"inactive"}, "deleted")
  /\ authority' = [authority EXCEPT ![t] = "none"]
  /\ sequence' = [sequence EXCEPT ![t] = 0]
  /\ watermark' = [watermark EXCEPT ![t] = 0]

(* An execution begins when no other is under way, and its baseline takes   *)
(* the next sequence.                                                       *)
Begin(t) ==
  /\ \A u \in Trips \ {t} : state[u] \notin Busy
  /\ Moves(t, {"inactive"}, "activating")
  /\ sequence' = [sequence EXCEPT ![t] = @ + 1]
  /\ watermark' = [watermark EXCEPT ![t] = sequence[t]]
  /\ UNCHANGED authority

(* It is published only under a held authority ...                          *)
Publish(t) ==
  /\ authority[t] = "held"
  /\ Moves(t, {"activating"}, "active")
  /\ UNCHANGED <<authority, sequence, watermark>>

End(t) ==
  /\ Moves(t, {"active", "activating"}, "deactivating")
  /\ UNCHANGED <<authority, sequence, watermark>>

(* ... and is over only when nobody has the authority any more.             *)
Over(t) ==
  /\ authority[t] = "none"
  /\ Moves(t, {"deactivating"}, "inactive")
  /\ UNCHANGED <<authority, sequence, watermark>>

Command(t) ==
  /\ Known(t)
  /\ sequence' = [sequence EXCEPT ![t] = @ + 1]
  /\ UNCHANGED <<state, authority, watermark>>

(* Commands are resolved one by one, in order.                              *)
Resolve(t) ==
  /\ Known(t)
  /\ watermark[t] + 1 < sequence[t]
  /\ watermark' = [watermark EXCEPT ![t] = @ + 1]
  /\ UNCHANGED <<state, authority, sequence>>

(* The authority is taken when nobody holds it, lapses, or is given up.     *)
Authority(t) ==
  /\ \/ Known(t) /\ authority[t] # "held" /\ authority' = [authority EXCEPT ![t] = "held"]
     \/ authority[t] = "held" /\ authority' = [authority EXCEPT ![t] = "lapsed"]
     \/ authority' = [authority EXCEPT ![t] = "none"]
  /\ UNCHANGED <<state, sequence, watermark>>

Next ==
  \E t \in Trips :
    \/ Save(t) \/ Remove(t) \/ Begin(t) \/ Publish(t) \/ End(t) \/ Over(t)
    \/ Command(t) \/ Resolve(t) \/ Authority(t)

Spec == Init /\ [][Next]_execution
=============================================================================
