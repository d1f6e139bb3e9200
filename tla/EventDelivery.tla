---------------------------- MODULE EventDelivery ---------------------------
(***************************************************************************)
(* What the durable outbox promises for the events of committed mutations: *)
(* an accepted event is queued until all its handlers have succeeded or    *)
(* its attempts are used up, is settled once, and is forgotten only after  *)
(* that.  Handlers may run any number of times (at least once delivery).   *)
(* There is no process, clock, lease or crash here: FunctionsQueue has     *)
(* them and implements this specification.                                 *)
(***************************************************************************)
EXTENDS Naturals, FiniteSets

CONSTANTS Ids, Handlers, Capacity, MaxAttempts

VARIABLES
  status,    \* of each event
  claims,    \* attempts begun
  handled,   \* handlers that succeeded at least once
  doneCount  \* events completed so far

dvars == <<status, claims, handled, doneCount>>

Queued == {i \in Ids : status[i] = "queued"}
Finished == {i \in Ids : status[i] \in {"done", "abandoned"}}

Init ==
  /\ status = [i \in Ids |-> "none"]
  /\ claims = [i \in Ids |-> 0]
  /\ handled = [i \in Ids |-> {}]
  /\ doneCount = 0

\* The events of one committed mutation.
Accept(S) ==
  /\ \A i \in S : status[i] = "none"
  /\ Cardinality(Queued) + Cardinality(S) <= Capacity
  /\ status' = [i \in Ids |-> IF i \in S THEN "queued" ELSE status[i]]
  /\ UNCHANGED <<claims, handled, doneCount>>

Attempt(i) ==
  /\ status[i] = "queued"
  /\ claims' = [claims EXCEPT ![i] = @ + 1]
  /\ UNCHANGED <<status, handled, doneCount>>

\* The handlers D succeed for an event that has been claimed.
Handle(i, D) ==
  /\ status[i] = "queued" /\ claims[i] > 0
  /\ handled' = [handled EXCEPT ![i] = @ \cup D]
  /\ UNCHANGED <<status, claims, doneCount>>

\* Event i gets status st and the events F, all settled by then, are forgotten.
Settle(i, st, F) ==
  /\ F \subseteq Finished \cup {i}
  /\ status' = [j \in Ids |-> IF j \in F THEN "forgotten"
                              ELSE IF j = i THEN st ELSE status[j]]
  /\ UNCHANGED <<claims, handled>>

Complete(i, F) ==
  /\ status[i] = "queued" /\ handled[i] = Handlers
  /\ Settle(i, "done", F)
  /\ doneCount' = doneCount + 1

Abandon(i, F) ==
  /\ status[i] \in {"queued", "abandoned"} /\ claims[i] >= MaxAttempts
  /\ Settle(i, "abandoned", F)
  /\ UNCHANGED doneCount

Next ==
  \/ \E S \in SUBSET Ids : Accept(S)
  \/ \E i \in Ids : Attempt(i) \/ \E D \in SUBSET Handlers : Handle(i, D)
  \/ \E i \in Ids, F \in SUBSET Ids : Complete(i, F) \/ Abandon(i, F)

Spec == Init /\ [][Next]_dvars
=============================================================================
