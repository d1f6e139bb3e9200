------------------------------- MODULE Outbox -------------------------------
(***************************************************************************)
(* The durable table event_outbox and the counter event_completed, with    *)
(* the statements that change them (persistence.rs, functions.rs).  Each   *)
(* operator is one job of the single SQLite writer thread, so it is one    *)
(* atomic change; module FunctionsQueue says who runs it and when.         *)
(*                                                                         *)
(* The two time columns are kept relative to the clock: wait is            *)
(* available_at - now and lease is lease_until - now, both cut off at 0,   *)
(* because the code only compares them with now.  lease is 0 when the      *)
(* column is NULL (every row that is not in flight).                       *)
(***************************************************************************)
EXTENDS Naturals, FiniteSets

CONSTANTS
  MaxEvents,     \* bound: how many events a behaviour may insert
  Capacity,      \* pending + in-flight rows insert_outbox admits (4096)
  MaxAttempts,   \* attempts at which a failing row becomes terminal (5)
  LeaseSeconds,  \* OUTBOX_LEASE_SECONDS (5)
  History        \* delivered rows, and failed rows, that are kept (1000)

ASSUME OutboxAssumption ==
  /\ MaxEvents \in Nat
  /\ Capacity \in Nat
  /\ MaxAttempts \in Nat \ {0}
  /\ LeaseSeconds \in Nat \ {0}
  /\ History \in Nat \ {0}

VARIABLES
  rows,            \* event_outbox: id -> row; "none" not inserted, "gone" deleted
  nextId,          \* the next AUTOINCREMENT id
  eventCompleted   \* counters.value of 'event_completed'

tableVars == <<rows, nextId, eventCompleted>>

Ids == 1..MaxEvents

States == {"none", "pending", "in_flight", "delivered", "failed", "gone"}

Row == [state : States, attempts : Nat, wait : Nat, lease : Nat]

NoRow == [state |-> "none", attempts |-> 0, wait |-> 0, lease |-> 0]

NewRow == [state |-> "pending", attempts |-> 0, wait |-> 0, lease |-> 0]

\* A row with new state and times; its attempts stay.
Moved(row, st, wait, lease) ==
  [state |-> st, attempts |-> row.attempts, wait |-> wait, lease |-> lease]

\* SELECT count(*) ... WHERE state IN ('pending','in_flight') counts these.
Outstanding == {i \in Ids : rows[i].state \in {"pending", "in_flight"}}

TableInit ==
  /\ rows = [i \in Ids |-> NoRow]
  /\ nextId = 1
  /\ eventCompleted = 0

-----------------------------------------------------------------------------
\* Mutant of insert_outbox: checks the bound before the batch, not after it.
insert_outbox_checks_before(n) ==
  /\ nextId + n <= MaxEvents + 1
  /\ n = 0 \/ Cardinality(Outstanding) < Capacity
  /\ rows' = [i \in Ids |-> IF i \in nextId..(nextId + n - 1) THEN NewRow ELSE rows[i]]
  /\ nextId' = nextId + n
  /\ UNCHANGED eventCompleted

(* The n records of one transaction, all or none: the bound is checked     *)
(* against the whole batch and OutboxFull rolls the transaction back.      *)
(* nextId + n <= MaxEvents + 1 is the model's bound.                       *)
insert_outbox(n) ==
  /\ nextId + n <= MaxEvents + 1
  /\ Cardinality(Outstanding) + n <= Capacity
  /\ rows' = [i \in Ids |-> IF i \in nextId..(nextId + n - 1) THEN NewRow ELSE rows[i]]
  /\ nextId' = nextId + n
  /\ UNCHANGED eventCompleted

\* Mutant of recover_outbox: resets every row that was ever attempted.
recover_outbox_everything ==
  /\ rows' = [i \in Ids |-> IF rows[i].attempts > 0 /\ rows[i].state # "gone"
                            THEN Moved(rows[i], "pending", rows[i].wait, 0)
                            ELSE rows[i]]
  /\ UNCHANGED <<nextId, eventCompleted>>

(* Startup: every row still in flight is pending again; its attempts and   *)
(* available_at stay.                                                      *)
recover_outbox ==
  /\ rows' = [i \in Ids |-> IF rows[i].state = "in_flight"
                            THEN Moved(rows[i], "pending", rows[i].wait, 0)
                            ELSE rows[i]]
  /\ UNCHANGED <<nextId, eventCompleted>>

\* Mutant of Claimable: an in-flight row is never taken back.
ClaimableNoReclaim == {i \in Ids : rows[i].state = "pending" /\ rows[i].wait = 0}

(* The candidates of claim_outbox: due pending rows, and in-flight rows    *)
(* whose lease has run out.                                                *)
Claimable ==
  {i \in Ids : \/ rows[i].state = "pending" /\ rows[i].wait = 0
               \/ rows[i].state = "in_flight" /\ rows[i].lease = 0}

\* Mutant of ReturnedAttempts: the value read before the UPDATE.
StaleAttempts(id) == rows[id].attempts

\* DurableRow.attempts as claim_outbox returns it: the column after the UPDATE.
ReturnedAttempts(id) == rows[id].attempts + 1

\* ORDER BY id LIMIT 1, then the UPDATE that leases the row.
claim_outbox(id) ==
  /\ id \in Claimable
  /\ \A i \in Claimable : id <= i
  /\ rows' = [rows EXCEPT ![id] =
       [state |-> "in_flight", attempts |-> @.attempts + 1, wait |-> @.wait,
        lease |-> LeaseSeconds]]
  /\ UNCHANGED <<nextId, eventCompleted>>

\* The n largest ids of S: what the trimming DELETEs spare.
Newest(S, n) == {i \in S : Cardinality({j \in S : j > i}) < n}

\* A table r with all but the History newest rows in state st deleted.
Trim(r, st) ==
  LET all == {i \in Ids : r[i].state = st}
  IN [i \in Ids |-> IF i \in all \ Newest(all, History)
                    THEN Moved(r[i], "gone", r[i].wait, r[i].lease) ELSE r[i]]

Delivered(id) == [rows EXCEPT ![id] = Moved(@, "delivered", @.wait, 0)]

(* One transaction: the guarded UPDATE (anything but one updated row is an *)
(* error and rolls back), the counter, the trim.                           *)
acknowledge_outbox(id) ==
  /\ rows[id].state = "in_flight"
  /\ rows' = Trim(Delivered(id), "delivered")
  /\ eventCompleted' = eventCompleted + 1
  /\ UNCHANGED nextId

\* 1 << (attempts - 1).clamp(0, 4) seconds; attempts is at least 1.
Backoff(attempts) ==
  CASE attempts <= 1 -> 1
    [] attempts = 2 -> 2
    [] attempts = 3 -> 4
    [] attempts = 4 -> 8
    [] attempts >= 5 -> 16

Failed(id) == [rows EXCEPT ![id] = Moved(@, "failed", @.wait, 0)]

\* Mutant of fail_outbox: one attempt too few before giving up.
fail_outbox_early(id, attempts) ==
  /\ IF attempts + 1 >= MaxAttempts
     THEN rows' = Trim(Failed(id), "failed")
     ELSE rows' = [rows EXCEPT ![id] = Moved(@, "pending", Backoff(attempts), 0)]
  /\ UNCHANGED <<nextId, eventCompleted>>

\* Mutant of fail_outbox: one attempt too many.
fail_outbox_late(id, attempts) ==
  /\ IF attempts > MaxAttempts
     THEN rows' = Trim(Failed(id), "failed")
     ELSE rows' = [rows EXCEPT ![id] = Moved(@, "pending", Backoff(attempts), 0)]
  /\ UNCHANGED <<nextId, eventCompleted>>

(* attempts is the value the claim returned, not the column.  The UPDATE   *)
(* has no guard on state.                                                  *)
fail_outbox(id, attempts) ==
  /\ IF attempts >= MaxAttempts
     THEN rows' = Trim(Failed(id), "failed")
     ELSE rows' = [rows EXCEPT ![id] = Moved(@, "pending", Backoff(attempts), 0)]
  /\ UNCHANGED <<nextId, eventCompleted>>

(* The terminal branch is two autocommitted statements: when the DELETE    *)
(* fails the UPDATE stays and the job still reports an error.              *)
fail_outbox_untrimmed(id, attempts) ==
  /\ attempts >= MaxAttempts
  /\ rows' = Failed(id)
  /\ UNCHANGED <<nextId, eventCompleted>>

Less(n) == IF n > 0 THEN n - 1 ELSE 0

\* One second of the wall clock, which runs whether the process is up or not.
Tick ==
  /\ \E i \in Ids : rows[i].wait > 0 \/ rows[i].lease > 0
  /\ rows' = [i \in Ids |->
       Moved(rows[i], rows[i].state, Less(rows[i].wait), Less(rows[i].lease))]
  /\ UNCHANGED <<nextId, eventCompleted>>
-----------------------------------------------------------------------------
TableTypeOK ==
  /\ rows \in [Ids -> Row]
  /\ nextId \in 1..(MaxEvents + 1)
  /\ eventCompleted \in Nat
=============================================================================
