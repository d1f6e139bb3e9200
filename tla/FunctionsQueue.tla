--------------------------- MODULE FunctionsQueue ---------------------------
(***************************************************************************)
(* The Functions dispatcher: run_queue, the one task that claims rows of   *)
(* the durable outbox, runs the handlers of an event and acknowledges or   *)
(* fails the row, and that also serves the bounded in-process channel of   *)
(* direct events (Pub/Sub injection, schedules, and every mutation when    *)
(* the process has no data directory).  Around it: committing mutations,   *)
(* client injections, SQLite errors, crashes and restarts.                 *)
(***************************************************************************)
EXTENDS Outbox, SequencesExt

CONSTANTS
  Handlers,        \* the functions that match every event
  ChannelSize,     \* capacity of the mpsc channel (4096)
  BurstLimit,      \* DURABLE_BURST_LIMIT (32)
  LoopLimit,       \* DIRECT_TRIGGER_LOOP_LIMIT (1000)
  FailureLimit,    \* FAILURE_HISTORY_LIMIT (1000)
  Retries,         \* TRANSITION_RETRIES (5)
  MaxBatch,        \* bound: records of one transaction
  MaxDirect,       \* bound: direct events of one process
  MaxFaults        \* bound: crashes and SQLite errors of a behaviour

ASSUME QueueAssumption ==
  /\ IsFiniteSet(Handlers)
  /\ {ChannelSize, BurstLimit, FailureLimit, Retries} \subseteq Nat \ {0}
  /\ {LoopLimit, MaxBatch, MaxDirect, MaxFaults} \subseteq Nat

VARIABLES
  proc,        \* "down", "on" (Functions run) or "off" (--no-functions)
  pc,          \* where run_queue is
  cur,         \* the id run_queue holds: a row's or a direct event's
  claimed,     \* DurableRow.attempts of the row it holds
  tries,       \* failed tries of the transition under way
  burst,       \* durable_burst
  busy,        \* direct_busy_count
  chan,        \* the channel: "wake" or a direct event's id
  hubPending,  \* hub.pending
  sequence,    \* hub.sequence
  failures,    \* hub.failures, oldest first
  completed,   \* hub.completed
  enqueuing,   \* the direct events whose enqueue has not returned
  refused,     \* of these, those that the full channel refused
  handled,     \* history: the handlers that ever succeeded for a row
  acked,       \* history: the rows that were acknowledged
  overtaken,   \* history: claims made while a direct event headed the channel
  faults       \* crashes and errors so far

hubVars == <<chan, hubPending, sequence, failures, completed>>
loopVars == <<pc, cur, claimed, tries, burst, busy>>
callers == <<enqueuing, refused>>
history == <<handled, acked>>
vars == <<tableVars, proc, loopVars, hubVars, callers, history, overtaken, faults>>

Wake == 0  \* QueueMessage::DurableWake; a direct event is its id, from 1

PCs == {"stopped", "recover", "poll", "dispatch", "ack", "fail", "wait", "direct"}

\* eventId null is 0.
Errors == {"system", "transition", "dispatch", "loop", "rejected"}
Failure == [eventId : Nat, error : Errors]

\* The positions of the direct events in channel c.
Directs(c) == {k \in 1..Len(c) : c[k] # Wake}

DirectAtHead == chan # <<>> /\ Head(chan) # Wake

InChan(m) == \E k \in 1..Len(chan) : chan[k] = m

-----------------------------------------------------------------------------
(* The failure history of the hub.                                         *)
Has(list, f) == \E k \in 1..Len(list) : list[k] = f

\* Mutant of record_failure: keeps every repetition.
record_failure_repeats(list, eventId, error) ==
  LET f == [eventId |-> eventId, error |-> error]
  IN Append(IF Len(list) >= FailureLimit THEN Tail(list) ELSE list, f)

record_failure(list, eventId, error) ==
  LET f == [eventId |-> eventId, error |-> error]
  IN IF Has(list, f) THEN list
     ELSE Append(IF Len(list) >= FailureLimit THEN Tail(list) ELSE list, f)

clear_event_failures(list, eventId) ==
  FoldLeft(LAMBDA kept, f : IF f.eventId = eventId THEN kept ELSE Append(kept, f), <<>>, list)

clear_system_failures(list) == clear_event_failures(list, 0)

\* A SQLite error or a crash happens, within the model's bound.
Fault == faults < MaxFaults /\ faults' = faults + 1

-----------------------------------------------------------------------------
(* The process.                                                            *)
Init ==
  /\ TableInit
  /\ proc = "down" /\ pc = "stopped" /\ cur = 0 /\ claimed = 0 /\ tries = 0
  /\ burst = 0 /\ busy = 0
  /\ chan = <<>> /\ hubPending = 0 /\ sequence = 0 /\ failures = <<>> /\ completed = 0
  /\ enqueuing = {} /\ refused = {}
  /\ handled = [i \in Ids |-> {}] /\ acked = {} /\ overtaken = 0
  /\ faults = 0

\* serve: a new hub and a new run_queue; nothing of the old ones is kept.
Start ==
  /\ proc = "down"
  /\ proc' = "on" /\ pc' = "recover"
  /\ UNCHANGED <<tableVars, cur, claimed, tries, burst, busy, hubVars, callers, history, faults, overtaken>>

\* Started with --no-functions: no hub, no dispatcher, insert_outbox does nothing.
StartWithoutFunctions ==
  /\ proc = "down" /\ Fault
  /\ proc' = "off"
  /\ UNCHANGED <<tableVars, loopVars, hubVars, callers, history, overtaken>>

\* It holds no volatile state of this module, so ending it only stops it.
StopWithoutFunctions ==
  /\ proc = "off" /\ proc' = "down"
  /\ UNCHANGED <<tableVars, loopVars, hubVars, callers, history, faults, overtaken>>

(* The process ends: a crash, a signal, or a worker's exit (monitor_children). *)
Crash ==
  /\ proc = "on" /\ Fault
  /\ proc' = "down" /\ pc' = "stopped" /\ cur' = 0 /\ claimed' = 0 /\ tries' = 0
  /\ burst' = 0 /\ busy' = 0
  /\ chan' = <<>> /\ hubPending' = 0 /\ sequence' = 0 /\ failures' = <<>> /\ completed' = 0
  /\ enqueuing' = {} /\ refused' = {} /\ overtaken' = 0
  /\ UNCHANGED <<tableVars, history>>

-----------------------------------------------------------------------------
(* Clients.                                                                *)
\* outbox_committed: try_send, ignored when the channel is full.
outbox_committed ==
  chan' = IF Len(chan) < ChannelSize THEN Append(chan, Wake) ELSE chan

(* A Firestore or Storage transaction with n event records commits.  The   *)
(* wake is lost when the request is dropped between commit and send.       *)
CommitMutation(n) ==
  /\ proc = "on"
  /\ insert_outbox(n)
  /\ outbox_committed \/ UNCHANGED chan
  /\ UNCHANGED <<proc, callers, loopVars, hubPending, sequence, failures, completed, history, faults, overtaken>>

(* inject_pubsub, inject_schedule, document_changed, storage_changed call  *)
(* enqueue, each on a thread of its own: the event has the next sequence   *)
(* number and is counted as pending before it is sent.                     *)
enqueue ==
  /\ proc = "on" /\ sequence < MaxDirect
  /\ sequence' = sequence + 1 /\ hubPending' = hubPending + 1
  /\ enqueuing' = enqueuing \cup {sequence + 1}
  /\ UNCHANGED <<tableVars, proc, refused, loopVars, chan, failures, completed, history, faults, overtaken>>

try_send(i) ==
  /\ i \in enqueuing \ refused
  /\ \/ /\ Len(chan) < ChannelSize
        /\ chan' = Append(chan, i) /\ enqueuing' = enqueuing \ {i}
        /\ UNCHANGED refused
     \/ /\ Len(chan) >= ChannelSize
        /\ refused' = refused \cup {i}
        /\ UNCHANGED <<chan, enqueuing>>
  /\ UNCHANGED <<tableVars, proc, loopVars, hubPending, sequence, failures, completed,
                 history, faults, overtaken>>

\* Mutant of Reject: a rejected event stays counted as pending.
Reject_leaks(i) ==
  /\ i \in refused
  /\ enqueuing' = enqueuing \ {i} /\ refused' = refused \ {i}
  /\ failures' = record_failure(failures, i, "rejected")
  /\ UNCHANGED <<tableVars, proc, loopVars, hubPending, chan, sequence, completed, history, faults, overtaken>>

\* The count is undone, and the failure recorded.
Reject(i) ==
  /\ i \in refused
  /\ hubPending' = hubPending - 1
  /\ enqueuing' = enqueuing \ {i} /\ refused' = refused \ {i}
  /\ failures' = record_failure(failures, i, "rejected")
  /\ UNCHANGED <<tableVars, proc, loopVars, chan, sequence, completed, history, faults, overtaken>>

Admission == enqueue \/ \E i \in enqueuing : try_send(i) \/ Reject(i)

-----------------------------------------------------------------------------
(* run_queue, durable half.                                                *)
Recover ==
  /\ pc = "recover" /\ pc' = "poll"
  /\ \/ recover_outbox /\ UNCHANGED <<failures, faults>>
     \/ /\ Fault
        /\ failures' = record_failure(failures, 0, "system")
        /\ UNCHANGED tableVars
  /\ UNCHANGED <<proc, callers, cur, claimed, tries, burst, busy,
                 chan, hubPending, sequence, completed, history, overtaken>>

Claim ==
  /\ pc = "poll" /\ burst < BurstLimit
  /\ \E id \in Ids :
       /\ claim_outbox(id)
       /\ cur' = id /\ claimed' = ReturnedAttempts(id)
  /\ failures' = clear_system_failures(failures)
  /\ overtaken' = IF DirectAtHead THEN overtaken + 1 ELSE 0
  /\ burst' = burst + 1 /\ pc' = "dispatch"
  /\ UNCHANGED <<proc, callers, tries, busy, chan, hubPending, sequence, completed, history, faults>>

\* claim_outbox found nothing, or failed.
ClaimNothing ==
  /\ pc = "poll" /\ burst < BurstLimit
  /\ \/ /\ Claimable = {}
        /\ failures' = clear_system_failures(failures)
        /\ UNCHANGED faults
     \/ /\ Fault
        /\ failures' = record_failure(failures, 0, "system")
  /\ burst' = 0 /\ pc' = "wait"
  /\ UNCHANGED <<tableVars, proc, callers, cur, claimed, tries, busy,
                 chan, hubPending, sequence, completed, history, overtaken>>

\* Mutant of Dispatch: one handler's success hides another's error.
DispatchAny ==
  /\ pc = "dispatch"
  /\ \E done \in SUBSET Handlers :
       /\ handled' = [handled EXCEPT ![cur] = @ \cup done]
       /\ pc' = IF done # {} \/ Handlers = {} THEN "ack" ELSE "fail"
  /\ tries' = 0
  /\ UNCHANGED <<tableVars, proc, callers, cur, claimed, burst, busy, hubVars, acked, faults, overtaken>>

(* dispatch posts the event to every matching handler and is an error when *)
(* one of them is; a payload that does not decode reaches no handler and   *)
(* is an error too.                                                        *)
Dispatch ==
  /\ pc = "dispatch"
  /\ \/ /\ handled' = [handled EXCEPT ![cur] = Handlers]
        /\ pc' = "ack"
     \/ /\ \E done \in SUBSET Handlers : handled' = [handled EXCEPT ![cur] = @ \cup done]
        /\ pc' = "fail"
  /\ tries' = 0
  /\ UNCHANGED <<tableVars, proc, callers, cur, claimed, burst, busy, hubVars, acked, faults, overtaken>>

\* A transition of the held row committed.
Settled ==
  /\ pc' = "poll" /\ cur' = 0 /\ claimed' = 0 /\ tries' = 0
  /\ failures' = clear_event_failures(failures, cur)
  /\ UNCHANGED <<proc, callers, burst, busy, chan, hubPending, sequence, completed, faults, overtaken>>

\* A try of it failed: retry, and after Retries tries record it and move on.
TransitionError ==
  /\ IF tries + 1 < Retries
     THEN tries' = tries + 1 /\ UNCHANGED <<pc, cur, claimed, failures>>
     ELSE /\ pc' = "poll" /\ cur' = 0 /\ claimed' = 0 /\ tries' = 0
          /\ failures' = record_failure(failures, cur, "transition")
  /\ UNCHANGED <<proc, callers, burst, busy, chan, hubPending, sequence, completed, history, overtaken>>

Acknowledge ==
  /\ pc = "ack"
  /\ acknowledge_outbox(cur)
  /\ acked' = acked \cup {cur} /\ UNCHANGED handled
  /\ Settled

\* Mutant of AcknowledgeError: the counter is not part of the transaction.
AcknowledgeErrorCounts ==
  /\ pc = "ack"
  /\ rows[cur].state = "in_flight" => Fault
  /\ rows[cur].state # "in_flight" => UNCHANGED faults
  /\ eventCompleted' = eventCompleted + 1
  /\ TransitionError
  /\ UNCHANGED <<rows, nextId>>

\* The row is not in flight ("is not in flight during acknowledgement"), or SQLite fails.
AcknowledgeError ==
  /\ pc = "ack"
  /\ rows[cur].state = "in_flight" => Fault
  /\ rows[cur].state # "in_flight" => UNCHANGED faults
  /\ TransitionError
  /\ UNCHANGED tableVars

Fail ==
  /\ pc = "fail"
  /\ fail_outbox(cur, claimed)
  /\ UNCHANGED history
  /\ Settled

FailError ==
  /\ pc = "fail" /\ Fault
  /\ UNCHANGED tableVars \/ fail_outbox_untrimmed(cur, claimed)
  /\ TransitionError

-----------------------------------------------------------------------------
(* run_queue, the channel.                                                 *)
\* Receive the message at position k, dropping the wakes before it.
Receive(k) ==
  /\ chan' = SubSeq(chan, k + 1, Len(chan))
  /\ burst' = 0
  /\ IF chan[k] = Wake
     THEN pc' = "poll" /\ UNCHANGED <<cur, busy, overtaken>>
     ELSE pc' = "direct" /\ cur' = chan[k] /\ busy' = busy + 1 /\ overtaken' = 0

FirstDirect(k) ==
  /\ k \in 1..Len(chan) /\ chan[k] # Wake
  /\ \A j \in 1..(k - 1) : chan[j] = Wake

\* Mutant of Throttle: combines the wakes and goes back to the outbox.
ThrottleSkipsDirect ==
  /\ pc = "poll" /\ burst >= BurstLimit
  /\ \/ \E k \in 1..Len(chan) : FirstDirect(k) /\ chan' = SubSeq(chan, k, Len(chan))
     \/ /\ \A k \in 1..Len(chan) : chan[k] = Wake
        /\ chan' = <<>>
  /\ burst' = 0 /\ pc' = "poll" /\ UNCHANGED <<cur, busy, overtaken>>
  /\ UNCHANGED <<tableVars, proc, callers, claimed, tries, hubPending, sequence, failures,
                 completed, history, faults>>

(* A full burst: after the pause, the wakes up to the first direct event   *)
(* are combined and that event, if there is one, is served.                *)
Throttle ==
  /\ pc = "poll" /\ burst >= BurstLimit
  /\ \/ \E k \in 1..Len(chan) : FirstDirect(k) /\ Receive(k)
     \/ /\ \A k \in 1..Len(chan) : chan[k] = Wake
        /\ chan' = <<>> /\ burst' = 0 /\ UNCHANGED <<pc, cur, busy, overtaken>>
  /\ UNCHANGED <<tableVars, proc, callers, claimed, tries, hubPending, sequence, failures,
                 completed, history, faults>>

\* Mutant of Wait: the timer always wins the select.
WaitTimerFirst ==
  /\ pc = "wait"
  /\ burst' = 0 /\ pc' = "poll" /\ UNCHANGED <<chan, cur, busy, overtaken>>
  /\ UNCHANGED <<tableVars, proc, callers, claimed, tries, hubPending, sequence, failures,
                 completed, history, faults>>

(* The biased select: a queued message first, the 250 ms timer only when   *)
(* there is none.                                                          *)
Wait ==
  /\ pc = "wait"
  /\ \/ chan # <<>> /\ Receive(1)
     \/ chan = <<>> /\ burst' = 0 /\ pc' = "poll" /\ UNCHANGED <<chan, cur, busy, overtaken>>
  /\ UNCHANGED <<tableVars, proc, callers, claimed, tries, hubPending, sequence, failures,
                 completed, history, faults>>

(* The direct event is dispatched, or refused by the loop limit, once:     *)
(* whatever comes of it, it is complete.                                   *)
DispatchDirect ==
  /\ pc = "direct"
  /\ IF busy > LoopLimit
     THEN failures' = record_failure(failures, cur, "loop")
     ELSE \/ UNCHANGED failures
          \/ failures' = record_failure(failures, cur, "dispatch")
  /\ completed' = completed + 1
  /\ hubPending' = hubPending - 1
  /\ busy' = IF hubPending = 1 THEN 0 ELSE busy
  /\ pc' = "poll" /\ cur' = 0
  /\ UNCHANGED <<tableVars, proc, callers, claimed, tries, burst, chan, sequence, history, faults, overtaken>>

-----------------------------------------------------------------------------
Dispatcher ==
  \/ Recover \/ Claim \/ ClaimNothing \/ Dispatch
  \/ Acknowledge \/ AcknowledgeError \/ Fail \/ FailError
  \/ Throttle \/ Wait \/ DispatchDirect

Clock == Tick /\ UNCHANGED <<proc, callers, loopVars, hubVars, history, faults, overtaken>>

Next ==
  \/ Start \/ StartWithoutFunctions \/ StopWithoutFunctions \/ Crash \/ Clock
  \/ \E n \in 1..MaxBatch : CommitMutation(n)
  \/ Admission
  \/ Dispatcher

Spec == Init /\ [][Next]_vars

(* run_queue is one task of a runtime that schedules every ready task, its *)
(* calls end (60 s client timeout, a SQLite busy timeout) and the clock    *)
(* runs.  Nothing is assumed of clients, crashes or restarts.              *)
FairSpec == Spec /\ WF_vars(Dispatcher) /\ WF_vars(Clock)
-----------------------------------------------------------------------------
TypeOK ==
  /\ TableTypeOK
  /\ proc \in {"down", "on", "off"}
  /\ pc \in PCs
  /\ cur \in Nat /\ claimed \in Nat /\ tries \in Nat
  /\ burst \in Nat /\ busy \in Nat
  /\ chan \in Seq(Nat)
  /\ hubPending \in Nat /\ sequence \in Nat /\ completed \in Nat
  /\ enqueuing \subseteq 1..sequence /\ refused \subseteq enqueuing
  /\ handled \in [Ids -> SUBSET Handlers]
  /\ acked \subseteq Ids
  /\ overtaken \in Nat /\ faults \in Nat

(* The failure history of the hub stays within its limit and lists no      *)
(* failure twice, whatever repeats: a lost transition of one row, errors   *)
(* of every poll, rejected events.                                         *)
FailureHistoryBounded ==
  /\ failures \in Seq(Failure) /\ Len(failures) <= FailureLimit
  /\ \A j, k \in 1..Len(failures) : failures[j] = failures[k] => j = k

(* The row run_queue is working on stays leased to it until it settles it: *)
(* no clock, reclaim, recovery or trim takes it away, so an acknowledgement *)
(* never meets a row that is not in flight, and fail_outbox, whose UPDATE  *)
(* is unguarded, never moves a settled row.  Only the untrimmed failure    *)
(* may have settled the row already.                                       *)
HeldRowIsLeased ==
  /\ pc \in {"dispatch", "ack", "fail"} =>
       cur \in Ids /\ claimed = rows[cur].attempts
  /\ pc \in {"dispatch", "ack"} => rows[cur].state = "in_flight"
  /\ pc = "fail" => \/ rows[cur].state = "in_flight"
                    \/ rows[cur].state = "failed" /\ claimed >= MaxAttempts

(* An event counts as delivered only after all of its handlers succeeded,  *)
(* however often crashes and lost acknowledgements repeat its group.       *)
DeliveredWasHandled ==
  \A i \in Ids : rows[i].state = "delivered" => handled[i] = Handlers

(* Pending and in-flight events never exceed the bound that admits them:   *)
(* no retry, recovery or reclaim brings a settled event back.              *)
OutstandingBounded == Cardinality(Outstanding) <= Capacity

(* event_completed counts each acknowledged event once, across crashes and *)
(* retried acknowledgements.                                               *)
CompletedOnce == eventCompleted = Cardinality(acked)

(* hub.pending is exactly the direct events that are being admitted,       *)
(* queued or dispatched, whatever the order in which threads count, send,  *)
(* take back and complete them: status and drain never find the queue idle *)
(* while it has an event, and find it idle when it has none.               *)
PendingIsExact ==
  hubPending =
    Cardinality(enqueuing) + Cardinality(Directs(chan)) + (IF pc = "direct" THEN 1 ELSE 0)

(* A direct event at the head of the channel is overtaken by at most one   *)
(* burst of durable deliveries, however many rows are due.                 *)
DirectNotStarved == overtaken <= BurstLimit

(* docs/PERSISTENCE.md: "It retries each stable event ID up to five        *)
(* times."  attempts is compared in fail_outbox alone, so a claim that     *)
(* ends in a crash or in a lost transition is not counted out: the limit   *)
(* holds but for those, each claim of an event beyond MaxAttempts is paid  *)
(* for by a crash or an error.                                             *)
ExtraClaimsAreFaults == \A i \in Ids : rows[i].attempts <= MaxAttempts + faults

-----------------------------------------------------------------------------
(* What the invariants above rest on.                                      *)
Held(i) == pc \in {"dispatch", "ack", "fail"} /\ cur = i

\* A row that can be claimed has a claim left, or a fault has paid for the next.
ClaimIsLeft ==
  \A i \in Ids :
    rows[i].state \in {"pending", "in_flight"} /\ ~Held(i) =>
      rows[i].attempts < MaxAttempts + faults

\* Ids are handed out in order; an unused id has no row, a leased row was claimed.
RowsOK ==
  \A i \in Ids : /\ i >= nextId => rows[i] = NoRow
                 /\ i < nextId => rows[i].state # "none"
                 /\ rows[i].state = "in_flight" => rows[i].attempts >= 1

\* An acknowledged row never becomes outstanding again.
AckedIsSettled == \A i \in acked : rows[i].state \in {"delivered", "gone"}

\* run_queue acknowledges only what all handlers have processed.
AckIsEarned == pc = "ack" => handled[cur] = Handlers

\* Without a process there is no dispatcher.
NoneRuns == proc # "on" => pc = "stopped"

\* Each claim that overtakes a direct event counts in the burst, until an empty
\* outbox ends the burst; then the next message received is that event.
OvertakenInBurst ==
  /\ burst <= BurstLimit /\ overtaken <= BurstLimit
  /\ pc # "wait" => overtaken <= burst
  /\ overtaken > 0 => DirectAtHead

IInv ==
  /\ TypeOK /\ NoneRuns /\ HeldRowIsLeased /\ RowsOK
  /\ DeliveredWasHandled /\ AckIsEarned /\ AckedIsSettled
  /\ OutstandingBounded /\ CompletedOnce /\ PendingIsExact /\ OvertakenInBurst
  /\ FailureHistoryBounded /\ ExtraClaimsAreFaults /\ ClaimIsLeft

-----------------------------------------------------------------------------
DirectErrors == {"dispatch", "loop", "rejected"}

(* docs/PERSISTENCE.md: "Functions status and drain report terminal        *)
(* failures".  A direct event is never retried, so its failure is terminal *)
(* and should leave the history only when the history is full or the       *)
(* process ends.  Not so: settling the outbox row with the same number     *)
(* clears it, because direct events and rows are numbered separately.      *)
DirectFailureIsKept ==
  [][\A k \in 1..Len(failures) :
       failures[k].error \in DirectErrors /\ Len(failures) < FailureLimit /\ proc' = "on"
         => Has(failures', failures[k])]_vars

\* The refinement mapping: pending and in-flight rows are queued events.
StatusOf(st) ==
  CASE st = "none" -> "none"
    [] st \in {"pending", "in_flight"} -> "queued"
    [] st = "delivered" -> "done"
    [] st = "failed" -> "abandoned"
    [] st = "gone" -> "forgotten"

Delivery == INSTANCE EventDelivery WITH
  status <- [i \in Ids |-> StatusOf(rows[i].state)],
  claims <- [i \in Ids |-> rows[i].attempts],
  doneCount <- eventCompleted

(* The dispatcher with its leases, retries, crashes and recovery keeps the *)
(* promise of EventDelivery: a settled event never returns, delivery needs *)
(* every handler, giving up needs MaxAttempts claims, only settled events  *)
(* are trimmed.                                                            *)
ImplementsDelivery == Delivery!Spec

(* When Functions stay up and errors stop, every committed event is        *)
(* delivered or terminally failed: retries, expired leases and lost wakes  *)
(* never strand one.                                                       *)
EventsSettle ==
  <>[](proc = "on") =>
    \A i \in Ids : (i \in Outstanding) ~> (i \notin Outstanding)

(* A direct event of a process that stays up is served.                    *)
DirectServed ==
  <>[](proc = "on") =>
    \A d \in 1..MaxDirect : InChan(d) ~> ~InChan(d)
=============================================================================
