# A TLA+ verification project for FireRust (firebase-emu)

FireRust is a local emulator of Firebase written in Rust: Firestore, Auth,
Storage, Pub/Sub and Cloud Functions in one process, in memory or on a data
directory (SQLite and blob files). This directory holds TLA+ models of its
stateful parts, the TLC configurations that check them, and TLAPS proofs.

## Inventory

| Component | State | Operations | Hard behaviour | Correct when |
|---|---|---|---|---|
| Durable outbox (`persistence.rs`, `functions.rs`) | `event_outbox`, `counters` | `insert_outbox`, `recover_outbox`, `claim_outbox`, `acknowledge_outbox`, `fail_outbox` | crash between handler and acknowledgement, expiring leases, failing SQLite jobs, trimming | every committed event is delivered at least once or terminally failed, settled once, never reopened; the bound holds |
| Functions dispatcher (`functions.rs`) | the hub (channel, pending, sequence, failures, completed), the locals of `run_queue` | `enqueue`, `outbox_committed`, `run_queue`, `status`, `drain`, injections | two sources of work in one loop, a full channel, lost wakes, bursts, restarts | neither source starves the other; counters tell the truth |
| Pub/Sub broker (`pubsub.rs`) | topics, subscriptions, messages, deliveries; per stream a map of outstanding ack ids | CRUD, `publish_values`, `claim`, `acknowledge_ids`, `modify_ack_ids`, `streaming_pull` | calls that read the clock and then wait for the lock, late acks, fan-out, retention, flow control | a delivery leaves only for a cause, a lease is honoured, backlog and flow control are bounded |
| Persistence (`persistence.rs`) | the SQLite file, the writer thread and its queue | `open`, `write`, `read`, `migrate` | jobs whose caller is gone, locking, migration | one job is one atomic change, in order |
| Storage (`storage.rs`) | object rows, blob files, resumable sessions | upload, resumable upload, delete, copy, recovery | crash between rename, commit and unlink; sessions that expire, chunks that are repeated | a row has its blob; a file without a row is the trace of a failure, and gone after the next startup |
| Auth (`auth.rs`) | accounts and sessions: two tables, or two maps with a lock each | sign-up, sign-in, refresh, session checks, update, delete | a request reads an account in one step and uses it in another; tokens expire and are pruned | e-mail addresses are unique, a session has its account and leaves for a cause, projects are apart |
| Firestore store (`firestore.rs`) | documents, transaction tokens, the id counter; the store's lock, the writer's queue | commit, batch, single writes, transactions, clear; queries, masks, transforms | locks kept over awaits, dropped clients, values of mixed types, pages read while others write | commits are atomic, events tell the history of a document, a token commits once; pages lose and repeat nothing |
| Firestore listeners (`firestore.rs`) | per call: targets, the receiver of a broadcast, a bounded channel of responses | listen, `emit_target` | a receiver that lags, notifications after the commit, targets that come and go | a view is one snapshot when it is declared current, and converges |
| Firestore WebChannel (`firestore_web.rs`) | per session: queued responses, targets, received message ids | forwarded POSTs, hanging GETs | lost answers, repeated POSTs, overlapping GETs | responses once and in order, messages applied once and in order |
| Console (`ui.rs`) | none of its own | field actions, Save beside a field, clones | an edit of a document that has changed since it was read | no lost update, no overwritten document |
| Functions configuration, HTTP security | none | pure functions at startup and per request | none | outside the models |
| Process (`main.rs`), Node worker (`functions-runtime/`) | child processes | start, monitor, stop | a worker that exits ends the process | seen by the dispatcher as start and crash |

How they interact. A Firestore or Storage request is one job of the SQLite
writer that changes documents or object rows and, through `insert_outbox`,
adds its event records in the same transaction; after the commit the request
calls `outbox_committed`, which sends a wake into the dispatcher's channel.
`run_queue` claims rows, posts the event to the Node workers, and acknowledges
or fails the row. Pub/Sub injections, schedules and (without a data directory)
all mutations go through `enqueue` into the same channel as direct events. A
Pub/Sub trigger is a task that pulls from the broker like any subscriber.

`PROJECT.json` lists the hazards of this code line by line with the properties
that would catch each.

## Plan

1. `Outbox`, `FunctionsQueue`, `EventDelivery` (this is the heart of the
   crash-safety claims): done and proved.
2. `PubSub`: done and proved.
3. `Storage`, `ObjectStore`: done and proved, with the refinement.
4. `Firestore`: done and proved.
5. `DocumentFeed`, `Listeners`, `WebChannel`: done; the safety properties are proved.
6. `Auth`: done and proved.
7. `FirestoreValues`, `FirestoreQuery`: done; recursive over values, so for TLC
   only. `QueryPages`, which they implement: done and proved.
8. Left to model: `status` and `drain` as a reader of `FunctionsQueue`, the
   in-memory object map, the opening and migration of the database.

## Modules

### Outbox

One operator per SQLite job on `event_outbox`. `rows[i]` is the row with id
`i`; state `"none"` is an id that has not been handed out and `"gone"` one
whose row was deleted by trimming. The columns `available_at` and `lease_until`
are kept relative to the clock (`wait`, `lease`): the code compares them only
with the current time, so `Tick` counts them down. `fail_outbox` takes the
attempts the claim returned, as the code does, and has no guard on the state;
its terminal branch is two autocommitted statements, so
`fail_outbox_untrimmed` is the outcome in which only the first is committed.

### FunctionsQueue

`pc` is where `run_queue` is:

| `pc` | code |
|---|---|
| `recover` | `recover_outbox` before the loop |
| `poll` | top of the loop: claim, or the throttled receive after a full burst |
| `dispatch` | `Runtime::dispatch` for the claimed row |
| `ack`, `fail` | `acknowledge_outbox_with_retry`, `fail_outbox_with_retry`; `tries` counts failed tries |
| `wait` | the biased `select!` of channel and timer |
| `direct` | dispatch of a direct event |

The environment commits mutations (`CommitMutation`), admits direct events on
threads of their own (`enqueue` counts one, `try_send` sends it, `Reject` takes
the count of a refused one back), makes SQLite jobs fail (`Fault`), ends and starts the process, and starts it
without Functions for a while. `handled`, `acked` and `overtaken` are history
variables. Abstractions:

* a handler is a model value, and an event matches all of `Handlers`; payloads
  are left out, one that does not decode is the dispatch that fails with no
  handler run;
* the text of an error is one of five kinds; the history's duplicate test
  compares the kind and the event id;
* a process without a data directory is the model with an empty table;
* the wall clock does not go back, and runs while the process is down;
* the two counters that `enqueue` adds to are one step: the sequence only names
  the event.

### EventDelivery

The promise, with no process, clock or lease: events are accepted within the
capacity, attempted, completed when every handler has succeeded, abandoned when
`MaxAttempts` claims were made, and forgotten only when settled.

### PubSub

A broker call is two steps: `Call...` looks the subscription up and reads the
clock, and the operation of the same name as the Rust function does the
transaction with that reading. Between them other calls, deletions and clock
steps happen; a caller may also go away (`CallDropped`). `deliveries` is keyed
by subscription and message; `expiry[m]` is 0 for a message that is not stored.
A stream is `wait` (select over requests, wake and timer), then `StreamRefresh`
and, within budget, `claim`. Abstractions:

* SQLite and memory mode share one state; after a publish that fails, the
  cleanup of expired messages is kept (memory) or rolled back (SQLite), so both
  are allowed;
* the greedy selection meets the candidates in any order: memory mode iterates
  a hash map; SQLite orders by publish time, which is one of those orders. Its
  candidate window (at least 16 rows) is never smaller than the instances;
* all subscriptions and streams have the same deadline; the `attempts` column,
  which is only written, is left out; a message's size is a function of its id;
* a request on a stream carries one ack id or one deadline change.

### Storage

A request is a number and the name of the blob it writes. `pc` follows
`save_persistent_object`, `delete_persistent_object` and `persistent_media`:
`writing` (the blocking task writes, flushes, renames, flushes the directory),
`lock` (in the queue of `blob_lifecycle`, which Tokio serves in order; `lockq`
holds owners and waiters), `job` (queued for the SQLite writer), `cleanup` and
`unlink` (still under the lock), `read`. What a dropped handler leaves behind is
the point of the model: `Drop` releases the lock, while its entry in `jobs`, its
`task` and its `unlinks` go on. `file` tells a directory change that is flushed
from one that is not, and `PowerLoss` undoes any of the latter; a commit is
flushed (`synchronous=FULL`). `recover_blobs` is a check, one removal at a time,
and the start of service, with crashes between.

A resumable session is its bytes, each the number of a byte of the client's file.
A chunk (`Chunk`) may name its offset, which `resumable_put` then compares, or
come without, and then it is appended wherever the session is; the history
`blind` says that this has happened to a session.

Abstractions: the Unix build (the directory is flushed); metadata and bytes of
an object are its blob; metadata reads and listings change nothing. That a client
disconnects is counted among the faults, to bound it.

### ObjectStore

The promise: a request takes effect at most once and in one step, a successful
answer comes after the effect, and a refused request never has one.

### Firestore

A request is `calls[c]`: begun with a reading of the clock, then in line for the
store's lock or queued with the writer. The two modes differ in who waits for
what: in memory a write is one step under the lock; with a data directory it is
a job, `commit` and `clear_database` keep the lock while they wait for theirs,
and the other writes never take it. A client that goes away (`Leave`) drops its
handler, which releases the lock; its job is still run. `apply_write` is the
code's, with preconditions and masks; a batch applies write by write, a commit
all or nothing. `Recorded` is the outbox record of the same transaction; in memory
the events are direct ones, which a full channel drops while the write stays, so
any event of the write may be dropped there (`lost`). The
console's field actions and clones are reads in one step and a commit with
preconditions in later ones; its Save (`BeginSave`) commits what the browser has
typed for a document that it loaded, with no more than that it exists.
`validate_writes_database` is called by the durable writes alone, so
in memory a commit or a batch may name another database than its own. Timestamps are compared for equality only, so every
reading of the clock is a new number; names are pairs of a database and a path.

### FirestoreValues, FirestoreQuery, QueryPages

`FirestoreValues` has the pure functions: the order of values, paths, masks and
transforms. Strings and keys are numbers, an integer has `Width` bits, a double is
NaN or the number of its halves, so that it can lie between two integers. Of these
it has `Precision` significant bits, fewer than the integers: what `as f64` and a
sum make of a number is `Rounded` (to the nearest, of two as near to the even one),
and an integer can lie between two doubles.
`FirestoreQuery` evaluates queries (`filter_matches`, implied orders, cursors,
offset, limit) on one snapshot of the store, for a client that reads page after
page behind a cursor while others write. `QueryPages` is what that promises: the
result is a rank of each document, a write moves one document, and a page has the
next documents after the last that was read. In the refinement mapping the ranks
come from the order and the results that the instance enumerates (`Ascending`,
`wanted`), not from the operators of the model. Bytes and geopoints (ordered like strings, under ranks of their
own), infinities and fractions other than halves, projections, errors of malformed queries and paths, and characters that
sort before the slash are left out.

### DocumentFeed, Listeners

`DocumentFeed` is what reaches a listener: commits, and notifications that
follow them in a step of their own when there is a data directory, or never
when the writing client has gone away. The version of a document is the number of
the commit that wrote it. What a response is and what the client makes of it
(`Response`, `Shown`) is the same over gRPC and WebChannel and is here too. `Listeners` is one Listen call: `Event` takes a
notification or the news of a lag, `emit_target` reads the documents of one target
and works out the responses, `Send` waits for room in the response channel. The client
keeps the views that the responses make; `marked` is the moment after a
NO_CHANGE.

### WebChannel

One session. `handlers[h].step` follows `channel_inner`: a POST processes its
messages under the session's lock, with commits that may outlive it; a GET
refreshes the targets, answers with the queued responses after its AID, or
hangs. Answers are lost when the browser gives a request up, POSTs are repeated,
`received` makes them idempotent. Assumed of the browser: one POST and one GET at
a time that it has not given up, forwarded in order.

### Auth

A handler is `calls[c]`, with what it has read so far. With a data directory a
request is one transaction, or a check and then one; in memory the locks of
users and sessions are taken one after the other, so an account can disappear
between them. A refresh token is a number, an ID token its claims. `Tick` runs
the clock, `Kept` is the pruning of expired sessions. Any waiting request may be
refused or dropped. `MaxTime` and the lifetimes of one second let a token expire.

### The instances and proofs

`MC...` are instances for TLC (`MCPubSubLimit` adds a history of what a stream
handed out), `...Proofs` the proofs about the module they name, `FoldLemmas` what
they need of sums, of folds of sequences, of walks along them, of the news of a view that
both kinds of listener send, and of `InOrder`, the order of a BTreeMap's keys (`Sorted`). Several modules take a constant
`Setups` (`Modes`, `Sessions`): records of what one behaviour may do. The initial
state chooses one and no step changes it, so one run explores several small
instances (a mode, a workload and its bounds) and none of their mixtures.

Each operator whose comment starts with "Mutant of" is a deliberately wrong
version of the definition after it; no specification uses it. `PROJECT.json`
pairs every property of a passing run with a mutant that breaks it.

## Runs

| Run | Result | Shows |
|---|---|---|
| `outbox` | pass, 0.8 M states | the durable half: three events, two handlers, capacity 2, history 1, three faults |
| `direct` | pass, 0.3 M states | two rows and two direct events that are admitted on threads of their own, burst 1, channel 2, with fairness |
| `failures` | violation | a settled row clears the failure of a direct event |
| `pubsub` | pass, 1.8 M states | two subscriptions with retention and deletion; a stream beside a client on one subscription |
| `pubsub_limit` | violation | one message over the stream's limit |
| `storage` | pass | three requests on one object with two faults of any kind; a resumable session of two bytes, whose chunks name their offsets or do not, with one; a writer queue of one; with fairness |
| `firestore` | pass, 0.8 M states | writes of two databases in both modes, the console among other writers, transactions in both modes; clients that leave and a restart |
| `console_save` | violation | a Save that brings back a field which another client has deleted |
| `query` | pass, 44 k states | values of every type, every kind of filter, cursors, collection groups; pages among writers; masks and transforms |
| `listeners` | pass | two targets in both modes, a broadcast of one, a response channel of one, two commits; with fairness |
| `webchannel` | pass | two targets with overlapping GETs, one target with repeated POSTs, three writes; a failure anywhere |
| `auth` | pass | the sessions of one account, two accounts of one project, one uid in two projects; two handlers |

What they check, each stated in a comment above its definition:

* `outbox`, `direct`: `HeldRowIsLeased` (nothing takes the row in hand away),
  `DeliveredWasHandled`, `OutstandingBounded`, `CompletedOnce`,
  `ExtraClaimsAreFaults`, `ImplementsDelivery`; `PendingIsExact`, `FailureHistoryBounded`,
  `DirectNotStarved`, and under fairness `EventsSettle` and `DirectServed`;
* `pubsub`: `NoOrphans`, `AckNamesItsRow`, `BacklogBounded`, `StreamBounded`,
  `NeverReturns`, `RemovedForCause`, `LeaseHonoured`;
* `storage`: `RowHasBlob`, `ReadHasBlob`, `LeaksAreFailures`, `UploadIsExact`,
  `ImplementsStore` and, under fairness, `RequestsEnd`;
* `firestore`: `EventsTellTheStory`, `CommitIsAtomic`, `TokenCommitsOnce`,
  `EveryWaiterIsServed`, `ConsoleLosesNothing`;
* `query`: `ImplementsPages`, `PagesAreComplete`, `UpdateIsExact`;
* `listeners`: `ViewIsASnapshot` and, under fairness, `ViewsConverge`;
* `webchannel`: `GotIsAPrefix`, `AppliedOnceInOrder`, `ViewIsASnapshot`;
* `auth`: `EmailUnique`, `SessionsHaveAccount`, `SessionLeavesForCause`.

Type invariants are parts of the inductive invariants that are proved, and no run
repeats them.

Bounds. The capacity, the history and the channel are smaller than the number
of events, so each limit is reached and refused. `MaxFaults` admits a failed
recovery, a lost transition and a crash in one behaviour; `Retries` is 2 so
that a transition is both retried and given up. Messages have two sizes and the
byte limits fall between them. `MaxTime` reaches the end of a lease and of the
retention, so leases and messages run out while calls wait. Three Storage
requests are an upload, the one that replaces or deletes it, and a download; the
writer queue of one fills up when a request is dropped. Two Firestore handlers
and three readings of the clock are a commit, one that runs into it and one after
it; two commits are what a view can mix, and a broadcast of one notification lags
at the second. Integers of five bits and doubles of three put doubles beyond both
ends of the integers, make the largest integer round up, and an integer lie between
two doubles. In the run `direct` no function matches an event, since what handlers do
is the subject of `outbox`: this halves the states of every row. One failure at any place is a lost answer, a repeated POST or a
session that ends. Runs that say `CHECK_DEADLOCK FALSE` stop where the bounded
requests, clock or writes are used up; `RequestsEnd`, `EveryWaiterIsServed`
and `ViewsConverge` show that no one is left waiting there. Behaviours that use
up the bounded ids still crash, restart and expire.

Fairness (`FairSpec`). `run_queue` is one Tokio task, whose awaits end: HTTP
posts have a 60 s timeout, SQLite a busy timeout, and a direct event is bounded
by the same posts; so weak fairness of `Dispatcher` as a whole. The clock runs.
In Storage every handler is a task, the writer a thread and the pool a set of
threads, each weakly fair; the lock needs no more because it is FIFO. In
`Listeners` (`LiveSpec`) the task is scheduled and its channel is read by the client,
so its steps are weakly fair; its `select!` is random among what is ready, so a
notification that is ready again and again is taken (strong fairness of `Event`);
and a handler whose job is done goes on. Nothing is assumed of other clients, crashes or restarts: the liveness properties are
conditional on `<>[](proc = "on")`, and `Fault` is bounded.

## Findings

1. `failures`: outbox rows and direct events are numbered separately but share
   the key of the failure history; settling row *n* removes the failure of
   direct event *n*.
2. `pubsub_limit`: PUBSUB.md:80 says streaming output enforces the client's
   outstanding-message limit; a lease that ended leaves the map, and a
   ModifyAckDeadline that then renews it is not counted.
3. `console_save`: docs/CONSOLE.md:36-37 says that the console reports changes made
   after the document was loaded. The field actions do (`mutate_field` demands the
   update time it has read); the Save beside a field goes to `update_field`, which
   demands that the document exists, so a Save puts a field back that was deleted
   meanwhile and overwrites a value that was changed. `ConsoleLosesNothing` is
   therefore about the field actions and clones.

Other behaviour that the models show and that the properties state as a
condition:

* docs/PERSISTENCE.md:86 says that an event is retried up to five times.
  `attempts` is compared only in `fail_outbox`, so a claim that ends in a crash or
  in a transition that could not be recorded is not counted out: an event is
  claimed `MaxAttempts` times, and once more for each such fault
  (`ExtraClaimsAreFaults`).
* A chunk of a resumable upload that is repeated without its offset is appended
  twice (`UploadIsExact` is exact for sessions whose chunks all named theirs; the
  limit holds for every session).
* Without a data directory an event that meets a full channel is dropped and its
  write stays, so the events of a document have a gap (`EventsTellTheStory` excepts
  the documents in `lost`, of which there are none with a data directory).
* An increment of an integer by a double rounds the integer first, so one between two
  doubles, incremented by a half, can become less than it was (`UpdateIsExact`
  compares with the double nearest to it).
* In memory, `issue_session` stores a session without looking at the account
  again, so the session of an account that was deleted meanwhile can appear
  after the deletion (`SessionsHaveAccount` is about the data directory, where
  docs/PERSISTENCE.md makes its promise). `sign_up` indexes the account that it
  has just created, which panics when it is deleted in between (auth.rs:1188);
  the model ends the request.
* A commit whose client leaves while its job is queued is applied, but its token
  is not consumed, so a retry with the same token is applied again
  (`TokenCommitsOnce` counts acknowledged commits).
* A writing client that leaves between commit and notification leaves listeners
  unaware of it until the next change; FIRESTORE-NOTES.md says that writes notify
  subscribers (`ViewsConverge` excepts this case, `missed`).
* A failed durable read makes `status` report only the volatile counts, on which
  `drain` would answer that all is done; this is read from the code, not
  modelled.

## Proofs

Each proof module states one inductive invariant, `IInv`, and proves that every
behaviour satisfies it, for every value of the constants that satisfies the
assumptions of its modules; the theorems about single properties follow from
`IInv` or, for action properties, from `IInv` and a case for each action. The
assumptions say what the constants are: the bounds and limits are naturals (those that
the code requires to be positive, positive), handlers, subscriptions, document
names and target ids are finite sets, `None` is not a member of the sets it is
told apart from, and what a setup or a script asks for is made of the declared names
and kinds. `FeedAssumption` makes names and target ids finite because a process
holds finitely many; `WebChannelAssumption` gives the browser's scripts their
shape. Each conjunct of `IInv` has a lemma of its own, named `...Step`,
with a case for each action that can disturb it.

| Module | Proved for every behaviour |
|---|---|
| `FunctionsQueueProofs` | `TypeOK`, `HeldRowIsLeased`, `DeliveredWasHandled`, `OutstandingBounded`, `CompletedOnce`, `PendingIsExact`, `DirectNotStarved`, `FailureHistoryBounded`, `ExtraClaimsAreFaults`, `ImplementsDelivery` |
| `PubSubProofs` | `NoOrphans`, `AckNamesItsRow`, `BacklogBounded`, `StreamBounded`, `NeverReturns`, `RemovedForCause`, `LeaseHonoured` |
| `StorageProofs` | `RowHasBlob`, `ReadHasBlob`, `UploadIsExact`, `LeaksAreFailures`, `ImplementsStore` |
| `FirestoreProofs` | `TypeOK`, `EventsTellTheStory`, `TokenCommitsOnce`, `EveryWaiterIsServed`, `CommitIsAtomic`, `ConsoleLosesNothing`; of `QueryPages`: `PagesGoForward`, `PagesAreComplete` |
| `ListenersProofs` | `ViewIsASnapshot` |
| `WebChannelProofs` | `GotIsAPrefix`, `AppliedOnceInOrder`, `ViewIsASnapshot` |
| `AuthProofs` | `EmailUnique`, `SessionsHaveAccount`, `SessionLeavesForCause` |

The arguments, and why the properties are not inductive alone:

* `FunctionsQueueProofs`. That an acknowledged row is counted once needs that an
  acknowledged row never becomes outstanding again (`AckedIsSettled`), which needs
  that the row in hand is in flight (`HeldRowIsLeased`); that only handled rows
  are delivered needs that `pc = "ack"` follows a complete dispatch
  (`AckIsEarned`); that the bound survives an insertion needs that unused ids
  have no row (`RowsOK`); that a direct event is not starved needs that it is
  overtaken within one burst only (`OvertakenInBurst`). What clearing an event leaves of the failure history is a
  `FoldLeft`, and `ClearedFacts` goes along its steps by induction. The first lemmas say what
  each SQLite job does to the table, so that the steps over the actions never
  expand `Trim`; the `Directs...` lemmas count the direct events of a channel
  under append and receive, and an event that is being admitted is counted from its
  first step to its last (`AdmittedIsCounted`). That a claim beyond `MaxAttempts` is paid for
  by a fault needs that a row which nobody holds has a claim left (`ClaimIsLeft`): the
  dispatcher lets go of a row by a transition that counts, or by a fault. `Refinement` maps each action to one step of
  `EventDelivery` or to a stutter.
* `PubSubProofs`. A call read the clock before its transaction and can have been
  overtaken, so the invariant says what it may still rely on (`RequestsOK`): the
  reading is past, an open stream has its subscription. Fresh numbers are
  unused (`NumbersOK`), which makes an ack id name one lease at most; a stream that
  is about to claim asks for no more than its limits leave (`BudgetOK`). The
  byte and count bounds are sums over sets of rows, `MapThenFoldSet` of the
  community modules. `FoldLemmas` proves that this fold exists and what it
  computes, by induction over the subsets of a finite set, and from it that the sum grows
  by a new element, is monotonic, and is carried along an injection.
* `StorageProofs`. A row's blob survives because everything that could remove it is
  ordered before or after by the lock: a blob is flushed before its request can
  queue a job (`FilesOK`), jobs are queued once and outlive their requests
  (`JobsOK`), a referenced blob is past and not among what is removed
  (`RowsOK`, `RemovedOK`), who holds the FIFO lock was granted it (`LockOK`), and
  what is read is not removed (`ReadOK`). That failures bound the files nobody will
  remove needs to count a debt when its failure happens and not when the file is left: `Debts`
  are the files that are left and the failures that may still leave one, at most one of
  either for each failure (`LeaksOK`); that needs that only puts write files, before they wait
  for the lock (`PutsOK`), and that what is removed is not a temporary file (`VictimsOK`). `Refinement` needs
  `AppliedOK`: a request takes effect only when its job or its read runs.
* `FirestoreProofs`. A handler that waits for the writer is in its queue exactly once and a
  handler that waits with the lock is the one that holds it (`HandlersOK`, `JobsOK`,
  `LockOK`), so a token that a commit has validated cannot be consumed, rolled back
  or cleared while its job runs (`TokensOK`). `StoriesOK` tells the story of each
  document that has lost no event by the first, the last and the neighbouring events. The two action
  properties find the request of a written document by the time of that
  document, so the invariant says that a reading of the clock belongs to one
  request, whichever of handler, lock and queue has it (`ReadingsOK`), that what has not
  been run has written and shown nothing (`ToRunOK`), that all times are past
  (`TimesOK`), and that the console's requests demand what it has read
  (`ConsoleOK`). `EffectStep` reduces every step to four effects on requests and
  documents. What a list of writes leaves is a `FoldLeft`, the last of a chain of
  single writes (`AppliedChain`, from the lemmas of `FoldLemmas`), and
  `AppliedFacts` goes along that chain by induction; `AppliedLeaves` says of its end what
  `CommitIsAtomic` asks: each document is there and has its time by the last write that names it,
  and each field is as the last write that concerns it leaves it.
  About the pages of a query:
  of a document that nobody wrote only the row it has is read, and that has
  happened once the pages are past it (`QuietRowsOK`); with the ascending order
  of all that was read, it has happened once. The run `query` checks that
  `FirestoreQuery` implements `QueryPages`; that step is not proved.
* `ListenersProofs`. The client's views lag behind the task by the responses in the
  channel and those still to send, so the invariant is about what these will make
  of the views: `WayOK` says that there is a walk from `view` along `out \o sending`
  to `targets`, with views that are snapshots at every NO_CHANGE (`Marks`), on which a target
  is added or removed at most once (`Once`). What `emit_target` sends leads from what
  it knew of the target to what it read, whatever order the set of changes is told in
  (`NewsFacts` and, in `FoldLemmas`, `NewsOf` and `NewsWay`, by induction); a target that is known is
  a snapshot unless it was added and is still to be emitted (`TargetsOK`); the client
  asks only when it and the task agree about a target (`AskedOK`). `WayGrows` appends to the
  walk, `MarksTail` takes its first step off, and `UpToDateStays` lets the log grow
  under it.
* `WebChannelProofs`. What was taken in has no gap, and of what was taken in only
  the last message can still be waiting for its commit, so queued commits
  are older than it (`CommitsOK`, `PostsOK`, `LockOK`): repeated and overlapping
  POSTs therefore neither repeat nor reorder a commit. Everything the browser has not got
  is still kept, and the one GET it waits for asks for what follows (`GetsOK`).
  The browser's views lag behind the session by the responses that are queued, so
  as in `ListenersProofs` there is a walk along all responses, with a snapshot at
  every NO_CHANGE, from no views before the first to the session's targets after
  the last; it has reached the browser's views where the browser is (`WayOK`). A
  NO_CHANGE is true because every target is up to date by then: while a GET refreshes,
  those that are not are still to be read, and what it has queued tells of all of
  them or ends with a NOOP (`RefreshOK`, `TodoOK`). Since when a view must hold is
  the request of a message that was not taken in before (`PostedOK`, `SinceStays`), and
  the log of the store grows by one snapshot at a time (`LogOK`, `UpToDateStays`).
* `AuthProofs`. A session has its account because, with a data directory, a
  handler remembers no account across two transactions (`StepsOK`) and what it
  remembers of the clock is past (`ReadsArePast`).

Only model-checked, and why:

* the liveness properties `EventsSettle`, `DirectServed`, `RequestsEnd` and
  `ViewsConverge`: fairness and ENABLED are outside the prover's reach;
* `ImplementsPages` and `UpdateIsExact`: what `FirestoreValues` and `FirestoreQuery`
  compute is defined by recursion over values, which is outside the prover's reach.

## Not modelled

* Functions configuration and HTTP security are pure functions of a file or of
  one request.
* Pub/Sub: pagination, name validation and the unsupported RPCs change no state;
  the registration of trigger subscriptions happens at startup.
* Firestore: projections, listings, batch gets, the parsing of paths; the REST
  routes and the JSON conversions of `firestore_web.rs`.
* Auth: an account's other fields, providers and listings.
* Console: pages, listings and the other services' forms.
* Storage: the in-memory object map, metadata and listings.
* Persistence: opening, migration and the bounded readers.
* Functions: `status` and `drain`.
