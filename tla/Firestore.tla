------------------------------ MODULE Firestore ------------------------------
(***************************************************************************)
(* The Firestore document store (firestore.rs) and the console's edits of  *)
(* documents (ui.rs).  In memory a write takes the store's lock and is one *)
(* step under it.  With a data directory (durable) it is a job of the one  *)
(* SQLite writer; commit and clear_database hold the store's lock while    *)
(* they wait for their job, the other writes do not take it.  Transaction  *)
(* tokens are kept in memory in both cases.                                *)
(*                                                                         *)
(* A name is a pair of a database and a path.  Timestamps are compared for *)
(* equality only, so every reading of the clock is a new number; it is     *)
(* taken when the request begins.                                          *)
(***************************************************************************)
EXTENDS Naturals, FiniteSets, SequencesExt

CONSTANTS
  Databases, Names, Fields, Values,
  AutoNames,    \* the names of automatic ids, in their order
  Calls,        \* handlers that run at the same time
  None,         \* no document, value, token or handler
  Setups,       \* how the process is started and what its clients send
  MaxClock,     \* bound: requests that write
  MaxCrashes    \* bound: restarts

\* A setup: durable, whether there is a data directory; batches, the lists of
\* writes that clients send; creates, the documents they create, [name, fields];
\* edits, saves and clones, what the console is asked for, [name, field, new, value],
\* [name, field, value] and [root, to]; clears, the databases they clear; tokens, a
\* bound: the transactions they begin.

Database(name) == name[1]

Contents == [Fields -> Values \cup {None}]
Document == [fields : Contents, time : 1..MaxClock]

\* A write and its precondition.
Condition == [is : {"any", "exists", "absent", "time"}, at : 0..MaxClock]
Mutation == [kind : {"update", "delete"}, name : Names, fields : Contents,
             mask : SUBSET Fields, cond : Condition]

ASSUME FirestoreAssumption ==
  /\ \A s \in Setups :
       /\ s.durable \in BOOLEAN /\ s.tokens \in Nat
       /\ s.batches \subseteq Seq(Mutation) /\ s.clears \subseteq Databases
       /\ s.creates \subseteq [name : Names, fields : Contents]
       /\ s.edits \subseteq [name : Names, field : Fields, new : Fields, value : Values]
       /\ s.saves \subseteq [name : Names, field : Fields, value : Values]
       /\ \A x \in s.clones :
            /\ x.root \in Names /\ IsFiniteSet(DOMAIN x.to) /\ DOMAIN x.to \subseteq Names
            /\ \A name \in DOMAIN x.to : x.to[name] \in Names
  /\ \A name \in Names : Database(name) \in Databases
  /\ AutoNames \in Seq(Names)
  /\ {MaxClock, MaxCrashes} \subseteq Nat
  /\ None \notin Values \cup Calls \cup Databases \cup Names /\ None \notin Document

VARIABLES
  setup,    \* the setup of this behaviour
  docs,     \* the documents: fields and update_time, or None
  next_id,  \* the counter of automatic ids
  tokens,   \* Store.transactions
  lock,     \* the handler that holds Store's lock while it waits, or None
  jobs,     \* the writer's queue
  calls,
  clock,
  events,   \* history: the events of each document since the last clear
  lost,     \* history: the documents of which an event was dropped since then
  begun,    \* history: the transactions begun
  commits,  \* history: the tokens of the commits that were acknowledged
  crashes

durable == setup.durable

eventVars == <<events, lost>>
vars == <<setup, docs, next_id, tokens, lock, jobs, calls, clock, events, lost, begun, commits, crashes>>

Token == [n : 1..setup.tokens, db : Databases]

\* A precondition: none, exists(true), exists(false), or an update_time.
Always == [is |-> "any", at |-> 0]
Exists == [is |-> "exists", at |-> 0]
Absent == [is |-> "absent", at |-> 0]
UpdateTime(time) == [is |-> "time", at |-> time]

\* An update without a mask is one whose mask has every field.
Update(name, fields, mask, cond) ==
  [kind |-> "update", name |-> name, fields |-> fields, mask |-> mask, cond |-> cond]
Delete(name, cond) ==
  [kind |-> "delete", name |-> name, fields |-> [f \in Fields |-> None], mask |-> {},
   cond |-> cond]

\* A handler.  seen: history, the documents that the console has read.
Idle == [step |-> "idle", op |-> "none", db |-> None, writes |-> <<>>, token |-> None,
         at |-> 0, seen |-> <<>>]
Steps == {"idle", "lock", "job", "done", "refused"}
Ops == {"none", "commit", "batch", "write", "create", "auto", "clear", "edit", "save", "clone"}
Call == [step : Steps, op : Ops, db : Databases \cup {None}, writes : Seq(Mutation),
         token : Token \cup {None}, at : 0..MaxClock, seen : Seq(Document)]
Event == [before : Contents \cup {None}, after : Contents \cup {None}]

\* The requests that are a commit.
Committing == {"commit", "edit", "save", "clone"}
TakesLock(op) == ~durable \/ op \in Committing \cup {"clear"}

Init ==
  /\ setup \in Setups
  /\ docs = [n \in Names |-> None] /\ next_id = 0 /\ tokens = {} /\ lock = None
  /\ jobs = <<>> /\ calls = [c \in Calls |-> Idle] /\ clock = 0
  /\ events = [n \in Names |-> <<>>] /\ lost = {} /\ begun = 0 /\ commits = <<>> /\ crashes = 0

-----------------------------------------------------------------------------
(* Writes.                                                                 *)
check_precondition(existing, cond) ==
  \/ cond.is = "any"
  \/ cond.is = "exists" /\ existing # None
  \/ cond.is = "absent" /\ existing = None
  \/ cond.is = "time" /\ existing # None /\ existing.time = cond.at

\* merge_document: the mask's fields as they come, the others as they are.
Merged(existing, write) ==
  [f \in Fields |-> IF f \in write.mask THEN write.fields[f]
                    ELSE IF existing = None THEN None ELSE existing.fields[f]]

apply_write(documents, write, at) ==
  [documents EXCEPT ![write.name] =
     IF write.kind = "delete" THEN None ELSE [fields |-> Merged(@, write), time |-> at]]

\* The writes in their order: the documents, and whether none was refused.
\* A refused write changes nothing and the next one follows.
Applied(writes, at) ==
  FoldLeft(LAMBDA r, w :
             IF check_precondition(r.docs[w.name], w.cond)
             THEN [r EXCEPT !.docs = apply_write(@, w, at)]
             ELSE [r EXCEPT !.ok = FALSE],
           [docs |-> docs, ok |-> TRUE], writes)

\* Mutant of Outcome: what came before the refused write stays.
OutcomePartial(call) == Applied(call.writes, call.at).docs

\* The documents after a request: only batch_write keeps what came before and
\* after a refused write.
Outcome(call) ==
  IF call.op = "batch" \/ Applied(call.writes, call.at).ok
  THEN Applied(call.writes, call.at).docs ELSE docs

Accepted(call) == call.op = "batch" \/ Applied(call.writes, call.at).ok

FieldsOf(document) == IF document = None THEN None ELSE document.fields

\* The documents whose fields differ: writes that change only a time, and deletes
\* of what is not there, have no event.
Changed(old, new) == {n \in Names : FieldsOf(old[n]) # FieldsOf(new[n])}

\* Mutant of Recorded: the documents that the request creates are left out.
RecordedOld(old, new, dropped) ==
  [n \in Names |->
     IF old[n] = None \/ n \notin Changed(old, new) \ dropped THEN events[n]
     ELSE Append(events[n], [before |-> FieldsOf(old[n]), after |-> FieldsOf(new[n])])]

\* document_outbox_records, documents_changed and document_changed: one event
\* for each changed document, but those dropped.
Recorded(old, new, dropped) ==
  [n \in Names |->
     IF n \notin Changed(old, new) \ dropped THEN events[n]
     ELSE Append(events[n], [before |-> FieldsOf(old[n]), after |-> FieldsOf(new[n])])]

\* In memory an event is enqueued, which drops it when the channel is full, and the
\* write stays; the dispatcher may take events out meanwhile, so any can be dropped.
Write(call) ==
  /\ docs' = Outcome(call)
  /\ \E dropped \in SUBSET Changed(docs, docs') :
       /\ durable => dropped = {}
       /\ events' = Recorded(docs, docs', dropped)
       /\ lost' = lost \cup dropped

\* clear_database: no events.
Clear(db) ==
  /\ docs' = [n \in Names |-> IF Database(n) = db THEN None ELSE docs[n]]
  /\ events' = [n \in Names |-> IF Database(n) = db THEN <<>> ELSE events[n]]
  /\ lost' = {n \in lost : Database(n) # db}

-----------------------------------------------------------------------------
(* Handlers.                                                               *)
Return(c) == calls' = [calls EXCEPT ![c] = Idle]

\* Mutant of Unlocked: the lock is kept when a request ends.
UnlockedNever(c) == lock

\* The lock when the handler c ends or is dropped.
Unlocked(c) == IF lock = c THEN None ELSE lock

\* A request reads the clock and waits for the lock or queues its job.
Begin(c, op, db, writes, token, seen) ==
  /\ calls[c] = Idle
  /\ clock < MaxClock /\ clock' = clock + 1
  /\ LET call == [step |-> IF TakesLock(op) THEN "lock" ELSE "job", op |-> op, db |-> db,
                  writes |-> writes, token |-> token, at |-> clock + 1, seen |-> seen] IN
     /\ calls' = [calls EXCEPT ![c] = call]
     /\ jobs' = IF TakesLock(op) THEN jobs ELSE Append(jobs, [caller |-> c, call |-> call])
  /\ UNCHANGED <<docs, next_id, tokens, lock, eventVars, begun, commits, crashes>>

\* validate_writes_database.
OfDatabase(writes, db) == \A i \in DOMAIN writes : Database(writes[i].name) = db

\* commit, with or without a token, and batch_write.  Only persistent_writes
\* refuses writes of another database.
BeginCommit(c, db, writes, token) ==
  (durable => OfDatabase(writes, db)) /\ Begin(c, "commit", db, writes, token, <<>>)
BeginBatch(c, db, writes) ==
  (durable => OfDatabase(writes, db)) /\ Begin(c, "batch", db, writes, None, <<>>)

\* update_document and delete_document.
BeginWrite(c, write) == Begin(c, "write", Database(write.name), <<write>>, None, <<>>)

\* create_document, with an id or (auto) without one.
BeginCreate(c, name, fields, auto) ==
  Begin(c, IF auto THEN "auto" ELSE "create", Database(name),
        <<Update(name, fields, Fields, Absent)>>, None, <<>>)

BeginClear(c, db) == Begin(c, "clear", db, <<>>, None, <<>>)

-----------------------------------------------------------------------------
(* The console: it reads, then commits what it has computed.               *)
\* Mutant of EditOf: the document need only exist.
EditOfExisting(name, mask, fields) == Update(name, fields, mask, Exists)

\* mutate_field's write, for the document as it was read.
EditOf(name, mask, fields) == Update(name, fields, mask, UpdateTime(docs[name].time))

\* mutate_field, on a document unchanged since the browser has loaded it.
BeginEdit(c, name, field, new, value) ==
  LET fields == docs[name].fields
      Nothing == [f \in Fields |-> None] IN
  /\ docs[name] # None
  /\ \E mask \in SUBSET Fields, change \in [Fields -> Values \cup {None}] :
       /\ \/ \* add
             fields[field] = None /\ mask = {field} /\ change = [Nothing EXCEPT ![field] = value]
          \/ \* delete
             fields[field] # None /\ mask = {field} /\ change = Nothing
          \/ \* rename
             /\ new # field /\ fields[field] # None /\ fields[new] = None
             /\ mask = {field, new} /\ change = [Nothing EXCEPT ![new] = fields[field]]
       /\ Begin(c, "edit", Database(name), <<EditOf(name, mask, change)>>, None, <<docs[name]>>)

\* update_field, the Save beside a field, for the document that the browser has
\* just loaded: it must exist when the commit runs, changed or not.
BeginSave(c, name, field, value) ==
  /\ docs[name] # None /\ docs[name].fields[field] \notin {None, value}
  /\ Begin(c, "save", Database(name),
           <<Update(name, [f \in Fields |-> IF f = field THEN value ELSE None], {field}, Exists)>>,
           None, <<docs[name]>>)

\* clone_document's writes, for the documents it has read.
Copies(sources, to) ==
  [i \in DOMAIN sources |-> Update(to[sources[i]], docs[sources[i]].fields, Fields, Absent)]

\* clone_document: the root and, if asked for, what is below it.
BeginClone(c, clone) ==
  LET sources == SetToSeq({n \in DOMAIN clone.to : docs[n] # None}) IN
  /\ docs[clone.root] # None
  /\ Begin(c, "clone", Database(clone.root), Copies(sources, clone.to), None,
           [i \in DOMAIN sources |-> docs[sources[i]]])

-----------------------------------------------------------------------------
(* In memory: everything under the lock.                                   *)
Named(call) ==
  IF call.op = "auto" THEN [call EXCEPT !.writes[1].name = AutoNames[next_id + 1]] ELSE call

NumberLeft(call) == call.op = "auto" => next_id < Len(AutoNames)

\* validate_transaction.
ValidToken(call) ==
  call.token # None => call.token \in tokens /\ call.token.db = call.db

\* Mutant of AfterCommit: the token stays.
AfterCommitKeeps(call) == tokens

\* The tokens after a commit or a clear.
AfterCommit(call) ==
  IF call.op = "clear" THEN {t \in tokens : t.db # call.db} ELSE tokens \ {call.token}

\* The commit is acknowledged.
Acknowledged(call) ==
  /\ tokens' = AfterCommit(call)
  /\ commits' = IF call.token = None THEN commits ELSE Append(commits, call.token)

Apply(c) ==
  LET call == Named(calls[c]) IN
  /\ ~durable /\ calls[c].step = "lock" /\ NumberLeft(calls[c]) /\ ValidToken(call)
  /\ next_id' = IF call.op = "auto" THEN next_id + 1 ELSE next_id
  /\ IF call.op = "clear" THEN Clear(call.db) ELSE Write(call)
  /\ IF Accepted(call) THEN Acknowledged(call) ELSE UNCHANGED <<tokens, commits>>
  /\ Return(c)
  /\ UNCHANGED <<lock, jobs, clock, begun, crashes>>

(* Durable: commit and clear_database take the lock and queue their job.   *)
TakeLock(c) ==
  /\ durable /\ calls[c].step = "lock" /\ lock = None
  /\ ValidToken(calls[c])
  /\ lock' = c
  /\ calls' = [calls EXCEPT ![c].step = "job"]
  /\ jobs' = Append(jobs, [caller |-> c, call |-> calls[c]])
  /\ UNCHANGED <<docs, next_id, tokens, clock, eventVars, begun, commits, crashes>>

RefuseToken(c) ==
  /\ calls[c].step = "lock" /\ lock = None /\ ~ValidToken(calls[c])
  /\ Return(c)
  /\ UNCHANGED <<docs, next_id, tokens, lock, jobs, clock, eventVars, begun, commits, crashes>>

Answer(step) ==
  LET c == Head(jobs).caller IN
  calls' = IF c = None THEN calls ELSE [calls EXCEPT ![c].step = step]

\* The writer runs the oldest job, one transaction, also when nobody waits for
\* it any more.  A refused automatic id is not counted.
RunJob ==
  LET call == Named(Head(jobs).call) IN
  /\ jobs # <<>> /\ NumberLeft(Head(jobs).call) /\ jobs' = Tail(jobs)
  /\ IF call.op = "clear" THEN Clear(call.db) ELSE Write(call)
  /\ next_id' = IF call.op = "auto" /\ Accepted(call) THEN next_id + 1 ELSE next_id
  /\ Answer(IF Accepted(call) THEN "done" ELSE "refused")
  /\ UNCHANGED <<tokens, lock, clock, begun, commits, crashes>>

\* The transaction fails: the outbox is full, or SQLite.
FailJob ==
  /\ jobs # <<>> /\ jobs' = Tail(jobs)
  /\ Answer("refused")
  /\ UNCHANGED <<docs, next_id, tokens, lock, clock, eventVars, begun, commits, crashes>>

\* The handler goes on after its job.
Resume(c) ==
  /\ calls[c].step \in {"done", "refused"}
  /\ IF calls[c].step = "done" THEN Acknowledged(calls[c]) ELSE UNCHANGED <<tokens, commits>>
  /\ lock' = Unlocked(c)
  /\ Return(c)
  /\ UNCHANGED <<docs, next_id, jobs, clock, eventVars, begun, crashes>>

-----------------------------------------------------------------------------
\* begin_transaction; batch_get_documents and run_query begin one too.
begin_transaction(db) ==
  /\ lock = None /\ begun < setup.tokens /\ begun' = begun + 1
  /\ tokens' = tokens \cup {[n |-> begun + 1, db |-> db]}
  /\ UNCHANGED <<docs, next_id, lock, jobs, calls, clock, eventVars, commits, crashes>>

rollback(t) ==
  /\ lock = None /\ t \in tokens
  /\ tokens' = tokens \ {t}
  /\ UNCHANGED <<docs, next_id, lock, jobs, calls, clock, eventVars, begun, commits, crashes>>

\* The client goes away: the handler is dropped where it waits, its job is not.
Leave(c) ==
  /\ calls[c] # Idle
  /\ lock' = Unlocked(c)
  /\ jobs' = [i \in DOMAIN jobs |->
                IF jobs[i].caller = c THEN [jobs[i] EXCEPT !.caller = None] ELSE jobs[i]]
  /\ Return(c)
  /\ UNCHANGED <<docs, next_id, tokens, clock, eventVars, begun, commits, crashes>>

Restart ==
  /\ crashes < MaxCrashes /\ crashes' = crashes + 1
  /\ tokens' = {} /\ lock' = None /\ jobs' = <<>> /\ calls' = [c \in Calls |-> Idle]
  /\ IF durable THEN UNCHANGED <<docs, next_id, eventVars>>
     ELSE /\ docs' = [n \in Names |-> None] /\ next_id' = 0
          /\ events' = [n \in Names |-> <<>>] /\ lost' = {}
  /\ UNCHANGED <<clock, begun, commits>>

Handler(c) == Apply(c) \/ TakeLock(c) \/ RefuseToken(c) \/ Resume(c)

Request(c) ==
  \/ \E db \in Databases, b \in setup.batches, t \in tokens \cup {None} :
       BeginCommit(c, db, b, t)
  \/ \E db \in Databases, b \in setup.batches : Len(b) > 1 /\ BeginBatch(c, db, b)
  \/ \E b \in setup.batches : Len(b) = 1 /\ BeginWrite(c, b[1])
  \/ \E x \in setup.creates, auto \in BOOLEAN : BeginCreate(c, x.name, x.fields, auto)
  \/ \E db \in setup.clears : BeginClear(c, db)
  \/ \E e \in setup.edits : BeginEdit(c, e.name, e.field, e.new, e.value)
  \/ \E s \in setup.saves : BeginSave(c, s.name, s.field, s.value)
  \/ \E clone \in setup.clones : BeginClone(c, clone)

Next ==
  /\ \/ \E c \in Calls : Handler(c) \/ Request(c) \/ Leave(c)
     \/ RunJob \/ FailJob \/ Restart
     \/ \E db \in Databases : begin_transaction(db)
     \/ \E t \in tokens : rollback(t)
  /\ UNCHANGED setup

Spec == Init /\ [][Next]_vars
-----------------------------------------------------------------------------
TypeOK ==
  /\ setup \in Setups /\ docs \in [Names -> Document \cup {None}]
  /\ next_id \in 0..Len(AutoNames) /\ tokens \subseteq Token
  /\ lock \in Calls \cup {None}
  /\ jobs \in Seq([caller : Calls \cup {None}, call : Call])
  /\ calls \in [Calls -> Call]
  /\ clock \in 0..MaxClock /\ begun \in 0..setup.tokens /\ crashes \in 0..MaxCrashes
  /\ events \in [Names -> Seq(Event)] /\ lost \subseteq Names /\ commits \in Seq(Token)

(* The events of a document since the last clear tell its whole story,     *)
(* unless one of them was dropped: each begins with the fields where the   *)
(* one before it ended, and the last ends with the fields that the         *)
(* document has, whatever writes, batches, clears, cancelled requests and  *)
(* restarts come together.  With a data directory none is dropped.         *)
EventsTellTheStory ==
  /\ durable => lost = {}
  /\ \A n \in Names \ lost :
       LET story == <<[before |-> None, after |-> None]>> \o events[n] IN
       /\ \A i \in 1..(Len(story) - 1) : story[i + 1].before = story[i].after
       /\ story[Len(story)].after = FieldsOf(docs[n])

\* A field of a document, or of none.
FieldOf(document, f) == IF document = None THEN None ELSE document.fields[f]

LastOf(i, S) == i \in S /\ \A j \in S : j <= i

\* What writes leave of the documents old, said of each document by its last write
\* and of each field by the last write that concerns it.
Leaves(writes, at, old, new) ==
  \A n \in Names :
    LET mine == {i \in DOMAIN writes : writes[i].name = n}
        Concerning(f) == {i \in mine : writes[i].kind = "delete" \/ f \in writes[i].mask} IN
    /\ mine = {} => new[n] = old[n]
    /\ \A i \in DOMAIN writes : LastOf(i, mine) =>
         /\ new[n] = None <=> writes[i].kind = "delete"
         /\ new[n] # None => new[n].time = at
    /\ \A f \in Fields :
         /\ Concerning(f) = {} => FieldOf(new[n], f) = FieldOf(old[n], f)
         /\ \A i \in DOMAIN writes : LastOf(i, Concerning(f)) =>
              FieldOf(new[n], f) = IF writes[i].kind = "delete" THEN None ELSE writes[i].fields[f]

\* The step runs the oldest job.
JobRuns == jobs # <<>> /\ jobs' = Tail(jobs)

\* The requests that a step runs: under the lock in memory, or as the oldest job.
Run ==
  {calls[c] : c \in {d \in Calls : calls[d].step = "lock" /\ calls'[d] = Idle}}
  \cup IF JobRuns THEN {Head(jobs).call} ELSE {}

(* A commit applies all of its writes or none: documents change only in a  *)
(* step that runs a request, and where that is a commit they are, all of   *)
(* them, what they were or what all its writes leave; they are what the    *)
(* writes leave when a waiting handler is told of success, and what they   *)
(* were when it is told of a failure.  A restart ends all requests.        *)
CommitIsAtomic ==
  [][crashes' = crashes =>
       /\ docs' # docs => Run # {}
       /\ \A x \in Run : x.op \in Committing =>
            docs' = docs \/ Leaves(x.writes, x.at, docs, docs')
       /\ JobRuns /\ Head(jobs).call.op \in Committing /\ Head(jobs).caller # None =>
            LET x == Head(jobs).call
                step == calls'[Head(jobs).caller].step IN
            /\ step = "done" => Leaves(x.writes, x.at, docs, docs')
            /\ step = "refused" => docs' = docs]_vars

(* The field actions (add, rename, delete) and the clones of the console   *)
(* lose no update: where one of their writes takes effect the document is  *)
(* still what the console took it for, the one it had read for an action   *)
(* on a field, and none for a clone ("Cloning never overwrites documents", *)
(* ui.rs, docs/CONSOLE.md).  The Save beside a field promises less, see    *)
(* SaveSeesChanges.                                                        *)
ConsoleLosesNothing ==
  [][\A n \in Names :
       docs'[n] # docs[n] /\ docs'[n] # None =>
         \A call \in {calls[c] : c \in Calls} \cup {jobs[i].call : i \in DOMAIN jobs} :
           call.at = docs'[n].time =>
             /\ call.op = "edit" => docs[n] = call.seen[1]
             /\ call.op = "clone" => docs[n] = None]_docs

(* docs/CONSOLE.md: "The console reports [...] changes made after the      *)
(* document was loaded."  Of the Save beside a field, at least for the     *)
(* field that it writes: where it takes effect the field is still as the   *)
(* browser had loaded it.  It is not so: update_field demands only that    *)
(* the document exists, and writes over the change.                        *)
SaveSeesChanges ==
  [][\A n \in Names :
       docs'[n] # docs[n] /\ docs'[n] # None =>
         \A call \in {calls[c] : c \in Calls} \cup {jobs[i].call : i \in DOMAIN jobs} :
           call.at = docs'[n].time /\ call.op = "save" =>
             \A f \in call.writes[1].mask : FieldOf(docs[n], f) = call.seen[1].fields[f]]_docs

(* At most one commit of a transaction is acknowledged ("commit consumes   *)
(* it": the test transaction_token_is_nonempty_and_commit_consumes_it),    *)
(* whatever commits, rollbacks, clears, clients that leave and restarts    *)
(* meet.                                                                   *)
TokenCommitsOnce ==
  \A i, j \in DOMAIN commits : commits[i] = commits[j] => i = j

(* No handler waits for ever: a handler that waits for its job has exactly *)
(* one in the writer's queue, and the lock that a commit keeps over that   *)
(* wait is never left behind by a handler that has ended.                  *)
EveryWaiterIsServed ==
  /\ \A c \in Calls :
       calls[c].step = "job" =>
         Cardinality({i \in DOMAIN jobs : jobs[i].caller = c}) = 1
  /\ lock # None => TakesLock(calls[lock].op) /\ calls[lock].step \in {"job", "done", "refused"}

-----------------------------------------------------------------------------
(* What the properties above rest on.                                      *)
IsSequence(s) == s \in Seq(Range(s))

\* A handler that has queued its job and has not gone on after it.
Waits(c) == calls[c].step \in {"job", "done", "refused"}

HandlersOK ==
  /\ DOMAIN calls = Calls
  /\ \A c \in Calls :
       /\ DOMAIN calls[c] = DOMAIN Idle /\ calls[c].step \in Steps
       /\ calls[c].step = "lock" => TakesLock(calls[c].op)
       /\ calls[c].token # None => calls[c].op = "commit"

\* The jobs that somebody waits for are one for each who waits.
JobsOK ==
  /\ IsSequence(jobs) /\ \A i \in 1..Len(jobs) : DOMAIN jobs[i] = {"caller", "call"}
  /\ \A i \in 1..Len(jobs) : jobs[i].caller # None =>
       /\ jobs[i].caller \in Calls /\ calls[jobs[i].caller].step = "job"
       /\ \A j \in 1..Len(jobs) : jobs[j].caller = jobs[i].caller => j = i
  /\ \A c \in Calls : calls[c].step = "job" => \E i \in 1..Len(jobs) : jobs[i].caller = c

\* Who waits with a data directory holds the lock, if its request takes it.
LockOK ==
  /\ lock # None => lock \in Calls /\ durable /\ Waits(lock) /\ TakesLock(calls[lock].op)
  /\ \A c \in Calls : Waits(c) => durable /\ (TakesLock(calls[c].op) => lock = c)

\* A token that a waiting commit has validated is still there; one that was
\* acknowledged is gone and its number is not given out again.
TokensOK ==
  /\ begun \in Nat /\ \A t \in tokens : t.n \in 1..begun
  /\ \A c \in Calls : Waits(c) /\ calls[c].token # None => calls[c].token \in tokens
  /\ IsSequence(commits)
  /\ \A i \in 1..Len(commits) : commits[i].n \in 1..begun /\ commits[i] \notin tokens

\* The requests of handlers and of jobs, and those of them that have not been run.
Queued == {jobs[i].call : i \in DOMAIN jobs}
Requested == {calls[c] : c \in Calls} \cup Queued
ToRun == {calls[c] : c \in {d \in Calls : calls[d].step = "lock"}} \cup Queued

\* A reading of the clock belongs to one request: to its handler, and to its
\* job or to its place in the line for the lock.
ReadingsOK ==
  /\ \A x \in Requested : x.at <= clock
  /\ \A x, y \in Requested : x.at = y.at /\ x.at # 0 =>
       x.op = y.op /\ x.writes = y.writes /\ x.seen = y.seen
  /\ \A c, d \in Calls : calls[c].at = calls[d].at => c = d \/ calls[c].at = 0
  /\ \A i, j \in DOMAIN jobs : jobs[i].call.at = jobs[j].call.at => i = j
  /\ \A c \in Calls : calls[c].step = "lock" => \A x \in Queued : x.at # calls[c].at

\* What has not been run has written no document, and nobody has read one of it.
ToRunOK ==
  \A x \in ToRun :
    /\ x.at # 0
    /\ \A n \in Names : docs[n] # None => docs[n].time # x.at
    /\ \A y \in Requested : \A i \in DOMAIN y.seen : y.seen[i].time # x.at

\* The times of documents, stored and read, are past.
TimesOK ==
  /\ \A n \in Names : docs[n] # None => docs[n].time <= clock
  /\ \A x \in Requested : \A i \in DOMAIN x.seen : x.seen[i].time <= clock

\* An edit demands the document that it has read, whose time tells it from every
\* other; a clone demands that there is none.
ConsoleOK ==
  \A x \in Requested :
    /\ x.op = "edit" =>
         /\ Len(x.writes) = 1 /\ Len(x.seen) = 1
         /\ x.writes[1].cond = UpdateTime(x.seen[1].time)
         /\ LET doc == docs[x.writes[1].name] IN
            doc # None /\ doc.time = x.seen[1].time => doc = x.seen[1]
    /\ x.op = "clone" => \A i \in DOMAIN x.writes : x.writes[i].cond = Absent
=============================================================================
