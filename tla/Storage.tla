------------------------------- MODULE Storage ------------------------------
(***************************************************************************)
(* Persistent Storage (storage.rs): object rows in SQLite, immutable bytes *)
(* in blob files.  An upload writes a temporary file, flushes and renames  *)
(* it, takes the blob_lifecycle lock, commits the row and unlinks the blob *)
(* it replaced; a download selects the row and reads its blob under the    *)
(* shared side of the lock; startup reconciles rows and files.             *)
(*                                                                         *)
(* A request can be dropped at every await: its lock is released, but a    *)
(* job it queued for the writer thread and file operations it handed to    *)
(* the blocking pool still run.  The process can crash and the machine can *)
(* lose power.  A request is a number, and is also the name of the blob it *)
(* writes (a fresh UUID).                                                  *)
(***************************************************************************)
EXTENDS Naturals, FiniteSets, SequencesExt

CONSTANTS
  Objects,       \* bucket and name
  Sessions,      \* resumable uploads
  MaxUpload,     \* MAX_UPLOAD_BYTES
  UploadTTL,     \* RESUMABLE_UPLOAD_TTL_SECS
  QueueSize,     \* WRITER_QUEUE_CAPACITY
  MaxRequests,   \* bound: requests of a behaviour
  Setups         \* bounds: [sessions, chunks, requests, faults], the resumable uploads
                 \* that clients make, the chunks they send, and how many requests and
                 \* crashes, power losses and errors a behaviour has

Requests == 1..MaxRequests

\* A chunk: size bytes of the client's file after the first offset ones, and
\* whether its request names the offset (x-goog-upload-offset).
Chunk == [offset : Nat, size : Nat, named : BOOLEAN]

ASSUME StorageAssumption ==
  /\ {MaxUpload, UploadTTL, MaxRequests} \subseteq Nat
  /\ \A s \in Setups : s.sessions \subseteq Sessions /\ s.chunks \subseteq Chunk /\ {s.requests, s.faults} \subseteq Nat
  /\ QueueSize \in Nat \ {0}
  /\ Objects # {}

VARIABLES
  setup,     \* the bounds of this behaviour
  up,        \* "down", "checking", "removing" (recover_blobs), "serving" or "corrupt"
  pc,        \* where each request is
  op,        \* of each request: its kind and object
  victim,    \* of each request: the file it will unlink, or is reading; 0 for none
  file,      \* where the blob of each request is
  task,      \* of each request: its write in the blocking pool
  unlinks,   \* removals handed to the blocking pool
  rows,      \* storage_objects: blob and generation; blob 0 when there is no row
  gen,       \* counters.value of 'storage_generation'
  lockq,     \* holders of and waiters for blob_lifecycle, in FIFO order
  jobs,      \* the queue of the writer thread
  uploads,   \* the resumable sessions
  applied,   \* history: the requests that took effect
  faults

reqVars == <<pc, op, victim>>
fileVars == <<file, task, unlinks>>
rowVars == <<rows, gen, applied>>
vars == <<up, reqVars, fileVars, rowVars, lockq, jobs, uploads, faults>>

Ops == [kind : {"put", "delete", "get"}, obj : Objects]

PCs == {"new", "writing", "lock", "job", "cleanup", "unlink", "read",
        "ok", "error", "missing", "gone"}

\* A blob's file: in tmp/, renamed into blobs/ but not flushed, in blobs/, or
\* removed from blobs/ but not flushed.
Files == {"none", "temp", "renamed", "stored", "unlinked"}
InBlobs(f) == f \in {"renamed", "stored"}

NoRow == [blob |-> 0, gen |-> 0]

\* A resumable session.  blind: history, a chunk came without its offset.
NoUpload == [state |-> "unused", bytes |-> <<>>, age |-> 0, blind |-> FALSE]
Upload == [state : {"unused", "open", "closed"}, bytes : Seq(Nat), age : Nat, blind : BOOLEAN]

Init ==
  /\ setup \in Setups
  /\ up = "down"
  /\ pc = [r \in Requests |-> "new"]
  /\ op = [r \in Requests |-> CHOOSE x \in Ops : TRUE]  \* set when the request begins
  /\ victim = [r \in Requests |-> 0]
  /\ file = [r \in Requests |-> "none"] /\ task = [r \in Requests |-> "none"]
  /\ unlinks = {}
  /\ rows = [o \in Objects |-> NoRow] /\ gen = 0
  /\ lockq = <<>> /\ jobs = <<>>
  /\ uploads = [u \in Sessions |-> NoUpload]
  /\ applied = {} /\ faults = 0

Fault == faults < setup.faults /\ faults' = faults + 1

Referenced == {rows[o].blob : o \in Objects} \ {0}

-----------------------------------------------------------------------------
(* The tokio RwLock serves its queue in order.                             *)
Shared(r) == op[r].kind = "get"

Granted(r) ==
  \E i \in 1..Len(lockq) :
    /\ lockq[i] = r
    /\ i = 1 \/ (Shared(r) /\ \A j \in 1..(i - 1) : Shared(lockq[j]))

Unlocked(r) == RemoveFirst(lockq, r)  \* it is there at most once

\* The request ends with pc st and drops its lock.
Finish(r, st) ==
  /\ pc' = [pc EXCEPT ![r] = st]
  /\ lockq' = Unlocked(r)

-----------------------------------------------------------------------------
(* Uploads.                                                                *)
\* Requests begin in the order of their numbers.
Begin(r, kind, o) ==
  /\ up = "serving" /\ pc[r] = "new" /\ r <= setup.requests
  /\ \A q \in 1..(r - 1) : pc[q] # "new"
  /\ op' = [op EXCEPT ![r] = [kind |-> kind, obj |-> o]]

\* save_persistent_object hands its file to the blocking pool.
BeginSave(r, o) ==
  /\ Begin(r, "put", o)
  /\ pc' = [pc EXCEPT ![r] = "writing"]
  /\ task' = [task EXCEPT ![r] = "run"]
  /\ UNCHANGED <<up, victim, file, unlinks, rowVars, lockq, jobs, faults>>

save_object(r, o) == BeginSave(r, o) /\ UNCHANGED uploads

\* One step of the blocking task: create and flush, rename, flush the directory.
TaskStep(r) ==
  /\ task[r] = "run"
  /\ \/ file[r] = "none" /\ file' = [file EXCEPT ![r] = "temp"] /\ UNCHANGED task
     \/ file[r] = "temp" /\ file' = [file EXCEPT ![r] = "renamed"] /\ UNCHANGED task
     \/ file[r] = "renamed" /\ file' = [file EXCEPT ![r] = "stored"]
        /\ task' = [task EXCEPT ![r] = "ok"]
  /\ UNCHANGED <<up, reqVars, unlinks, rowVars, lockq, jobs, uploads, faults>>

TaskError(r) ==
  /\ task[r] = "run" /\ Fault
  /\ task' = [task EXCEPT ![r] = "err"]
  /\ UNCHANGED <<up, reqVars, file, unlinks, rowVars, lockq, jobs, uploads>>

\* The blob is in place: wait for the exclusive side of the lock.
SaveWritten(r) ==
  /\ pc[r] = "writing" /\ task[r] = "ok"
  /\ pc' = [pc EXCEPT ![r] = "lock"]
  /\ lockq' = Append(lockq, r)
  /\ UNCHANGED <<up, op, victim, fileVars, rowVars, jobs, uploads, faults>>

\* An I/O error: the temporary file is removed, a renamed one stays.
SaveNotWritten(r) ==
  /\ pc[r] = "writing" /\ task[r] = "err"
  /\ file' = [file EXCEPT ![r] = IF @ = "temp" THEN "none" ELSE @]
  /\ pc' = [pc EXCEPT ![r] = "error"]
  /\ UNCHANGED <<up, op, victim, task, unlinks, rowVars, lockq, jobs, uploads, faults>>

-----------------------------------------------------------------------------
(* Deletes and the writer thread.                                          *)
delete_object(r, o) ==
  /\ Begin(r, "delete", o)
  /\ pc' = [pc EXCEPT ![r] = "lock"]
  /\ lockq' = Append(lockq, r)
  /\ UNCHANGED <<up, victim, fileVars, rowVars, jobs, uploads, faults>>

\* Mutant of Submit: queues the job before the lock is held.
SubmitUnlocked(r) ==
  /\ pc[r] = "lock" /\ ~Shared(r) /\ Len(jobs) < QueueSize
  /\ jobs' = Append(jobs, r)
  /\ pc' = [pc EXCEPT ![r] = "job"]
  /\ UNCHANGED <<up, op, victim, fileVars, rowVars, lockq, uploads, faults>>

\* With the lock held, a put or delete queues its job, when there is room.
Submit(r) ==
  /\ pc[r] = "lock" /\ ~Shared(r) /\ Granted(r) /\ Len(jobs) < QueueSize
  /\ jobs' = Append(jobs, r)
  /\ pc' = [pc EXCEPT ![r] = "job"]
  /\ UNCHANGED <<up, op, victim, fileVars, rowVars, lockq, uploads, faults>>

\* A request that still waits is told, and will unlink file b.
Reply(r, b) ==
  /\ pc' = [pc EXCEPT ![r] = IF @ = "job" THEN "cleanup" ELSE @]
  /\ victim' = [victim EXCEPT ![r] = b]

(* The writer thread runs the first job, one transaction: the row, the     *)
(* generation counter and the event.                                       *)
RunJob ==
  /\ jobs # <<>>
  /\ LET r == Head(jobs) o == op[r].obj IN
       /\ \/ /\ op[r].kind = "put"
             /\ gen' = gen + 1
             /\ rows' = [rows EXCEPT ![o] = [blob |-> r, gen |-> gen + 1]]
          \/ /\ op[r].kind = "delete"
             /\ rows' = [rows EXCEPT ![o] = NoRow] /\ UNCHANGED gen
       /\ applied' = applied \cup {r}
       /\ Reply(r, rows[o].blob)
  /\ jobs' = Tail(jobs)
  /\ UNCHANGED <<up, op, fileVars, lockq, uploads, faults>>

\* Mutant of RunJobError: the blob of the row is taken for the request's own.
RunJobErrorOld ==
  /\ jobs # <<>> /\ Fault
  /\ LET r == Head(jobs) IN Reply(r, rows[op[r].obj].blob)
  /\ jobs' = Tail(jobs)
  /\ UNCHANGED <<up, op, fileVars, rowVars, lockq, uploads>>

\* Mutant of RunJobError: the request is not told.
RunJobErrorSilent ==
  /\ jobs # <<>> /\ Fault
  /\ jobs' = Tail(jobs)
  /\ UNCHANGED <<up, reqVars, fileVars, rowVars, lockq, uploads>>

\* SQLite fails, or the outbox is full: rolled back; a put unlinks its own blob.
RunJobError ==
  /\ jobs # <<>> /\ Fault
  /\ LET r == Head(jobs) IN Reply(r, IF op[r].kind = "put" THEN r ELSE 0)
  /\ jobs' = Tail(jobs)
  /\ UNCHANGED <<up, op, fileVars, rowVars, lockq, uploads>>

Outcome(r) == IF r \in applied THEN "ok" ELSE "error"

\* Still holding the lock: hand the removal to the blocking pool, if there is one.
CleanUp(r) ==
  /\ pc[r] = "cleanup"
  /\ \/ /\ victim[r] = 0
        /\ Finish(r, Outcome(r)) /\ UNCHANGED unlinks
     \/ /\ victim[r] # 0
        /\ unlinks' = unlinks \cup {victim[r]}
        /\ pc' = [pc EXCEPT ![r] = "unlink"] /\ UNCHANGED lockq
  /\ UNCHANGED <<up, op, victim, file, task, rowVars, jobs, uploads, faults>>

\* The pool removes a file; an error is ignored.
Unlink(b) ==
  /\ b \in unlinks
  /\ unlinks' = unlinks \ {b}
  /\ \/ file' = [file EXCEPT ![b] = IF InBlobs(@) THEN "unlinked" ELSE @] /\ UNCHANGED faults
     \/ Fault /\ UNCHANGED file
  /\ UNCHANGED <<up, reqVars, task, rowVars, lockq, jobs, uploads>>

CleanedUp(r) ==
  /\ pc[r] = "unlink" /\ victim[r] \notin unlinks
  /\ Finish(r, Outcome(r))
  /\ UNCHANGED <<up, op, victim, fileVars, rowVars, jobs, uploads, faults>>

-----------------------------------------------------------------------------
(* Downloads (persistent_media).                                           *)
get_object(r, o) ==
  /\ Begin(r, "get", o)
  /\ pc' = [pc EXCEPT ![r] = "lock"]
  /\ lockq' = Append(lockq, r)
  /\ UNCHANGED <<up, victim, fileVars, rowVars, jobs, uploads, faults>>

\* Mutant of SelectRow: the shared lock is not held.
SelectRowUnlocked(r) ==
  /\ pc[r] = "lock" /\ Shared(r)
  /\ applied' = applied \cup {r}
  /\ victim' = [victim EXCEPT ![r] = rows[op[r].obj].blob]
  /\ pc' = [pc EXCEPT ![r] = "read"]
  /\ UNCHANGED <<up, op, fileVars, rows, gen, lockq, jobs, uploads, faults>>

\* persistent_object: the row, under the shared lock.
SelectRow(r) ==
  /\ pc[r] = "lock" /\ Shared(r) /\ Granted(r)
  /\ applied' = applied \cup {r}
  /\ victim' = [victim EXCEPT ![r] = rows[op[r].obj].blob]
  /\ pc' = [pc EXCEPT ![r] = "read"]
  /\ UNCHANGED <<up, op, fileVars, rows, gen, lockq, jobs, uploads, faults>>

\* Its answer: "not found" without a row, otherwise the bytes, if they are there.
load_blob(r) ==
  /\ pc[r] = "read"
  /\ Finish(r, IF victim[r] = 0 \/ InBlobs(file[victim[r]]) THEN "ok" ELSE "missing")
  /\ UNCHANGED <<up, op, victim, fileVars, rowVars, jobs, uploads, faults>>

-----------------------------------------------------------------------------
(* Resumable sessions, in memory; the data lock makes each request one     *)
(* step.  The bytes are their positions in the client's file.              *)
Pruned(u) ==
  IF uploads[u].state = "open" /\ uploads[u].age >= UploadTTL
  THEN [uploads[u] EXCEPT !.state = "closed"] ELSE uploads[u]

\* The sessions after the expired ones are pruned and u becomes s.
Session(u, s) == [v \in Sessions |-> IF v = u THEN s ELSE Pruned(v)]

StartUpload(u) ==
  /\ up = "serving" /\ uploads[u].state = "unused"
  /\ uploads' = Session(u, [NoUpload EXCEPT !.state = "open"])
  /\ UNCHANGED <<up, reqVars, fileVars, rowVars, lockq, jobs, faults>>

\* Mutant of Accepts: the offset is not compared.
AcceptsAnyOffset(u, chunk) ==
  /\ Pruned(u).state = "open"
  /\ Len(uploads[u].bytes) + chunk.size <= MaxUpload

\* The checks of resumable_put on a chunk: its offset only if it is named.
Accepts(u, chunk) ==
  /\ Pruned(u).state = "open"
  /\ chunk.named => chunk.offset = Len(uploads[u].bytes)
  /\ Len(uploads[u].bytes) + chunk.size <= MaxUpload

\* The session after the chunk is appended.
Extended(u, chunk) ==
  [uploads[u] EXCEPT !.bytes = @ \o [i \in 1..chunk.size |-> chunk.offset + i],
                     !.blind = @ \/ ~chunk.named]

PutChunk(u, chunk) ==
  /\ up = "serving" /\ Accepts(u, chunk)
  /\ uploads' = Session(u, Extended(u, chunk))
  /\ UNCHANGED <<up, reqVars, fileVars, rowVars, lockq, jobs, faults>>

\* The last chunk: the session is removed, then its bytes are saved.
FinalizeUpload(u, chunk, r, o) ==
  /\ Accepts(u, chunk)
  /\ uploads' = Session(u, [Extended(u, chunk) EXCEPT !.state = "closed"])
  /\ BeginSave(r, o)

CancelUpload(u) ==
  /\ up = "serving" /\ Pruned(u).state = "open"
  /\ uploads' = Session(u, [uploads[u] EXCEPT !.state = "closed"])
  /\ UNCHANGED <<up, reqVars, fileVars, rowVars, lockq, jobs, faults>>

Tick ==
  /\ \E u \in Sessions : uploads[u].state = "open" /\ uploads[u].age < UploadTTL
  /\ uploads' = [u \in Sessions |->
       IF uploads[u].state = "open" /\ uploads[u].age < UploadTTL
       THEN [uploads[u] EXCEPT !.age = @ + 1] ELSE uploads[u]]
  /\ UNCHANGED <<up, reqVars, fileVars, rowVars, lockq, jobs, faults>>

-----------------------------------------------------------------------------
(* Failures and startup.                                                   *)
Active(r) == pc[r] \in {"writing", "lock", "job", "cleanup", "unlink", "read"}

\* The client disconnects: the handler is dropped where it waits.
Drop(r) ==
  /\ Active(r) /\ Fault
  /\ Finish(r, "gone")
  /\ UNCHANGED <<up, op, victim, fileVars, rowVars, jobs, uploads>>

\* What is left of the process.
Stop ==
  /\ up' = "down"
  /\ pc' = [r \in Requests |-> IF Active(r) THEN "gone" ELSE pc[r]]
  /\ task' = [r \in Requests |-> "none"] /\ unlinks' = {}
  /\ lockq' = <<>> /\ jobs' = <<>>
  /\ uploads' = [u \in Sessions |-> IF uploads[u].state = "open"
                                    THEN [uploads[u] EXCEPT !.state = "closed"] ELSE uploads[u]]
  /\ UNCHANGED <<op, victim, rowVars>>

Crash ==
  /\ up \notin {"down", "corrupt"} /\ Fault
  /\ Stop
  /\ UNCHANGED file

\* What a file may be after the power went: directory changes count when flushed.
Survives(f) ==
  CASE f = "temp" -> {"temp", "none"}
    [] f = "renamed" -> {"temp", "stored", "none"}
    [] f = "unlinked" -> {"stored", "none"}
    [] f \in {"none", "stored"} -> {f}

\* SQLite commits are flushed (WAL, synchronous=FULL), so rows stay.
PowerLoss ==
  /\ up # "corrupt" /\ Fault
  /\ Stop
  /\ file' \in {g \in [Requests -> Files] : \A r \in Requests : g[r] \in Survives(file[r])}

Start ==
  /\ up = "down" /\ up' = "checking"
  /\ UNCHANGED <<reqVars, fileVars, rowVars, lockq, jobs, uploads, faults>>

\* A referenced blob that is missing stops startup.
CheckBlobs ==
  /\ up = "checking"
  /\ up' = IF \A b \in Referenced : InBlobs(file[b]) THEN "removing" ELSE "corrupt"
  /\ UNCHANGED <<reqVars, fileVars, rowVars, lockq, jobs, uploads, faults>>

\* Mutant of Garbage: the files of blobs/ are left.
GarbageTemp == {b \in Requests : file[b] = "temp"}

\* Temporary files, and files of blobs/ without a row.
Garbage == {b \in Requests : file[b] = "temp" \/ (InBlobs(file[b]) /\ b \notin Referenced)}

RemoveGarbage(b) ==
  /\ up = "removing" /\ b \in Garbage
  /\ file' = [file EXCEPT ![b] = IF @ = "temp" THEN "none" ELSE "unlinked"]
  /\ UNCHANGED <<up, reqVars, task, unlinks, rowVars, lockq, jobs, uploads, faults>>

Serve ==
  /\ up = "removing" /\ Garbage = {}
  /\ up' = "serving"
  /\ UNCHANGED <<reqVars, fileVars, rowVars, lockq, jobs, uploads, faults>>

-----------------------------------------------------------------------------
Clients ==
  \E r \in Requests, o \in Objects :
    \/ save_object(r, o) \/ delete_object(r, o) \/ get_object(r, o)
    \/ \E u \in setup.sessions, chunk \in setup.chunks : FinalizeUpload(u, chunk, r, o)

Resumable ==
  \E u \in setup.sessions :
    \/ StartUpload(u) \/ CancelUpload(u)
    \/ \E chunk \in setup.chunks : PutChunk(u, chunk)

Handler(r) ==
  \/ SaveWritten(r) \/ SaveNotWritten(r) \/ Submit(r) \/ CleanUp(r) \/ CleanedUp(r)
  \/ SelectRow(r) \/ load_blob(r)

Writer == RunJob \/ RunJobError

Startup == CheckBlobs \/ Serve \/ \E b \in Requests : RemoveGarbage(b)

Next ==
  /\ \/ Clients \/ Resumable \/ Tick
     \/ \E r \in Requests : Handler(r) \/ TaskStep(r) \/ TaskError(r) \/ Unlink(r) \/ Drop(r)
     \/ Writer \/ Crash \/ PowerLoss \/ Start \/ Startup
  /\ UNCHANGED setup

Spec == Init /\ [][Next]_<<setup, vars>>

(* Handlers are tasks of the runtime, the writer and the pool are threads: *)
(* each runs when it can.  Nothing is assumed of clients or of failures.   *)
FairSpec ==
  /\ Spec
  /\ \A r \in Requests : WF_vars(Handler(r)) /\ WF_vars(TaskStep(r)) /\ WF_vars(Unlink(r))
  /\ WF_vars(Writer)
-----------------------------------------------------------------------------
TypeOK ==
  /\ setup \in Setups
  /\ up \in {"down", "checking", "removing", "serving", "corrupt"}
  /\ pc \in [Requests -> PCs] /\ op \in [Requests -> Ops]
  /\ victim \in [Requests -> 0..MaxRequests]
  /\ file \in [Requests -> Files] /\ task \in [Requests -> {"none", "run", "ok", "err"}]
  /\ unlinks \subseteq Requests
  /\ rows \in [Objects -> [blob : 0..MaxRequests, gen : Nat]] /\ gen \in Nat
  /\ lockq \in Seq(Requests) /\ jobs \in Seq(Requests) /\ Len(jobs) <= QueueSize
  /\ uploads \in [Sessions -> Upload]
  /\ applied \subseteq Requests /\ faults \in Nat

-----------------------------------------------------------------------------
(* What the properties below rest on.                                      *)
Queued(r) == \E k \in 1..Len(jobs) : jobs[k] = r

\* Exclusive or shared, once its request has acted on it.
Holds(r) == pc[r] \in {"job", "cleanup", "unlink", "read"}

\* blob_lifecycle: each request is in its queue once; who acts has been granted.
LockOK ==
  /\ \A i, j \in 1..Len(lockq) : lockq[i] = lockq[j] => i = j
  /\ \A i \in 1..Len(lockq) : pc[lockq[i]] = "lock" \/ Holds(lockq[i])
  /\ \A r \in Requests :
       /\ Holds(r) => Granted(r) /\ (pc[r] = "read" <=> Shared(r))
       /\ pc[r] = "writing" => op[r].kind = "put"

\* The writer's queue outlives its requests, and none is in it twice.
JobsOK ==
  /\ \A j, k \in 1..Len(jobs) : jobs[j] = jobs[k] => j = k
  /\ \A k \in 1..Len(jobs) : /\ pc[jobs[k]] \in {"job", "gone"} /\ ~Shared(jobs[k])
                             /\ jobs[k] \notin applied

\* The blob of a request that will commit is in place.
FilesOK ==
  \A r \in Requests :
    /\ pc[r] = "new" => file[r] = "none" /\ task[r] = "none"
    /\ pc[r] = "writing" /\ task[r] = "ok" => file[r] = "stored"
    /\ (pc[r] = "lock" \/ Queued(r)) /\ op[r].kind = "put" => file[r] = "stored"

\* A request takes effect only when its job or its read runs.
AppliedOK ==
  \A r \in Requests : /\ pc[r] \in {"new", "writing", "lock"} => r \notin applied
                      /\ pc[r] = "read" => r \in applied

\* The job of b has run, or was never queued and never will be.
Past(b) == pc[b] \notin {"new", "writing", "lock"} /\ ~Queued(b)

\* A referenced blob is of a put of that object, is past, and nobody removes it.
RowsOK ==
  \A o \in Objects : rows[o].blob # 0 =>
    LET b == rows[o].blob IN
    Past(b) /\ op[b] = [kind |-> "put", obj |-> o] /\ b \notin unlinks

\* What is removed, or going to be, is past and has no row.
RemovedOK ==
  /\ \A b \in unlinks : Past(b) /\ b \notin Referenced
  /\ \A r \in Requests : pc[r] \in {"cleanup", "unlink"} /\ victim[r] # 0 =>
       Past(victim[r]) /\ victim[r] \notin Referenced

\* What is read is not removed.
ReadOK ==
  \A r \in Requests : pc[r] = "read" /\ victim[r] # 0 => victim[r] \notin unlinks

\* The file of b is still to be committed by its request or job, or removed.
Accounted(b) ==
  \/ pc[b] \in {"writing", "lock", "job"} \/ Queued(b) \/ b \in unlinks
  \/ \E r \in Requests : pc[r] = "cleanup" /\ victim[r] = b

\* Files of blobs/ and tmp/ that no row references and nobody accounts for.
Leaked == {b \in Requests : file[b] \notin {"none", "unlinked"} /\ b \notin Referenced /\ ~Accounted(b)}

\* Requests whose failure will leave a file: dropped while the pool still writes
\* or the job is queued, and a write that failed.
Owing ==
  {r \in Requests :
     \/ pc[r] = "gone" /\ (Queued(r) \/ (file[r] = "none" /\ task[r] = "run"))
     \/ pc[r] = "writing" /\ task[r] = "err"}

Debts == Leaked \cup Owing

LeaksOK == up = "serving" => Cardinality(Debts) <= faults

\* Only puts write files, and only before they wait for the lock.
PutsOK ==
  \A r \in Requests :
    /\ op[r].kind # "put" => file[r] = "none" /\ task[r] = "none"
    /\ task[r] = "run" => pc[r] \in {"writing", "gone"}

\* A file that is removed, or going to be, is not a temporary one.
VictimsOK ==
  /\ \A b \in unlinks : file[b] \in {"stored", "unlinked"}
  /\ \A r \in Requests : pc[r] = "cleanup" /\ victim[r] # 0 =>
       file[victim[r]] \in {"stored", "unlinked"}

\* Nothing runs but startup until the process serves.
OnlyStartup ==
  up # "serving" =>
    /\ lockq = <<>> /\ jobs = <<>> /\ unlinks = {}
    /\ \A r \in Requests : ~Active(r) /\ task[r] = "none"

-----------------------------------------------------------------------------
(* Every committed row has its blob, flushed, at every moment: no crash,   *)
(* power loss, dropped request, failed commit or startup takes it away, so *)
(* a restart never refuses the data ("references missing blob").           *)
RowHasBlob ==
  /\ \A b \in Referenced : file[b] = "stored"
  /\ up # "corrupt"

(* A download that has chosen its row finds the blob, whatever overwrites  *)
(* and deletes it, waits for it or was dropped meanwhile: "no acknowledged *)
(* generation can disappear beneath a GET".                                *)
ReadHasBlob ==
  \A r \in Requests : pc[r] = "read" => victim[r] = 0 \/ file[victim[r]] = "stored"

(* A failure leaves at most one file behind that no row references and     *)
(* nobody is going to commit or remove, and startup removes what the       *)
(* failures before it have left: dropped requests whose jobs still commit, *)
(* errors of the pool and of SQLite, crashes and power losses together     *)
(* never lose track of more files than there were failures.                *)
LeaksAreFailures == up = "serving" => Cardinality(Leaked) <= faults

(* A session never grows over the limit, and while its chunks name their   *)
(* offsets its bytes are the start of the client's file, whatever chunks   *)
(* are repeated, late or out of order.  A chunk that does not name its     *)
(* offset is appended as it comes.                                         *)
UploadIsExact ==
  \A u \in Sessions :
    /\ Len(uploads[u].bytes) <= MaxUpload
    /\ ~uploads[u].blind => \A i \in 1..Len(uploads[u].bytes) : uploads[u].bytes[i] = i

\* The refinement mapping: the effect of a request is its transaction.
StatusOf(r) ==
  CASE pc[r] = "new" -> "new"
    [] pc[r] = "ok" -> "answered"
    [] pc[r] \in {"error", "missing"} -> "refused"
    [] pc[r] \notin {"new", "ok", "error", "missing"} ->
         IF r \in applied THEN "applied" ELSE "begun"

Store == INSTANCE ObjectStore WITH
  status <- [r \in Requests |-> StatusOf(r)],
  objects <- [o \in Objects |-> rows[o].gen],
  lastGen <- gen

(* Requests take effect at most once, success is answered after the effect *)
(* and a refused request never has one, not even when its job or its file  *)
(* operations outlive it.                                                  *)
ImplementsStore == Store!Spec

(* Every request of a process that stays up ends: readers, writers, the    *)
(* lock, the writer's queue and the pool never wait for each other in a    *)
(* circle, and dropped requests block nobody.                              *)
RequestsEnd == \A r \in Requests : Active(r) ~> ~Active(r)
=============================================================================
