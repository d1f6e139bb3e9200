---------------------------- MODULE StorageProofs ---------------------------
(***************************************************************************)
(* Proofs about Storage for every number of requests, objects, resumable   *)
(* sessions, queue places, crashes, power losses and errors.               *)
(***************************************************************************)
EXTENDS Storage, SequenceTheorems, FiniteSetTheorems, TLAPS

(* The inductive invariant: a blob is referenced only once its file is     *)
(* flushed, is past when its row can be replaced, and its removal is       *)
(* ordered after the last reader by the lock.                              *)
IInv ==
  /\ TypeOK /\ LockOK /\ JobsOK /\ FilesOK /\ AppliedOK
  /\ RowsOK /\ RemovedOK /\ ReadOK /\ OnlyStartup
  /\ RowHasBlob /\ ReadHasBlob /\ UploadIsExact
  /\ PutsOK /\ VictimsOK /\ LeaksOK

-----------------------------------------------------------------------------
(* Facts about sequences.                                                  *)

\* Removing the only occurrence of e closes the gap it leaves.
LEMMA RemoveFacts ==
  ASSUME NEW S, NEW s \in Seq(S), NEW e,
         \A i, j \in 1..Len(s) : s[i] = s[j] => i = j
  PROVE  \/ RemoveFirst(s, e) = s /\ \A i \in 1..Len(s) : s[i] # e
         \/ \E k \in 1..Len(s) :
              /\ s[k] = e /\ RemoveFirst(s, e) \in Seq(S)
              /\ Len(RemoveFirst(s, e)) = Len(s) - 1
              /\ \A i \in 1..(Len(s) - 1) :
                   RemoveFirst(s, e)[i] = IF i < k THEN s[i] ELSE s[i + 1]
<1>1. CASE \A i \in 1..Len(s) : s[i] # e
  BY <1>1 DEF RemoveFirst
<1>2. ASSUME NEW k \in 1..Len(s), s[k] = e
      PROVE  /\ RemoveFirst(s, e) \in Seq(S)
             /\ Len(RemoveFirst(s, e)) = Len(s) - 1
             /\ \A i \in 1..(Len(s) - 1) :
                  RemoveFirst(s, e)[i] = IF i < k THEN s[i] ELSE s[i + 1]
  <2> DEFINE I == {i \in 1..Len(s) : s[i] = e}
             a == SubSeq(s, 1, k - 1)
             b == SubSeq(s, k + 1, Len(s))
  <2>1. I = {k}
    BY <1>2
  <2>2. Min(I) = k
    BY <2>1 DEF Min
  <2>3. RemoveFirst(s, e) = a \o b
    BY <1>2, <2>1, <2>2 DEF RemoveFirst, RemoveAt, SelectInSeq
  <2>4. /\ a \in Seq(S) /\ Len(a) = k - 1
        /\ \A i \in 1..(k - 1) : a[i] = s[i]
    <3>1. k - 1 \in Int /\ 1 \in Int /\ \A i \in 1..(k - 1) : s[i] \in S
      OBVIOUS
    <3>2. /\ a \in Seq(S) /\ Len(a) = IF 1 <= k - 1 THEN (k - 1) - 1 + 1 ELSE 0
          /\ \A i \in 1..((k - 1) - 1 + 1) : a[i] = s[1 + i - 1]
      BY <3>1, SubSeqProperties
    <3> QED BY <3>2
  <2>5. /\ b \in Seq(S) /\ Len(b) = Len(s) - k
        /\ \A i \in 1..(Len(s) - k) : b[i] = s[k + i]
    <3>1. k + 1 \in Int /\ Len(s) \in Int /\ \A i \in (k + 1)..Len(s) : s[i] \in S
      OBVIOUS
    <3>2. /\ b \in Seq(S) /\ Len(b) = IF k + 1 <= Len(s) THEN Len(s) - (k + 1) + 1 ELSE 0
          /\ \A i \in 1..(Len(s) - (k + 1) + 1) : b[i] = s[(k + 1) + i - 1]
      BY <3>1, SubSeqProperties
    <3> QED BY <3>2
  <2> HIDE DEF a, b
  <2>6. /\ a \o b \in Seq(S) /\ Len(a \o b) = Len(s) - 1
        /\ \A i \in 1..(Len(s) - 1) : (a \o b)[i] = IF i < k THEN s[i] ELSE s[i + 1]
    <3>0. a \in Seq(S) /\ b \in Seq(S)
      BY <2>4, <2>5
    <3>1. /\ a \o b \in Seq(S) /\ Len(a \o b) = Len(a) + Len(b)
          /\ \A i \in 1..(Len(a) + Len(b)) :
               (a \o b)[i] = IF i <= Len(a) THEN a[i] ELSE b[i - Len(a)]
      BY <3>0, ConcatProperties
    <3>2. ASSUME NEW i \in 1..(Len(s) - 1)
          PROVE  (a \o b)[i] = IF i < k THEN s[i] ELSE s[i + 1]
      <4>1. CASE i < k
        BY <2>4, <2>5, <3>1, <4>1
      <4>2. CASE ~(i < k)
        <5>1. i - (k - 1) \in 1..(Len(s) - k) /\ k + (i - (k - 1)) = i + 1
          BY <4>2
        <5>2. (a \o b)[i] = b[i - (k - 1)]
          BY <2>4, <2>5, <3>1, <4>2
        <5> QED BY <2>5, <4>2, <5>1, <5>2
      <4> QED BY <4>1, <4>2
    <3> QED BY <2>4, <2>5, <3>1, <3>2
  <2> QED BY <2>3, <2>6
<1> QED BY <1>1, <1>2

\* The bytes are the start of the client's file.
FromStart(bytes) == \A i \in 1..Len(bytes) : bytes[i] = i

\* A chunk that is appended where the bytes end continues them.
LEMMA ExtendedFacts ==
  ASSUME NEW u \in Sessions, NEW chunk \in Chunk, uploads[u] \in Upload,
         chunk.named => chunk.offset = Len(uploads[u].bytes),
         ~uploads[u].blind => FromStart(uploads[u].bytes)
  PROVE  /\ Extended(u, chunk) \in Upload
         /\ Len(Extended(u, chunk).bytes) = Len(uploads[u].bytes) + chunk.size
         /\ ~Extended(u, chunk).blind => FromStart(Extended(u, chunk).bytes)
<1> DEFINE s == uploads[u].bytes
           n == chunk.size
           t == [i \in 1..n |-> chunk.offset + i]
<1>1. s \in Seq(Nat) /\ Len(s) \in Nat /\ n \in Nat /\ chunk.offset \in Nat
  BY DEF Upload, Chunk
<1>2. t \in [1..n -> Nat]
  BY <1>1
<1>5. \A i \in 1..n : t[i] = chunk.offset + i
  OBVIOUS
<1> HIDE DEF t
<1>3. t \in Seq(Nat)
  <2> HIDE DEF n
  <2> QED BY <1>1, <1>2, SeqDef
<1>4. Len(t) = n
  BY <1>1, <1>2, <1>3, LenProperties
<1>6. /\ s \o t \in Seq(Nat) /\ Len(s \o t) = Len(s) + Len(t)
      /\ \A i \in 1..(Len(s) + Len(t)) :
           (s \o t)[i] = IF i <= Len(s) THEN s[i] ELSE t[i - Len(s)]
  BY <1>1, <1>3, ConcatProperties
<1>7. ASSUME chunk.offset = Len(s), FromStart(s), NEW i \in 1..(Len(s) + n)
      PROVE  (s \o t)[i] = i
  <2>1. CASE i <= Len(s)
    BY <1>1, <1>4, <1>6, <1>7, <2>1 DEF FromStart
  <2>2. CASE ~(i <= Len(s))
    <3>1. i - Len(s) \in 1..n /\ Len(s) + (i - Len(s)) = i
      BY <1>1, <2>2
    <3> QED BY <1>1, <1>4, <1>5, <1>6, <1>7, <2>2, <3>1
  <2> QED BY <2>1, <2>2
<1> DEFINE new == Extended(u, chunk)
<1>8. /\ new = [uploads[u] EXCEPT !.bytes = s \o t, !.blind = uploads[u].blind \/ ~chunk.named]
      /\ new.bytes = s \o t
  BY DEF Extended, t, Upload
<1>9. (uploads[u].blind \/ ~chunk.named) \in BOOLEAN
  OBVIOUS
<1>10. new \in Upload /\ new.blind = (uploads[u].blind \/ ~chunk.named)
  BY <1>6, <1>8, <1>9 DEF Upload
<1> HIDE DEF new
<1>11. ASSUME ~new.blind PROVE FromStart(new.bytes)
  <2>1. chunk.offset = Len(s) /\ FromStart(s)
    BY <1>10, <1>11
  <2> QED BY <1>1, <1>4, <1>6, <1>7, <1>8, <2>1 DEF FromStart
<1>12. Len(new.bytes) = Len(s) + n
  BY <1>4, <1>6, <1>8
<1> QED BY <1>10, <1>11, <1>12 DEF new

-----------------------------------------------------------------------------
(* Facts about the operators.                                              *)

\* The steps of the system, those that only touch resumable sessions as one.
LEMMA NextCases ==
  ASSUME Next
  PROVE  \/ \E r \in Requests, o \in Objects :
              BeginSave(r, o) \/ delete_object(r, o) \/ get_object(r, o)
         \/ UNCHANGED <<up, reqVars, fileVars, rowVars, lockq, jobs, faults>>
         \/ \E r \in Requests :
              \/ SaveWritten(r) \/ SaveNotWritten(r) \/ Submit(r) \/ CleanUp(r) \/ CleanedUp(r)
              \/ SelectRow(r) \/ load_blob(r)
              \/ TaskStep(r) \/ TaskError(r) \/ Unlink(r) \/ Drop(r) \/ RemoveGarbage(r)
         \/ RunJob \/ RunJobError \/ Crash \/ PowerLoss \/ Start \/ CheckBlobs \/ Serve
  BY DEF Next, Clients, Resumable, Tick, Handler, Writer, Startup, save_object, FinalizeUpload,
         StartUpload, CancelUpload, PutChunk

\* A kind of request and an object are in Ops.
LEMMA OpsFacts ==
  /\ \A x \in Ops : x.kind \in {"put", "delete", "get"} /\ x.obj \in Objects
  /\ \A k \in {"put", "delete", "get"}, o \in Objects : [kind |-> k, obj |-> o] \in Ops
  /\ (CHOOSE x \in Ops : TRUE) \in Ops
<1>1. PICK o \in Objects : TRUE
  BY StorageAssumption
<1>2. [kind |-> "put", obj |-> o] \in Ops
  BY <1>1 DEF Ops
<1> QED BY <1>2 DEF Ops

\* A request that ends leaves the lock; the others keep their places in order.
LEMMA FinishFacts ==
  ASSUME TypeOK, LockOK, NEW r \in Requests, NEW st, Finish(r, st), op' = op
  PROVE  /\ lockq' \in Seq(Requests)
         /\ \A i, j \in 1..Len(lockq') : lockq'[i] = lockq'[j] => i = j
         /\ \A i \in 1..Len(lockq') :
              lockq'[i] # r /\ \E j \in 1..Len(lockq) : lockq'[i] = lockq[j]
         /\ \A q \in Requests \ {r} : Granted(q) => Granted(q)'
<1>1. /\ lockq \in Seq(Requests) /\ lockq' = RemoveFirst(lockq, r)
      /\ \A i, j \in 1..Len(lockq) : lockq[i] = lockq[j] => i = j
  BY DEF Finish, Unlocked, TypeOK, LockOK
<1>n. Len(lockq) \in Nat
  BY <1>1
<1>2. CASE lockq' = lockq /\ \A i \in 1..Len(lockq) : lockq[i] # r
  BY <1>1, <1>2 DEF Granted, Shared
<1>3. ASSUME NEW k \in 1..Len(lockq),
             lockq[k] = r, lockq' \in Seq(Requests), Len(lockq') = Len(lockq) - 1,
             \A i \in 1..(Len(lockq) - 1) :
               lockq'[i] = IF i < k THEN lockq[i] ELSE lockq[i + 1]
      PROVE  /\ lockq' \in Seq(Requests)
             /\ \A i, j \in 1..Len(lockq') : lockq'[i] = lockq'[j] => i = j
             /\ \A i \in 1..Len(lockq') :
                  lockq'[i] # r /\ \E j \in 1..Len(lockq) : lockq'[i] = lockq[j]
             /\ \A q \in Requests \ {r} : Granted(q) => Granted(q)'
  <2> DEFINE At(i) == IF i < k THEN i ELSE i + 1
  <2>1. \A i \in 1..Len(lockq') : /\ At(i) \in 1..Len(lockq) /\ At(i) # k
                                  /\ lockq'[i] = lockq[At(i)]
    BY <1>n, <1>3
  <2>2. \A i, j \in 1..Len(lockq') : At(i) = At(j) => i = j
    BY <1>n, <1>3
  <2>3. ASSUME NEW q \in Requests \ {r}, Granted(q) PROVE Granted(q)'
    <3>1. PICK i \in 1..Len(lockq) :
            /\ lockq[i] = q
            /\ i = 1 \/ (Shared(q) /\ \A j \in 1..(i - 1) : Shared(lockq[j]))
      BY <2>3 DEF Granted
    <3>2. i # k
      BY <1>3, <2>3, <3>1
    <3> DEFINE h == IF i < k THEN i ELSE i - 1
    <3>3. h \in 1..Len(lockq') /\ lockq'[h] = q /\ (i = 1 => h = 1)
      BY <1>n, <1>3, <3>1, <3>2
    <3>4. ASSUME i # 1, NEW j \in 1..(h - 1) PROVE Shared(lockq'[j])
      <4>1. At(j) \in 1..(i - 1) /\ j \in 1..Len(lockq')
        BY <1>n, <1>3, <3>2, <3>3
      <4> QED BY <2>1, <3>1, <3>4, <4>1
    <3>5. i # 1 => Shared(q)
      BY <3>1
    <3> QED BY <3>3, <3>4, <3>5 DEF Granted, Shared
  <2> HIDE DEF At
  <2>4. \A i \in 1..Len(lockq') :
          lockq'[i] # r /\ \E j \in 1..Len(lockq) : lockq'[i] = lockq[j]
    BY <1>1, <1>3, <2>1
  <2>5. ASSUME NEW i \in 1..Len(lockq'), NEW j \in 1..Len(lockq'), lockq'[i] = lockq'[j]
        PROVE  i = j
    <3>1. /\ At(i) \in 1..Len(lockq) /\ At(j) \in 1..Len(lockq)
          /\ lockq[At(i)] = lockq[At(j)]
      BY <2>1, <2>5
    <3>2. At(i) = At(j)
      BY <1>1, <3>1
    <3> QED BY <2>2, <2>5, <3>2
  <2> QED BY <1>3, <2>3, <2>4, <2>5
<1>4. \/ lockq' = lockq /\ \A i \in 1..Len(lockq) : lockq[i] # r
      \/ \E k \in 1..Len(lockq) :
           /\ lockq[k] = r /\ lockq' \in Seq(Requests) /\ Len(lockq') = Len(lockq) - 1
           /\ \A i \in 1..(Len(lockq) - 1) :
                lockq'[i] = IF i < k THEN lockq[i] ELSE lockq[i + 1]
  <2> DEFINE new == RemoveFirst(lockq, r)
  <2>0. lockq \in Seq(Requests) /\ \A i, j \in 1..Len(lockq) : lockq[i] = lockq[j] => i = j
    BY <1>1
  <2>1. \/ new = lockq /\ \A i \in 1..Len(lockq) : lockq[i] # r
        \/ \E k \in 1..Len(lockq) :
             /\ lockq[k] = r /\ new \in Seq(Requests) /\ Len(new) = Len(lockq) - 1
             /\ \A i \in 1..(Len(lockq) - 1) :
                  new[i] = IF i < k THEN lockq[i] ELSE lockq[i + 1]
    BY <2>0, RemoveFacts
  <2>2. lockq' = new
    BY <1>1
  <2> HIDE DEF new
  <2> QED BY <2>1, <2>2
<1> QED BY <1>2, <1>3, <1>4

\* A request that waits for the lock is behind the others.
LEMMA WaitFacts ==
  ASSUME TypeOK, LockOK, NEW r \in Requests, pc[r] \in {"new", "writing"},
         lockq' = Append(lockq, r), \A q \in Requests \ {r} : op'[q] = op[q]
  PROVE  /\ lockq' \in Seq(Requests)
         /\ \A i, j \in 1..Len(lockq') : lockq'[i] = lockq'[j] => i = j
         /\ \A i \in 1..Len(lockq') :
              lockq'[i] = r \/ \E j \in 1..Len(lockq) : lockq'[i] = lockq[j]
         /\ \A i \in 1..Len(lockq) : lockq[i] # r
         /\ \A q \in Requests \ {r} : Granted(q) => Granted(q)'
<1>1. /\ lockq \in Seq(Requests) /\ Len(lockq) \in Nat
      /\ \A i, j \in 1..Len(lockq) : lockq[i] = lockq[j] => i = j
  BY DEF TypeOK, LockOK
<1>2. \A i \in 1..Len(lockq) : lockq[i] # r
  BY DEF LockOK, Holds
<1>3. /\ lockq' \in Seq(Requests) /\ Len(lockq') = Len(lockq) + 1
      /\ \A i \in 1..Len(lockq) : lockq'[i] = lockq[i]
      /\ lockq'[Len(lockq) + 1] = r
  BY <1>1, AppendProperties
<1>4. ASSUME NEW q \in Requests \ {r}, Granted(q) PROVE Granted(q)'
  <2>1. PICK i \in 1..Len(lockq) :
          /\ lockq[i] = q
          /\ i = 1 \/ (Shared(q) /\ \A j \in 1..(i - 1) : Shared(lockq[j]))
    BY <1>4 DEF Granted
  <2>2. i \in 1..Len(lockq') /\ lockq'[i] = q
    BY <1>1, <1>3, <2>1
  <2>3. ASSUME i # 1, NEW j \in 1..(i - 1) PROVE op'[lockq'[j]].kind = "get"
    <3>1. j \in 1..Len(lockq) /\ Shared(lockq[j]) /\ lockq[j] # r /\ lockq[j] \in Requests
      BY <1>1, <1>2, <2>1, <2>3
    <3> QED BY <1>3, <3>1 DEF Shared
  <2>4. i # 1 => Shared(q)'
    BY <2>1 DEF Shared
  <2> QED BY <2>2, <2>3, <2>4 DEF Granted, Shared
<1> QED BY <1>1, <1>2, <1>3, <1>4

\* Two requests that hold the lock are both readers.
LEMMA Exclusion ==
  ASSUME TypeOK, LockOK, NEW q \in Requests, NEW r \in Requests, q # r, Holds(q), Holds(r)
  PROVE  pc[q] = "read" /\ pc[r] = "read"
<1>1. Granted(q) /\ Granted(r)
  BY DEF LockOK
<1>2. PICK i \in 1..Len(lockq) :
        lockq[i] = q /\ (i = 1 \/ (Shared(q) /\ \A j \in 1..(i - 1) : Shared(lockq[j])))
  BY <1>1 DEF Granted
<1>3. PICK k \in 1..Len(lockq) :
        lockq[k] = r /\ (k = 1 \/ (Shared(r) /\ \A j \in 1..(k - 1) : Shared(lockq[j])))
  BY <1>1 DEF Granted
<1>n. Len(lockq) \in Nat
  BY DEF TypeOK
<1>4. Shared(q) /\ Shared(r)
  <2>1. CASE i < k
    <3>1. i \in 1..(k - 1) /\ k # 1
      BY <1>n, <2>1
    <3> QED BY <1>2, <1>3, <3>1
  <2>2. CASE k < i
    <3>1. k \in 1..(i - 1) /\ i # 1
      BY <1>n, <2>2
    <3> QED BY <1>2, <1>3, <3>1
  <2> QED BY <1>2, <1>3, <1>n, <2>1, <2>2
<1> QED BY <1>4 DEF LockOK

\* The first job leaves the queue; it is not in it again.
LEMMA TakeFacts ==
  ASSUME TypeOK, JobsOK, jobs # <<>>, jobs' = Tail(jobs)
  PROVE  /\ Head(jobs) \in Requests /\ Queued(Head(jobs))
         /\ jobs' \in Seq(Requests) /\ Len(jobs') = Len(jobs) - 1
         /\ \A j, k \in 1..Len(jobs') : jobs'[j] = jobs'[k] => j = k
         /\ \A k \in 1..Len(jobs') : jobs'[k] # Head(jobs) /\ Queued(jobs'[k])
         /\ \A q \in Requests : Queued(q)' <=> (Queued(q) /\ q # Head(jobs))
<1>1. /\ jobs \in Seq(Requests) /\ Len(jobs) \in Nat \ {0} /\ Head(jobs) = jobs[1]
      /\ Head(jobs) \in Requests
  BY HeadTailProperties DEF TypeOK
<1>2. /\ jobs' \in Seq(Requests) /\ Len(jobs') = Len(jobs) - 1
      /\ \A k \in 1..Len(jobs') : jobs'[k] = jobs[k + 1]
  BY <1>1, HeadTailProperties
<1>3. \A j, k \in 1..Len(jobs) : jobs[j] = jobs[k] => j = k
  BY DEF JobsOK
<1>4. Queued(Head(jobs))
  BY <1>1 DEF Queued
<1>5. \A j, k \in 1..Len(jobs') : jobs'[j] = jobs'[k] => j = k
  BY <1>1, <1>2, <1>3
<1>6. ASSUME NEW k \in 1..Len(jobs') PROVE jobs'[k] # Head(jobs) /\ Queued(jobs'[k])
  <2>1. k + 1 \in 1..Len(jobs) /\ k + 1 # 1 /\ 1 \in 1..Len(jobs)
    BY <1>1, <1>2
  <2> QED BY <1>1, <1>2, <1>3, <2>1 DEF Queued
<1>7. ASSUME NEW q \in Requests, Queued(q), q # Head(jobs) PROVE Queued(q)'
  <2>1. PICK k \in 1..Len(jobs) : jobs[k] = q
    BY <1>7 DEF Queued
  <2>2. k # 1 /\ k - 1 \in 1..Len(jobs') /\ (k - 1) + 1 = k
    BY <1>1, <1>2, <1>7, <2>1
  <2> QED BY <1>2, <2>1, <2>2 DEF Queued
<1>8. \A q \in Requests : Queued(q)' => Queued(q) /\ q # Head(jobs)
  BY <1>6 DEF Queued
<1> QED BY <1>1, <1>2, <1>4, <1>5, <1>6, <1>7, <1>8

-----------------------------------------------------------------------------
(* The invariant holds initially and every step keeps each part of it.     *)
LEMMA InitIInv == Init => IInv
<1> SUFFICES ASSUME Init PROVE IInv
  OBVIOUS
<1> USE DEF Init
<1>1. TypeOK
  BY StorageAssumption, OpsFacts DEF TypeOK, PCs, Files, NoRow, NoUpload, Upload, Requests
<1>2. LockOK /\ JobsOK /\ FilesOK /\ AppliedOK
  BY DEF LockOK, JobsOK, FilesOK, AppliedOK, Holds, Queued
<1>3. RowsOK /\ RemovedOK /\ ReadOK /\ OnlyStartup
  BY DEF RowsOK, RemovedOK, ReadOK, OnlyStartup, Active, NoRow
<1>4. RowHasBlob /\ ReadHasBlob
  BY DEF RowHasBlob, ReadHasBlob, Referenced, NoRow
<1>5. UploadIsExact
  BY StorageAssumption DEF UploadIsExact, NoUpload
<1>6. PutsOK /\ VictimsOK /\ LeaksOK
  BY DEF PutsOK, VictimsOK, LeaksOK
<1> QED BY <1>1, <1>2, <1>3, <1>4, <1>5, <1>6 DEF IInv

\* Resumable sessions keep their type and the bytes they were sent in order.
LEMMA UploadStep ==
  ASSUME TypeOK, UploadIsExact, Next
  PROVE  uploads' \in [Sessions -> Upload] /\ UploadIsExact'
<1> DEFINE Good(s) == /\ s \in Upload /\ Len(s.bytes) <= MaxUpload
                      /\ ~s.blind => FromStart(s.bytes)
<1>1. \A u \in Sessions : Good(uploads[u]) /\ Good(Pruned(u))
  BY DEF TypeOK, UploadIsExact, Pruned, Upload, FromStart
<1> DEFINE Goal == /\ uploads' = [v \in Sessions |-> uploads'[v]]
                   /\ \A u \in Sessions : Good(uploads'[u])
<1>2. SUFFICES Goal
  BY DEF UploadIsExact, FromStart
<1>3. ASSUME NEW v \in Sessions, NEW s, Good(s), uploads' = Session(v, s)
      PROVE  Goal
  BY <1>1, <1>3 DEF Session
<1>4. Good([NoUpload EXCEPT !.state = "open"])
  <2> DEFINE new == [NoUpload EXCEPT !.state = "open"]
  <2>1. new.state = "open" /\ new.bytes = <<>> /\ new.age = 0 /\ new.blind = FALSE
    BY DEF NoUpload
  <2>2. /\ Len(<<>>) = 0 /\ <<>> \in Seq(Nat) /\ MaxUpload \in Nat
        /\ {"unused", "open", "closed"} \cap {"open"} = {"open"}
    BY StorageAssumption, EmptySeq
  <2>3. NoUpload \in Upload
    BY <2>2 DEF NoUpload, Upload
  <2>4. new \in Upload
    BY <2>3 DEF Upload
  <2> HIDE DEF new
  <2>5. Len(new.bytes) = 0 /\ 0 <= MaxUpload
    BY <2>1, <2>2
  <2>6. FromStart(new.bytes)
    BY <2>5 DEF FromStart
  <2>7. new \in Upload /\ Len(new.bytes) <= MaxUpload /\ (~new.blind => FromStart(new.bytes))
    BY <2>4, <2>5, <2>6
  <2> QED BY <2>7 DEF new
<1>c. \A v \in Sessions : Good([uploads[v] EXCEPT !.state = "closed"])
  BY <1>1 DEF Upload
<1>5. ASSUME NEW v \in setup.sessions, StartUpload(v)
      PROVE  Goal
  <2>1. v \in Sessions
    BY StorageAssumption DEF TypeOK
  <2> HIDE DEF Good
  <2> QED BY <1>3, <1>4, <1>5, <2>1 DEF StartUpload
<1>6. ASSUME NEW v \in Sessions, NEW chunk \in Chunk, Accepts(v, chunk)
      PROVE  /\ Good(Extended(v, chunk))
             /\ Good([Extended(v, chunk) EXCEPT !.state = "closed"])
  <2> DEFINE new == Extended(v, chunk)
  <2>1. /\ uploads[v] \in Upload
        /\ chunk.named => chunk.offset = Len(uploads[v].bytes)
        /\ Len(uploads[v].bytes) + chunk.size <= MaxUpload
        /\ ~uploads[v].blind => FromStart(uploads[v].bytes)
    BY <1>1, <1>6 DEF Accepts
  <2>2. /\ new \in Upload /\ Len(new.bytes) = Len(uploads[v].bytes) + chunk.size
        /\ ~new.blind => FromStart(new.bytes)
    BY <2>1, ExtendedFacts
  <2> HIDE DEF new
  <2>3. Good(new)
    BY <2>1, <2>2
  <2>4. /\ [new EXCEPT !.state = "closed"] \in Upload
        /\ [new EXCEPT !.state = "closed"].bytes = new.bytes
        /\ [new EXCEPT !.state = "closed"].blind = new.blind
    BY <2>2 DEF Upload
  <2>5. Good([new EXCEPT !.state = "closed"])
    BY <2>3, <2>4
  <2> QED BY <2>3, <2>5 DEF new
<1>7. ASSUME NEW v \in setup.sessions, NEW chunk \in setup.chunks,
             \/ PutChunk(v, chunk)
             \/ \E r \in Requests, o \in Objects : FinalizeUpload(v, chunk, r, o)
      PROVE  Goal
  <2>1. v \in Sessions /\ chunk \in Chunk
    BY StorageAssumption DEF TypeOK
  <2> HIDE DEF Good
  <2> QED BY <1>3, <1>6, <1>7, <2>1 DEF PutChunk, FinalizeUpload
<1>8. ASSUME NEW v \in setup.sessions, CancelUpload(v)
      PROVE  Goal
  <2>1. v \in Sessions
    BY StorageAssumption DEF TypeOK
  <2> HIDE DEF Good
  <2> QED BY <1>3, <1>8, <1>c, <2>1 DEF CancelUpload
<1>9. CASE Tick
  <2>1. \A v \in Sessions : Good([uploads[v] EXCEPT !.age = @ + 1])
    <3>1. TAKE v \in Sessions
    <3>2. uploads[v] \in Upload /\ Good(uploads[v])
      BY <1>1
    <3>3. /\ [uploads[v] EXCEPT !.age = @ + 1] \in Upload
          /\ [uploads[v] EXCEPT !.age = @ + 1].bytes = uploads[v].bytes
          /\ [uploads[v] EXCEPT !.age = @ + 1].blind = uploads[v].blind
      BY <3>2 DEF Upload
    <3> QED BY <3>2, <3>3
  <2> HIDE DEF Good
  <2> QED BY <1>1, <1>9, <2>1 DEF Tick
<1>10. CASE Crash \/ PowerLoss
  <2> HIDE DEF Good
  <2> QED BY <1>1, <1>c, <1>10 DEF Crash, PowerLoss, Stop
<1>11. CASE UNCHANGED uploads
  BY <1>1, <1>11 DEF TypeOK
<1>12. \/ \E v \in setup.sessions :
            \/ StartUpload(v) \/ CancelUpload(v)
            \/ \E chunk \in setup.chunks :
                 \/ PutChunk(v, chunk)
                 \/ \E r \in Requests, o \in Objects : FinalizeUpload(v, chunk, r, o)
       \/ Tick \/ Crash \/ PowerLoss \/ UNCHANGED uploads
  BY DEF Next, Clients, Resumable, Handler, Writer, Startup, save_object, delete_object, get_object,
         SaveWritten, SaveNotWritten, Submit, CleanUp, CleanedUp, SelectRow, load_blob, TaskStep,
         TaskError, Unlink, Drop, RemoveGarbage, RunJob, RunJobError, Start, CheckBlobs, Serve
<1> QED BY <1>5, <1>7, <1>8, <1>9, <1>10, <1>11, <1>12

\* Every variable keeps its type.
LEMMA TypeStep ==
  ASSUME IInv, Next
  PROVE  TypeOK'
<1> USE DEF IInv
<1>u. uploads' \in [Sessions -> Upload] /\ setup' \in Setups
  BY UploadStep DEF TypeOK, Next
<1>n. Requests = 1..MaxRequests /\ MaxRequests \in Nat /\ Requests \subseteq 0..MaxRequests
  BY StorageAssumption DEF Requests
<1>f. faults' \in Nat
  <2> DEFINE Keep == faults' = faults \/ Fault
  <2>1. ASSUME NEW r \in Requests, NEW o \in Objects,
               BeginSave(r, o) \/ delete_object(r, o) \/ get_object(r, o)
        PROVE  Keep
    BY <2>1 DEF BeginSave, delete_object, get_object
  <2>2. ASSUME NEW r \in Requests,
               \/ SaveWritten(r) \/ SaveNotWritten(r) \/ Submit(r) \/ CleanUp(r)
               \/ CleanedUp(r) \/ SelectRow(r) \/ load_blob(r) \/ TaskStep(r) \/ RemoveGarbage(r)
        PROVE  Keep
    BY <2>2 DEF SaveWritten, SaveNotWritten, Submit, CleanUp, CleanedUp, SelectRow, load_blob,
                TaskStep, RemoveGarbage
  <2>3. ASSUME RunJob \/ Start \/ CheckBlobs \/ Serve PROVE Keep
    BY <2>3 DEF RunJob, Start, CheckBlobs, Serve
  <2>4. ASSUME NEW r \in Requests, TaskError(r) \/ Unlink(r) \/ Drop(r) PROVE Keep
    BY <2>4 DEF TaskError, Unlink, Drop
  <2>5. ASSUME RunJobError \/ Crash \/ PowerLoss PROVE Keep
    BY <2>5 DEF RunJobError, Crash, PowerLoss
  <2>6. ASSUME UNCHANGED <<up, reqVars, fileVars, rowVars, lockq, jobs, faults>> PROVE Keep
    BY <2>6
  <2>7. Keep
    <3> HIDE DEF Keep
    <3> QED BY <2>1, <2>2, <2>3, <2>4, <2>5, <2>6, NextCases
  <2> QED BY <2>7 DEF Fault, TypeOK
<1> USE DEF TypeOK, PCs
<1>1. ASSUME NEW r \in Requests, NEW o \in Objects, BeginSave(r, o) PROVE TypeOK'
  BY <1>1, <1>u, <1>f, OpsFacts DEF BeginSave, Begin, rowVars
<1>2. ASSUME NEW r \in Requests, NEW o \in Objects, delete_object(r, o) \/ get_object(r, o)
      PROVE  TypeOK'
  <2>1. /\ lockq' = Append(lockq, r) /\ pc' = [pc EXCEPT ![r] = "lock"]
        /\ \E kind \in {"put", "delete", "get"} :
             op' = [op EXCEPT ![r] = [kind |-> kind, obj |-> o]]
    BY <1>2 DEF delete_object, get_object, Begin
  <2>2. lockq' \in Seq(Requests)
    BY <2>1, AppendProperties
  <2>3. op' \in [Requests -> Ops] /\ pc' \in [Requests -> PCs]
    BY <2>1, OpsFacts
  <2> QED BY <1>2, <1>u, <1>f, <2>2, <2>3 DEF delete_object, get_object, rowVars, fileVars
<1>3. CASE UNCHANGED <<up, reqVars, fileVars, rowVars, lockq, jobs, faults>>
  BY <1>3, <1>u, <1>f DEF reqVars, rowVars, fileVars
<1>4. ASSUME NEW r \in Requests, TaskStep(r) \/ TaskError(r) PROVE TypeOK'
  BY <1>4, <1>u, <1>f DEF TaskStep, TaskError, reqVars, rowVars, Files
<1>5. ASSUME NEW r \in Requests, SaveWritten(r) PROVE TypeOK'
  BY <1>5, <1>u, <1>f, AppendProperties DEF SaveWritten, rowVars, fileVars
<1>6. ASSUME NEW r \in Requests, SaveNotWritten(r) PROVE TypeOK'
  BY <1>6, <1>u, <1>f DEF SaveNotWritten, rowVars, Files
<1>7. ASSUME NEW r \in Requests, Submit(r) PROVE TypeOK'
  <2>1. jobs' \in Seq(Requests) /\ Len(jobs') <= QueueSize
    BY <1>7, AppendProperties, StorageAssumption DEF Submit
  <2> QED BY <1>7, <1>u, <1>f, <2>1 DEF Submit, rowVars, fileVars
<1>8. ASSUME jobs # <<>>, jobs' = Tail(jobs), NEW b \in 0..MaxRequests, Reply(Head(jobs), b)
      PROVE  /\ jobs' \in Seq(Requests) /\ Len(jobs') <= QueueSize
             /\ pc' \in [Requests -> PCs] /\ victim' \in [Requests -> 0..MaxRequests]
  <2>1. Len(jobs') <= QueueSize /\ Head(jobs) \in Requests /\ jobs' \in Seq(Requests)
    BY <1>8, TakeFacts, StorageAssumption
  <2> QED BY <1>8, <2>1 DEF Reply
<1>9. CASE RunJob
  <2> DEFINE r == Head(jobs)
             o == op[r].obj
  <2>1. r \in Requests /\ op[r].obj \in Objects /\ rows[op[r].obj].blob \in 0..MaxRequests
    BY <1>9, TakeFacts, OpsFacts DEF RunJob
  <2>2. /\ jobs' \in Seq(Requests) /\ Len(jobs') <= QueueSize
        /\ pc' \in [Requests -> PCs] /\ victim' \in [Requests -> 0..MaxRequests]
    BY <1>8, <1>9, <2>1 DEF RunJob
  <2>3. rows' \in [Objects -> [blob : 0..MaxRequests, gen : Nat]] /\ gen' \in Nat
    <3>1. CASE /\ gen' = gen + 1
               /\ rows' = [rows EXCEPT ![o] = [blob |-> r, gen |-> gen + 1]]
      <4>1. gen + 1 \in Nat /\ r \in 0..MaxRequests
        BY <1>n, <2>1
      <4> QED BY <2>1, <3>1, <4>1
    <3>2. CASE rows' = [rows EXCEPT ![o] = NoRow] /\ UNCHANGED gen
      <4>1. NoRow \in [blob : 0..MaxRequests, gen : Nat]
        BY <1>n DEF NoRow
      <4> QED BY <2>1, <3>2, <4>1
    <3> QED BY <1>9, <3>1, <3>2 DEF RunJob
  <2> QED BY <1>9, <1>u, <1>f, <2>1, <2>2, <2>3 DEF RunJob, fileVars
<1>10. CASE RunJobError
  <2>1. Head(jobs) \in Requests
    BY <1>10, TakeFacts DEF RunJobError
  <2>2. /\ jobs' \in Seq(Requests) /\ Len(jobs') <= QueueSize
        /\ pc' \in [Requests -> PCs] /\ victim' \in [Requests -> 0..MaxRequests]
    <3> DEFINE r == Head(jobs)
               v == IF op[r].kind = "put" THEN r ELSE 0
    <3>1. jobs # <<>> /\ jobs' = Tail(jobs) /\ Reply(r, v)
      BY <1>10 DEF RunJobError
    <3>2. v \in 0..MaxRequests
      BY <1>n, <2>1
    <3> HIDE DEF r, v
    <3> QED BY <1>8, <1>n, <2>1, <3>1, <3>2 DEF r
  <2> QED BY <1>10, <1>u, <1>f, <2>2 DEF RunJobError, fileVars, rowVars
<1>11. ASSUME NEW r \in Requests, NEW st \in PCs, Finish(r, st), op' = op
       PROVE  pc' \in [Requests -> PCs] /\ lockq' \in Seq(Requests)
  BY <1>11, FinishFacts DEF Finish
<1>12. ASSUME NEW r \in Requests, CleanUp(r) PROVE TypeOK'
  <2>1. CASE victim[r] = 0 /\ Finish(r, Outcome(r)) /\ UNCHANGED unlinks
    <3>1. Outcome(r) \in PCs
      BY DEF Outcome
    <3>2. pc' \in [Requests -> PCs] /\ lockq' \in Seq(Requests)
      BY <1>11, <1>12, <2>1, <3>1 DEF CleanUp
    <3> QED BY <1>12, <1>u, <1>f, <2>1, <3>2 DEF CleanUp, rowVars
  <2>2. CASE /\ victim[r] # 0 /\ unlinks' = unlinks \cup {victim[r]}
             /\ pc' = [pc EXCEPT ![r] = "unlink"] /\ UNCHANGED lockq
    <3>1. victim[r] \in Requests
      BY <1>n, <2>2
    <3> QED BY <1>12, <1>u, <1>f, <2>2, <3>1 DEF CleanUp, rowVars
  <2> QED BY <1>12, <2>1, <2>2 DEF CleanUp
<1>13. ASSUME NEW r \in Requests, Unlink(r) PROVE TypeOK'
  BY <1>13, <1>u, <1>f DEF Unlink, reqVars, rowVars, Files
<1>14. ASSUME NEW r \in Requests, CleanedUp(r) \/ Drop(r) \/ load_blob(r) PROVE TypeOK'
  <2>1. \A st \in {"ok", "missing", "gone", Outcome(r)} : st \in PCs
    BY DEF Outcome
  <2>2. pc' \in [Requests -> PCs] /\ lockq' \in Seq(Requests)
    BY <1>11, <1>14, <2>1 DEF CleanedUp, Drop, load_blob
  <2> QED BY <1>14, <1>u, <1>f, <2>2 DEF CleanedUp, Drop, load_blob, rowVars, fileVars
<1>15. ASSUME NEW r \in Requests, SelectRow(r) PROVE TypeOK'
  <2>1. rows[op[r].obj].blob \in 0..MaxRequests
    BY OpsFacts
  <2> QED BY <1>15, <1>u, <1>f, <2>1 DEF SelectRow, fileVars
<1>16. CASE Crash \/ PowerLoss
  <2>1. file' \in [Requests -> Files]
    BY <1>16 DEF Crash, PowerLoss
  <2>2. /\ lockq' = <<>> /\ jobs' = <<>> /\ <<>> \in Seq(Requests)
        /\ Len(<<>>) = 0 /\ QueueSize \in Nat
    BY <1>16, EmptySeq, StorageAssumption DEF Crash, PowerLoss, Stop
  <2>3. pc' \in [Requests -> PCs] /\ unlinks' \subseteq Requests
        /\ task' \in [Requests -> {"none", "run", "ok", "err"}]
    BY <1>16 DEF Crash, PowerLoss, Stop
  <2> QED BY <1>16, <1>u, <1>f, <2>1, <2>2, <2>3 DEF Crash, PowerLoss, Stop, rowVars
<1>17. CASE Start \/ CheckBlobs \/ Serve
  BY <1>17, <1>u, <1>f DEF Start, CheckBlobs, Serve, reqVars, rowVars, fileVars
<1>18. ASSUME NEW r \in Requests, RemoveGarbage(r) PROVE TypeOK'
  BY <1>18, <1>u, <1>f DEF RemoveGarbage, reqVars, rowVars, Files
<1> QED BY <1>1, <1>2, <1>3, <1>4, <1>5, <1>6, <1>7, <1>9, <1>10, <1>12, <1>13, <1>14, <1>15,
           <1>16, <1>17, <1>18, NextCases

\* How a step moves the requests: only those that hold the lock or wait for it
\* may come to hold it, and who ends was under way.
LEMMA PcMoves ==
  ASSUME IInv, Next, NEW q \in Requests
  PROVE  /\ pc'[q] \in {"new", "writing", "lock"} => pc[q] \in {"new", "writing", "lock"}
         /\ pc'[q] = "new" => pc[q] = "new"
         /\ pc'[q] = "writing" => pc[q] \in {"new", "writing"}
         /\ pc[q] # "new" => op'[q] = op[q]
         /\ pc[q] # "new" \/ op'[q] = op[q] \/ pc'[q] \in {"writing", "lock"}
<1> DEFINE Goal == /\ pc'[q] \in {"new", "writing", "lock"} => pc[q] \in {"new", "writing", "lock"}
                   /\ pc'[q] = "new" => pc[q] = "new"
                   /\ pc'[q] = "writing" => pc[q] \in {"new", "writing"}
                   /\ pc[q] # "new" => op'[q] = op[q]
                   /\ pc[q] # "new" \/ op'[q] = op[q] \/ pc'[q] \in {"writing", "lock"}
<1> USE DEF IInv
<1>t. pc \in [Requests -> PCs] /\ op \in [Requests -> Ops]
  BY DEF TypeOK
<1>1. ASSUME NEW r \in Requests, NEW o \in Objects,
             BeginSave(r, o) \/ delete_object(r, o) \/ get_object(r, o)
      PROVE  Goal
  BY <1>1, <1>t DEF BeginSave, delete_object, get_object, Begin
<1>2. ASSUME UNCHANGED <<up, reqVars, fileVars, rowVars, lockq, jobs, faults>> PROVE Goal
  BY <1>2 DEF reqVars
<1>3. ASSUME NEW r \in Requests,
             \/ SaveWritten(r) \/ SaveNotWritten(r) \/ Submit(r) \/ CleanUp(r)
             \/ CleanedUp(r) \/ SelectRow(r) \/ load_blob(r) \/ Drop(r)
      PROVE  Goal
  BY <1>3, <1>t DEF SaveWritten, SaveNotWritten, Submit, CleanUp, CleanedUp, SelectRow, load_blob,
                    Drop, Finish, Outcome
<1>4. ASSUME NEW r \in Requests, TaskStep(r) \/ TaskError(r) \/ Unlink(r) \/ RemoveGarbage(r)
      PROVE  Goal
  BY <1>4 DEF TaskStep, TaskError, Unlink, RemoveGarbage, reqVars
<1>5. ASSUME RunJob \/ RunJobError PROVE Goal
  BY <1>5, <1>t DEF RunJob, RunJobError, Reply
<1>6. ASSUME Crash \/ PowerLoss PROVE Goal
  BY <1>6, <1>t DEF Crash, PowerLoss, Stop
<1>7. ASSUME Start \/ CheckBlobs \/ Serve PROVE Goal
  BY <1>7 DEF Start, CheckBlobs, Serve, reqVars
<1> HIDE DEF Goal
<1>8. Goal
  BY <1>1, <1>2, <1>3, <1>4, <1>5, <1>6, <1>7, NextCases
<1> QED BY <1>8 DEF Goal

\* How a step changes the writer's queue.
LEMMA JobMoves ==
  ASSUME IInv, Next
  PROVE  \/ UNCHANGED jobs
         \/ jobs' = <<>>
         \/ jobs # <<>> /\ jobs' = Tail(jobs) /\ (RunJob \/ RunJobError)
         \/ \E r \in Requests : Submit(r) /\ jobs' = Append(jobs, r)
<1> DEFINE Goal == \/ UNCHANGED jobs
                   \/ jobs' = <<>>
                   \/ jobs # <<>> /\ jobs' = Tail(jobs) /\ (RunJob \/ RunJobError)
                   \/ \E r \in Requests : Submit(r) /\ jobs' = Append(jobs, r)
<1>1. ASSUME NEW r \in Requests, NEW o \in Objects,
             BeginSave(r, o) \/ delete_object(r, o) \/ get_object(r, o)
      PROVE  Goal
  BY <1>1 DEF BeginSave, delete_object, get_object
<1>2. ASSUME UNCHANGED <<up, reqVars, fileVars, rowVars, lockq, jobs, faults>> PROVE Goal
  BY <1>2
<1>3. ASSUME NEW r \in Requests,
             \/ SaveWritten(r) \/ SaveNotWritten(r) \/ CleanUp(r)
             \/ CleanedUp(r) \/ SelectRow(r) \/ load_blob(r) \/ Drop(r)
             \/ TaskStep(r) \/ TaskError(r) \/ Unlink(r) \/ RemoveGarbage(r)
      PROVE  Goal
  BY <1>3 DEF SaveWritten, SaveNotWritten, CleanUp, CleanedUp, SelectRow, load_blob, Drop,
              TaskStep, TaskError, Unlink, RemoveGarbage
<1>4. ASSUME NEW r \in Requests, Submit(r) PROVE Goal
  BY <1>4 DEF Submit
<1>5. ASSUME RunJob \/ RunJobError PROVE Goal
  BY <1>5 DEF RunJob, RunJobError
<1>6. ASSUME Crash \/ PowerLoss PROVE Goal
  BY <1>6 DEF Crash, PowerLoss, Stop
<1>7. ASSUME Start \/ CheckBlobs \/ Serve PROVE Goal
  BY <1>7 DEF Start, CheckBlobs, Serve
<1> HIDE DEF Goal
<1>8. Goal
  BY <1>1, <1>2, <1>3, <1>4, <1>5, <1>6, <1>7, NextCases
<1> QED BY <1>8 DEF Goal

\* What is past stays past: no request takes a number twice.
LEMMA PastStep ==
  ASSUME IInv, Next, NEW b \in Requests, Past(b)
  PROVE  Past(b)'
<1> USE DEF IInv
<1>1. pc'[b] \notin {"new", "writing", "lock"}
  BY PcMoves DEF Past
<1>2. ~Queued(b)'
  <2>1. CASE UNCHANGED jobs \/ jobs' = <<>>
    BY <2>1 DEF Past, Queued
  <2>2. CASE jobs # <<>> /\ jobs' = Tail(jobs)
    BY <2>2, TakeFacts DEF Past
  <2>3. ASSUME NEW r \in Requests, Submit(r), jobs' = Append(jobs, r) PROVE ~Queued(b)'
    <3>1. r # b
      BY <2>3 DEF Submit, Past
    <3>2. /\ jobs \in Seq(Requests) /\ Len(jobs') = Len(jobs) + 1
          /\ \A i \in 1..Len(jobs) : jobs'[i] = jobs[i]
          /\ jobs'[Len(jobs) + 1] = r
      BY <2>3, AppendProperties DEF TypeOK
    <3> QED BY <3>1, <3>2 DEF Past, Queued
  <2> QED BY <2>1, <2>2, <2>3, JobMoves
<1> QED BY <1>1, <1>2 DEF Past

\* The lock's queue stays in order and who acts on it has been granted.
LEMMA LockStep ==
  ASSUME IInv, Next
  PROVE  LockOK'
<1> USE DEF IInv
<1>t. /\ pc \in [Requests -> PCs] /\ op \in [Requests -> Ops] /\ lockq \in Seq(Requests)
      /\ jobs \in Seq(Requests)
  BY DEF TypeOK
<1>l. /\ \A i, j \in 1..Len(lockq) : lockq[i] = lockq[j] => i = j
      /\ \A i \in 1..Len(lockq) : pc[lockq[i]] = "lock" \/ Holds(lockq[i])
      /\ \A r \in Requests :
           /\ Holds(r) => Granted(r) /\ (pc[r] = "read" <=> Shared(r))
           /\ pc[r] = "writing" => op[r].kind = "put"
  BY DEF LockOK
<1>1. ASSUME NEW r \in Requests, NEW o \in Objects, BeginSave(r, o) PROVE LockOK'
  <2>1. /\ pc[r] = "new" /\ pc' = [pc EXCEPT ![r] = "writing"] /\ lockq' = lockq
        /\ op' = [op EXCEPT ![r] = [kind |-> "put", obj |-> o]]
    BY <1>1 DEF BeginSave, Begin
  <2>2. \A i \in 1..Len(lockq) : lockq[i] # r /\ lockq[i] \in Requests
    BY <1>t, <1>l, <2>1 DEF Holds
  <2>3. \A q \in Requests \ {r} : Granted(q) => Granted(q)'
    BY <1>t, <2>1, <2>2 DEF Granted, Shared
  <2> QED BY <1>t, <1>l, <2>1, <2>2, <2>3 DEF LockOK, Holds, Shared
<1>2. ASSUME NEW r \in Requests, pc[r] \in {"new", "writing"},
             pc' = [pc EXCEPT ![r] = "lock"], lockq' = Append(lockq, r),
             \A q \in Requests \ {r} : op'[q] = op[q]
      PROVE  LockOK'
  <2>1. /\ \A i, j \in 1..Len(lockq') : lockq'[i] = lockq'[j] => i = j
        /\ \A i \in 1..Len(lockq') :
             lockq'[i] = r \/ \E j \in 1..Len(lockq) : lockq'[i] = lockq[j]
        /\ \A i \in 1..Len(lockq) : lockq[i] # r
        /\ \A q \in Requests \ {r} : Granted(q) => Granted(q)'
    BY <1>2, WaitFacts
  <2>2. ASSUME NEW i \in 1..Len(lockq')
        PROVE  pc'[lockq'[i]] \in {"lock", "job", "cleanup", "unlink", "read"}
    <3>1. CASE lockq'[i] = r
      BY <1>t, <1>2, <3>1
    <3>2. ASSUME NEW j \in 1..Len(lockq), lockq'[i] = lockq[j]
          PROVE  pc'[lockq'[i]] \in {"lock", "job", "cleanup", "unlink", "read"}
      BY <1>t, <1>2, <1>l, <2>1, <3>2 DEF Holds
    <3> QED BY <2>1, <3>1, <3>2
  <2>3. ASSUME NEW q \in Requests
        PROVE  /\ Holds(q)' => Granted(q)' /\ (pc'[q] = "read" <=> Shared(q)')
               /\ pc'[q] = "writing" => op'[q].kind = "put"
    BY <1>t, <1>2, <1>l, <2>1 DEF Holds, Shared
  <2> QED BY <2>1, <2>2, <2>3 DEF LockOK, Holds
<1>3. ASSUME NEW r \in Requests, NEW st, pc' = [pc EXCEPT ![r] = st],
             op' = op, lockq' = lockq,
             pc[r] = "lock" \/ Holds(r),
             st \in {"job", "cleanup", "unlink", "read"}, st = "read" <=> Shared(r), Granted(r)
      PROVE  LockOK'
  <2>1. \A q \in Requests : (Granted(q) <=> Granted(q)') /\ (Shared(q) <=> Shared(q)')
    BY <1>3 DEF Granted, Shared
  <2> QED BY <1>t, <1>3, <1>l, <2>1 DEF LockOK, Holds
<1>4. ASSUME NEW r \in Requests, NEW st, Finish(r, st), op' = op,
             st \in {"ok", "error", "missing", "gone"}
      PROVE  LockOK'
  <2>1. /\ \A i, j \in 1..Len(lockq') : lockq'[i] = lockq'[j] => i = j
        /\ \A i \in 1..Len(lockq') :
             lockq'[i] # r /\ \E j \in 1..Len(lockq) : lockq'[i] = lockq[j]
        /\ \A q \in Requests \ {r} : Granted(q) => Granted(q)'
    BY <1>4, FinishFacts
  <2>2. pc' = [pc EXCEPT ![r] = st]
    BY <1>4 DEF Finish
  <2>3. \A i \in 1..Len(lockq') :
          pc'[lockq'[i]] \in {"lock", "job", "cleanup", "unlink", "read"}
    BY <1>t, <1>l, <2>1, <2>2 DEF Holds
  <2>4. ASSUME NEW q \in Requests
        PROVE  /\ Holds(q)' => Granted(q)' /\ (pc'[q] = "read" <=> Shared(q)')
               /\ pc'[q] = "writing" => op'[q].kind = "put"
    BY <1>t, <1>4, <1>l, <2>1, <2>2 DEF Holds, Shared
  <2> QED BY <2>1, <2>3, <2>4 DEF LockOK, Holds
<1>5. ASSUME UNCHANGED <<pc, op, lockq>> PROVE LockOK'
  BY <1>5 DEF LockOK, Holds, Granted, Shared
<1>6. ASSUME NEW r \in Requests, pc[r] = "writing", pc' = [pc EXCEPT ![r] = "error"],
             UNCHANGED <<op, lockq>>
      PROVE  LockOK'
  <2>1. \A i \in 1..Len(lockq) : lockq[i] # r /\ lockq[i] \in Requests
    BY <1>t, <1>l, <1>6 DEF Holds
  <2>2. \A q \in Requests : (Granted(q) <=> Granted(q)') /\ (Shared(q) <=> Shared(q)')
    BY <1>6 DEF Granted, Shared
  <2> QED BY <1>t, <1>6, <1>l, <2>1, <2>2 DEF LockOK, Holds
<1>7. ASSUME RunJob \/ RunJobError PROVE LockOK'
  <2> DEFINE r == Head(jobs)
  <2>1. r \in Requests /\ UNCHANGED <<op, lockq>>
    BY <1>7, TakeFacts DEF RunJob, RunJobError
  <2>2. pc' = [pc EXCEPT ![r] = IF @ = "job" THEN "cleanup" ELSE @]
    BY <1>7 DEF RunJob, RunJobError, Reply
  <2> HIDE DEF r
  <2>3. CASE pc[r] # "job"
    <3>1. pc' = pc
      BY <1>t, <2>2, <2>3
    <3> QED BY <1>5, <2>1, <3>1
  <2>4. CASE pc[r] = "job"
    <3>1. pc' = [pc EXCEPT ![r] = "cleanup"] /\ Holds(r) /\ ~Shared(r) /\ Granted(r)
      BY <1>t, <1>l, <2>1, <2>2, <2>4 DEF Holds
    <3> QED BY <1>3, <2>1, <3>1
  <2> QED BY <2>3, <2>4
<1>8. ASSUME NEW r \in Requests, Submit(r) PROVE LockOK'
  BY <1>3, <1>8 DEF Submit
<1>9. ASSUME NEW r \in Requests, CleanUp(r) PROVE LockOK'
  <2>1. Holds(r) /\ Granted(r) /\ ~Shared(r) /\ op' = op
    BY <1>9, <1>l DEF CleanUp, Holds
  <2>2. CASE Finish(r, Outcome(r))
    <3>1. Outcome(r) \in {"ok", "error"}
      BY DEF Outcome
    <3> QED BY <1>4, <2>1, <2>2, <3>1
  <2>3. CASE pc' = [pc EXCEPT ![r] = "unlink"] /\ UNCHANGED lockq
    BY <1>3, <2>1, <2>3
  <2> QED BY <1>9, <2>2, <2>3 DEF CleanUp
<1>10. ASSUME NEW r \in Requests, CleanedUp(r) \/ Drop(r) \/ load_blob(r) PROVE LockOK'
  <2>1. \E st \in {"ok", "error", "missing", "gone"} : Finish(r, st) /\ op' = op
    BY <1>10 DEF CleanedUp, Drop, load_blob, Outcome
  <2> QED BY <1>4, <2>1
<1>11. ASSUME NEW r \in Requests, SelectRow(r) PROVE LockOK'
  BY <1>3, <1>11 DEF SelectRow
<1>12. ASSUME Crash \/ PowerLoss PROVE LockOK'
  <2>1. /\ lockq' = <<>> /\ op' = op
        /\ \A q \in Requests : ~Holds(q)' /\ pc'[q] # "writing"
    BY <1>12 DEF Crash, PowerLoss, Stop, Active, Holds
  <2> QED BY <2>1, EmptySeq DEF LockOK
<1>13. ASSUME NEW r \in Requests, NEW o \in Objects, delete_object(r, o) \/ get_object(r, o)
       PROVE  LockOK'
  BY <1>2, <1>t, <1>13 DEF delete_object, get_object, Begin
<1>14. ASSUME NEW r \in Requests, SaveWritten(r) PROVE LockOK'
  BY <1>2, <1>14 DEF SaveWritten
<1>15. ASSUME NEW r \in Requests, SaveNotWritten(r) PROVE LockOK'
  BY <1>6, <1>15 DEF SaveNotWritten
<1>16. ASSUME NEW r \in Requests, TaskStep(r) \/ TaskError(r) \/ Unlink(r) \/ RemoveGarbage(r)
       PROVE  LockOK'
  BY <1>5, <1>16 DEF TaskStep, TaskError, Unlink, RemoveGarbage, reqVars
<1>17. ASSUME Start \/ CheckBlobs \/ Serve
              \/ UNCHANGED <<up, reqVars, fileVars, rowVars, lockq, jobs, faults>>
       PROVE  LockOK'
  BY <1>5, <1>17 DEF Start, CheckBlobs, Serve, reqVars
<1> QED BY <1>1, <1>7, <1>8, <1>9, <1>10, <1>11, <1>12, <1>13, <1>14, <1>15, <1>16, <1>17, NextCases

\* What a step may do to the rows, to the removals and to the effects.
LEMMA EffectMoves ==
  ASSUME Next
  PROVE  /\ UNCHANGED rows \/ RunJob
         /\ \/ unlinks' \subseteq unlinks
            \/ \E r \in Requests :
                 CleanUp(r) /\ victim[r] # 0 /\ unlinks' = unlinks \cup {victim[r]}
         /\ \/ UNCHANGED applied \/ RunJob
            \/ \E r \in Requests : SelectRow(r)
<1> DEFINE Goal == /\ rows' = rows \/ RunJob
                   /\ \/ unlinks' \subseteq unlinks
                      \/ \E r \in Requests :
                           CleanUp(r) /\ victim[r] # 0 /\ unlinks' = unlinks \cup {victim[r]}
                   /\ \/ applied' = applied \/ RunJob
                      \/ \E r \in Requests : SelectRow(r)
<1>1. ASSUME NEW r \in Requests, NEW o \in Objects,
             BeginSave(r, o) \/ delete_object(r, o) \/ get_object(r, o)
      PROVE  Goal
  BY <1>1 DEF BeginSave, delete_object, get_object, rowVars, fileVars
<1>2. ASSUME UNCHANGED <<up, reqVars, fileVars, rowVars, lockq, jobs, faults>> PROVE Goal
  BY <1>2 DEF rowVars, fileVars
<1>3. ASSUME NEW r \in Requests,
             \/ SaveWritten(r) \/ SaveNotWritten(r) \/ Submit(r)
             \/ CleanedUp(r) \/ load_blob(r) \/ Drop(r)
             \/ TaskStep(r) \/ TaskError(r) \/ Unlink(r) \/ RemoveGarbage(r)
      PROVE  Goal
  BY <1>3 DEF SaveWritten, SaveNotWritten, Submit, CleanedUp, load_blob, Drop,
              TaskStep, TaskError, Unlink, RemoveGarbage, rowVars, fileVars
<1>4. ASSUME NEW r \in Requests, CleanUp(r) PROVE Goal
  BY <1>4 DEF CleanUp, rowVars
<1>5. ASSUME NEW r \in Requests, SelectRow(r) PROVE Goal
  BY <1>5 DEF SelectRow, fileVars
<1>6. ASSUME RunJob \/ RunJobError PROVE Goal
  BY <1>6 DEF RunJob, RunJobError, rowVars, fileVars
<1>7. ASSUME Crash \/ PowerLoss PROVE Goal
  BY <1>7 DEF Crash, PowerLoss, Stop, rowVars
<1>8. ASSUME Start \/ CheckBlobs \/ Serve PROVE Goal
  BY <1>8 DEF Start, CheckBlobs, Serve, rowVars, fileVars
<1> HIDE DEF Goal
<1>9. Goal
  BY <1>1, <1>2, <1>3, <1>4, <1>5, <1>6, <1>7, <1>8, NextCases
<1> QED BY <1>9 DEF Goal

\* A request whose job is queued stays as it is, but may be dropped.
LEMMA QueuedStays ==
  ASSUME IInv, Next, NEW q \in Requests, pc[q] \in {"job", "gone"}, ~Shared(q),
         RunJob \/ RunJobError => q # Head(jobs)
  PROVE  /\ pc'[q] \in {"job", "gone"} /\ op'[q] = op[q]
         /\ q \notin applied => q \notin applied'
<1> USE DEF IInv
<1>t. pc \in [Requests -> PCs] /\ op \in [Requests -> Ops]
  BY DEF TypeOK
<1>1. op'[q] = op[q]
  BY PcMoves
<1>2. q \notin applied => q \notin applied'
  <2>1. ASSUME NEW r \in Requests, SelectRow(r) PROVE q \notin applied => q \notin applied'
    BY <2>1 DEF SelectRow
  <2>2. RunJob => (q \notin applied => q \notin applied')
    BY DEF RunJob
  <2> QED BY <2>1, <2>2, EffectMoves
<1> DEFINE Goal == pc'[q] \in {"job", "gone"}
<1>3. ASSUME NEW r \in Requests, NEW o \in Objects,
             BeginSave(r, o) \/ delete_object(r, o) \/ get_object(r, o)
      PROVE  Goal
  BY <1>3, <1>t DEF BeginSave, delete_object, get_object, Begin
<1>4. ASSUME UNCHANGED <<up, reqVars, fileVars, rowVars, lockq, jobs, faults>> PROVE Goal
  BY <1>4 DEF reqVars
<1>5. ASSUME NEW r \in Requests,
             \/ SaveWritten(r) \/ SaveNotWritten(r) \/ Submit(r) \/ CleanUp(r)
             \/ CleanedUp(r) \/ SelectRow(r) \/ load_blob(r) \/ Drop(r)
      PROVE  Goal
  BY <1>5, <1>t DEF SaveWritten, SaveNotWritten, Submit, CleanUp, CleanedUp, SelectRow, load_blob,
                    Drop, Finish
<1>6. ASSUME NEW r \in Requests, TaskStep(r) \/ TaskError(r) \/ Unlink(r) \/ RemoveGarbage(r)
      PROVE  Goal
  BY <1>6 DEF TaskStep, TaskError, Unlink, RemoveGarbage, reqVars
<1>7. ASSUME RunJob \/ RunJobError PROVE Goal
  BY <1>7, <1>t DEF RunJob, RunJobError, Reply
<1>8. ASSUME Crash \/ PowerLoss PROVE Goal
  BY <1>8, <1>t DEF Crash, PowerLoss, Stop, Active
<1>9. ASSUME Start \/ CheckBlobs \/ Serve PROVE Goal
  BY <1>9 DEF Start, CheckBlobs, Serve, reqVars
<1> HIDE DEF Goal
<1>10. Goal
  BY <1>3, <1>4, <1>5, <1>6, <1>7, <1>8, <1>9, NextCases
<1> QED BY <1>1, <1>2, <1>10 DEF Goal

\* A job is queued once, by a request that has the lock, and waits there
\* whatever becomes of the request.
LEMMA JobsStep ==
  ASSUME IInv, Next
  PROVE  JobsOK'
<1> USE DEF IInv
<1>t. jobs \in Seq(Requests) /\ pc \in [Requests -> PCs]
  BY DEF TypeOK
<1>j. /\ \A j, k \in 1..Len(jobs) : jobs[j] = jobs[k] => j = k
      /\ \A q \in Requests : Queued(q) =>
           pc[q] \in {"job", "gone"} /\ ~Shared(q) /\ q \notin applied
  BY DEF JobsOK, Queued
<1>s. ASSUME NEW q \in Requests, Queued(q), RunJob \/ RunJobError => q # Head(jobs)
      PROVE  pc'[q] \in {"job", "gone"} /\ op'[q].kind # "get" /\ q \notin applied'
  BY <1>j, <1>s, QueuedStays DEF Shared
<1>1. CASE jobs' = <<>>
  BY <1>1 DEF JobsOK
<1>2. CASE UNCHANGED jobs
  <2>1. ASSUME RunJob \/ RunJobError PROVE FALSE
    <3>1. jobs # <<>> /\ jobs' = Tail(jobs)
      BY <2>1 DEF RunJob, RunJobError
    <3>2. Len(jobs') = Len(jobs) - 1 /\ Len(jobs) \in Nat
      BY <1>t, <3>1, HeadTailProperties
    <3> QED BY <1>2, <3>2
  <2>2. \A k \in 1..Len(jobs) : jobs[k] \in Requests /\ Queued(jobs[k])
    BY <1>t DEF Queued
  <2> QED BY <1>2, <1>j, <1>s, <2>1, <2>2 DEF JobsOK, Shared
<1>3. CASE jobs # <<>> /\ jobs' = Tail(jobs)
  <2>1. /\ \A j, k \in 1..Len(jobs') : jobs'[j] = jobs'[k] => j = k
        /\ \A k \in 1..Len(jobs') : jobs'[k] # Head(jobs) /\ Queued(jobs'[k])
        /\ jobs' \in Seq(Requests)
    BY <1>3, TakeFacts
  <2>2. \A k \in 1..Len(jobs') : jobs'[k] \in Requests
    BY <2>1
  <2> QED BY <1>s, <2>1, <2>2 DEF JobsOK, Shared
<1>4. ASSUME NEW r \in Requests, Submit(r), jobs' = Append(jobs, r) PROVE JobsOK'
  <2>1. /\ jobs' \in Seq(Requests) /\ Len(jobs') = Len(jobs) + 1 /\ Len(jobs) \in Nat
        /\ \A i \in 1..Len(jobs) : jobs'[i] = jobs[i]
        /\ jobs'[Len(jobs) + 1] = r
    BY <1>t, <1>4, AppendProperties
  <2>2. /\ pc[r] = "lock" /\ pc' = [pc EXCEPT ![r] = "job"] /\ ~Shared(r)
        /\ UNCHANGED <<op, applied>> /\ r \notin applied
    BY <1>4 DEF Submit, rowVars, AppliedOK
  <2>3. \A i \in 1..Len(jobs) : jobs[i] \in Requests /\ Queued(jobs[i]) /\ jobs[i] # r
    BY <1>t, <1>j, <2>2 DEF Queued
  <2>4. \A j, k \in 1..Len(jobs') : jobs'[j] = jobs'[k] => j = k
    BY <1>j, <2>1, <2>3
  <2>5. ASSUME NEW k \in 1..Len(jobs')
        PROVE  pc'[jobs'[k]] \in {"job", "gone"} /\ op'[jobs'[k]].kind # "get"
               /\ jobs'[k] \notin applied'
    <3>1. CASE k = Len(jobs) + 1
      BY <1>t, <2>1, <2>2, <3>1 DEF Shared
    <3>2. CASE k \in 1..Len(jobs)
      BY <1>t, <1>j, <2>1, <2>2, <2>3, <3>2 DEF Shared
    <3> QED BY <2>1, <3>1, <3>2
  <2> QED BY <2>4, <2>5 DEF JobsOK, Shared
<1> QED BY <1>1, <1>2, <1>3, <1>4, JobMoves

\* A request takes effect when its job or its read runs, once.
LEMMA AppliedStep ==
  ASSUME IInv, Next
  PROVE  AppliedOK'
<1> USE DEF IInv
<1>t. pc \in [Requests -> PCs] /\ jobs \in Seq(Requests)
  BY DEF TypeOK
<1>1. ASSUME NEW q \in Requests, pc'[q] \in {"new", "writing", "lock"} PROVE q \notin applied'
  <2>1. pc[q] \in {"new", "writing", "lock"} /\ q \notin applied
    BY <1>1, PcMoves DEF AppliedOK
  <2>2. ASSUME RunJob PROVE q \notin applied'
    <3>1. Head(jobs) \in Requests /\ Queued(Head(jobs)) /\ applied' = applied \cup {Head(jobs)}
      BY <2>2, TakeFacts DEF RunJob
    <3>2. pc[Head(jobs)] \in {"job", "gone"}
      BY <3>1 DEF Queued, JobsOK
    <3> QED BY <2>1, <3>1, <3>2
  <2>3. ASSUME NEW r \in Requests, SelectRow(r) PROVE q \notin applied'
    <3>1. pc' = [pc EXCEPT ![r] = "read"] /\ applied' = applied \cup {r}
      BY <2>3 DEF SelectRow
    <3> QED BY <1>t, <1>1, <2>1, <3>1
  <2> QED BY <2>1, <2>2, <2>3, EffectMoves
<1>2. ASSUME NEW q \in Requests, pc'[q] = "read" PROVE q \in applied'
  <2>1. applied \subseteq applied'
    BY EffectMoves DEF RunJob, SelectRow
  <2>2. ASSUME pc[q] # "read" PROVE SelectRow(q)
    <3>1. ASSUME NEW r \in Requests, NEW o \in Objects,
                 BeginSave(r, o) \/ delete_object(r, o) \/ get_object(r, o)
          PROVE  FALSE
      BY <1>2, <1>t, <2>2, <3>1 DEF BeginSave, delete_object, get_object, Begin
    <3>2. ASSUME NEW r \in Requests,
                 \/ SaveWritten(r) \/ SaveNotWritten(r) \/ Submit(r) \/ CleanUp(r)
                 \/ CleanedUp(r) \/ load_blob(r) \/ Drop(r)
          PROVE  FALSE
      BY <1>2, <1>t, <2>2, <3>2 DEF SaveWritten, SaveNotWritten, Submit, CleanUp, CleanedUp,
                                    load_blob, Drop, Finish, Outcome
    <3>3. ASSUME NEW r \in Requests, SelectRow(r) PROVE SelectRow(q)
      BY <1>2, <1>t, <2>2, <3>3 DEF SelectRow
    <3>4. ASSUME RunJob \/ RunJobError PROVE FALSE
      BY <1>2, <1>t, <2>2, <3>4 DEF RunJob, RunJobError, Reply
    <3>5. ASSUME Crash \/ PowerLoss PROVE FALSE
      BY <1>2, <1>t, <2>2, <3>5 DEF Crash, PowerLoss, Stop, Active
    <3>6. ASSUME UNCHANGED pc PROVE FALSE
      BY <1>2, <2>2, <3>6
    <3>7. \A r \in Requests :
            TaskStep(r) \/ TaskError(r) \/ Unlink(r) \/ RemoveGarbage(r) => UNCHANGED pc
      BY DEF TaskStep, TaskError, Unlink, RemoveGarbage, reqVars
    <3>8. Start \/ CheckBlobs \/ Serve
          \/ UNCHANGED <<up, reqVars, fileVars, rowVars, lockq, jobs, faults>> => UNCHANGED pc
      BY DEF Start, CheckBlobs, Serve, reqVars
    <3> QED BY <3>1, <3>2, <3>3, <3>4, <3>5, <3>6, <3>7, <3>8, NextCases
  <2>3. SelectRow(q) => q \in applied'
    BY DEF SelectRow
  <2> QED BY <2>1, <2>2, <2>3 DEF AppliedOK
<1> QED BY <1>1, <1>2 DEF AppliedOK

\* How a step changes the file and the write of a request.
LEMMA FileMoves ==
  ASSUME IInv, Next, NEW q \in Requests
  PROVE  /\ file[q] = "stored" => file'[q] = "stored" \/ Unlink(q) \/ RemoveGarbage(q)
         /\ pc[q] = "new" => file'[q] = "none"
         /\ pc'[q] = "new" => task'[q] = "none"
         /\ task'[q] = "ok" => task[q] = "ok" \/ file'[q] = "stored"
<1> DEFINE Goal == /\ file[q] = "stored" => file'[q] = "stored" \/ Unlink(q) \/ RemoveGarbage(q)
                   /\ pc[q] = "new" => file'[q] = "none"
                   /\ pc'[q] = "new" => task'[q] = "none"
                   /\ task'[q] = "ok" => task[q] = "ok" \/ file'[q] = "stored"
<1> USE DEF IInv
<1>t. /\ pc \in [Requests -> PCs] /\ file \in [Requests -> Files]
      /\ task \in [Requests -> {"none", "run", "ok", "err"}]
      /\ pc[q] = "new" => file[q] = "none" /\ task[q] = "none"
      /\ pc'[q] = "new" => pc[q] = "new"
  BY PcMoves DEF TypeOK, FilesOK
<1>1. ASSUME NEW r \in Requests, NEW o \in Objects,
             BeginSave(r, o) \/ delete_object(r, o) \/ get_object(r, o)
      PROVE  Goal
  BY <1>1, <1>t DEF BeginSave, delete_object, get_object, Begin, fileVars
<1>2. ASSUME UNCHANGED <<up, reqVars, fileVars, rowVars, lockq, jobs, faults>> PROVE Goal
  BY <1>2, <1>t DEF reqVars, fileVars
<1>3. ASSUME NEW r \in Requests,
             \/ SaveWritten(r) \/ Submit(r) \/ CleanUp(r)
             \/ CleanedUp(r) \/ SelectRow(r) \/ load_blob(r) \/ Drop(r)
      PROVE  Goal
  BY <1>3, <1>t DEF SaveWritten, Submit, CleanUp, CleanedUp, SelectRow, load_blob, Drop, fileVars
<1>4. ASSUME NEW r \in Requests, TaskStep(r) PROVE Goal
  BY <1>4, <1>t DEF TaskStep, reqVars
<1>5. ASSUME NEW r \in Requests, TaskError(r) PROVE Goal
  BY <1>5, <1>t DEF TaskError, reqVars
<1>6. ASSUME NEW r \in Requests, SaveNotWritten(r) PROVE Goal
  BY <1>6, <1>t DEF SaveNotWritten
<1>7. ASSUME NEW r \in Requests, Unlink(r) PROVE Goal
  <2>1. CASE r = q
    BY <1>7, <1>t, <2>1 DEF Unlink, InBlobs, reqVars
  <2>2. CASE r # q
    BY <1>7, <1>t, <2>2 DEF Unlink, reqVars
  <2> QED BY <2>1, <2>2
<1>8. ASSUME NEW r \in Requests, RemoveGarbage(r) PROVE Goal
  <2>1. CASE r = q
    BY <1>8, <1>t, <2>1 DEF RemoveGarbage, Garbage, InBlobs, reqVars
  <2>2. CASE r # q
    BY <1>8, <1>t, <2>2 DEF RemoveGarbage, reqVars
  <2> QED BY <2>1, <2>2
<1>9. ASSUME RunJob \/ RunJobError PROVE Goal
  BY <1>9, <1>t DEF RunJob, RunJobError, fileVars
<1>10. ASSUME Crash \/ PowerLoss PROVE Goal
  <2>1. task' = [r \in Requests |-> "none"]
    BY <1>10 DEF Crash, PowerLoss, Stop
  <2>2. file[q] \in {"none", "stored"} => file'[q] = file[q]
    BY <1>10 DEF Crash, PowerLoss, Survives
  <2> QED BY <1>t, <2>1, <2>2
<1>11. ASSUME Start \/ CheckBlobs \/ Serve PROVE Goal
  BY <1>11, <1>t DEF Start, CheckBlobs, Serve, reqVars, fileVars
<1> HIDE DEF Goal
<1>12. Goal
  BY <1>1, <1>2, <1>3, <1>4, <1>5, <1>6, <1>7, <1>8, <1>9, <1>10, <1>11, NextCases
<1> QED BY <1>12 DEF Goal

\* The blob of a request that has not committed yet is nobody's to remove.
LEMMA FilesStep ==
  ASSUME IInv, Next
  PROVE  FilesOK'
<1> USE DEF IInv
<1>t. pc \in [Requests -> PCs] /\ op \in [Requests -> Ops] /\ jobs \in Seq(Requests)
  BY DEF TypeOK
<1> SUFFICES ASSUME NEW q \in Requests
             PROVE  /\ pc'[q] = "new" => file'[q] = "none" /\ task'[q] = "none"
                    /\ pc'[q] = "writing" /\ task'[q] = "ok" => file'[q] = "stored"
                    /\ (pc'[q] = "lock" \/ Queued(q)') /\ op'[q].kind = "put"
                         => file'[q] = "stored"
  BY DEF FilesOK
<1>1. pc'[q] = "new" => file'[q] = "none" /\ task'[q] = "none"
  BY FileMoves, PcMoves
<1>k. ASSUME pc[q] \in {"writing", "lock"} \/ Queued(q), file[q] = "stored"
      PROVE  file'[q] = "stored"
  <2>1. ~Unlink(q)
    BY <1>k DEF Unlink, RemovedOK, Past
  <2>2. ~RemoveGarbage(q)
    <3>1. ASSUME up = "removing" PROVE FALSE
      BY <1>k, <3>1 DEF OnlyStartup, Active, Queued
    <3> QED BY <3>1 DEF RemoveGarbage
  <2> QED BY <1>k, <2>1, <2>2, FileMoves
<1>2. ASSUME pc'[q] = "writing", task'[q] = "ok" PROVE file'[q] = "stored"
  <2>1. pc[q] \in {"new", "writing"}
    BY <1>2, PcMoves
  <2>2. CASE task[q] = "ok"
    <3>1. pc[q] = "writing" /\ file[q] = "stored"
      BY <2>1, <2>2 DEF FilesOK
    <3> QED BY <1>k, <3>1
  <2>3. CASE task[q] # "ok"
    BY <1>2, <2>3, FileMoves
  <2> QED BY <2>2, <2>3
<1>3. ASSUME Queued(q)', op'[q].kind = "put" PROVE file'[q] = "stored"
  <2>1. CASE Queued(q)
    <3>1. op'[q] = op[q]
      BY <2>1, PcMoves DEF JobsOK, Queued
    <3>2. file[q] = "stored"
      BY <1>3, <2>1, <3>1 DEF FilesOK
    <3> QED BY <1>k, <2>1, <3>2
  <2>2. CASE ~Queued(q)
    <3>1. ~(jobs' = jobs) /\ ~(jobs' = <<>>)
      BY <1>3, <2>2 DEF Queued
    <3>2. ~(jobs # <<>> /\ jobs' = Tail(jobs))
      BY <1>3, <2>2, TakeFacts
    <3>3. PICK r \in Requests : Submit(r) /\ jobs' = Append(jobs, r)
      BY <3>1, <3>2, JobMoves
    <3>4. r = q
      BY <1>t, <1>3, <2>2, <3>3, AppendProperties DEF Queued
    <3>5. pc[q] = "lock" /\ op' = op
      BY <3>3, <3>4 DEF Submit
    <3>6. file[q] = "stored"
      BY <1>3, <3>5 DEF FilesOK
    <3> QED BY <1>k, <3>5, <3>6
  <2> QED BY <2>1, <2>2
<1>4. ASSUME pc'[q] = "lock", op'[q].kind = "put" PROVE file'[q] = "stored"
  <2>1. CASE pc[q] = "lock"
    <3>1. op'[q] = op[q]
      BY <2>1, PcMoves
    <3>2. file[q] = "stored"
      BY <1>4, <2>1, <3>1 DEF FilesOK
    <3> QED BY <1>k, <2>1, <3>2
  <2>2. ASSUME pc[q] # "lock" PROVE SaveWritten(q)
    <3>1. ASSUME NEW r \in Requests, NEW o \in Objects,
                 BeginSave(r, o) \/ delete_object(r, o) \/ get_object(r, o)
          PROVE  FALSE
      BY <1>4, <1>t, <2>2, <3>1 DEF BeginSave, delete_object, get_object, Begin
    <3>2. ASSUME NEW r \in Requests,
                 \/ SelectRow(r) \/ SaveNotWritten(r) \/ Submit(r) \/ CleanUp(r)
                 \/ CleanedUp(r) \/ load_blob(r) \/ Drop(r)
          PROVE  FALSE
      BY <1>4, <1>t, <2>2, <3>2 DEF SelectRow, SaveNotWritten, Submit, CleanUp, CleanedUp,
                                    load_blob, Drop, Finish, Outcome
    <3>3. ASSUME NEW r \in Requests, SaveWritten(r) PROVE SaveWritten(q)
      BY <1>4, <1>t, <2>2, <3>3 DEF SaveWritten
    <3>4. ASSUME RunJob \/ RunJobError PROVE FALSE
      BY <1>4, <1>t, <2>2, <3>4 DEF RunJob, RunJobError, Reply
    <3>5. ASSUME Crash \/ PowerLoss PROVE FALSE
      BY <1>4, <1>t, <2>2, <3>5 DEF Crash, PowerLoss, Stop, Active
    <3>6. ASSUME UNCHANGED pc PROVE FALSE
      BY <1>4, <2>2, <3>6
    <3>7. \A r \in Requests :
            TaskStep(r) \/ TaskError(r) \/ Unlink(r) \/ RemoveGarbage(r) => UNCHANGED pc
      BY DEF TaskStep, TaskError, Unlink, RemoveGarbage, reqVars
    <3>8. Start \/ CheckBlobs \/ Serve
          \/ UNCHANGED <<up, reqVars, fileVars, rowVars, lockq, jobs, faults>> => UNCHANGED pc
      BY DEF Start, CheckBlobs, Serve, reqVars
    <3> QED BY <3>1, <3>2, <3>3, <3>4, <3>5, <3>6, <3>7, <3>8, NextCases
  <2>3. ASSUME SaveWritten(q) PROVE file'[q] = "stored"
    BY <1>k, <2>3 DEF SaveWritten, FilesOK
  <2> QED BY <2>1, <2>2, <2>3
<1> QED BY <1>1, <1>2, <1>3, <1>4

\* What RunJob does: the row of one object becomes the request's, or none, and
\* what it held before is past and nobody else's.
LEMMA RunJobFacts ==
  ASSUME IInv, Next, RunJob
  PROVE  \E r \in Requests :
           /\ r = Head(jobs) /\ op[r].obj \in Objects /\ Queued(r) /\ r # 0 /\ Past(r)'
           /\ UNCHANGED <<op, unlinks, file>>
           /\ \A o \in Objects \ {op[r].obj} : rows'[o] = rows[o]
           /\ \/ /\ op[r].kind = "put" /\ rows'[op[r].obj].blob = r
                 /\ rows'[op[r].obj].gen = gen + 1 /\ gen' = gen + 1
              \/ /\ op[r].kind = "delete"
                 /\ rows'[op[r].obj] = NoRow /\ gen' = gen
           /\ pc' = [pc EXCEPT ![r] = IF @ = "job" THEN "cleanup" ELSE @]
           /\ victim' = [victim EXCEPT ![r] = rows[op[r].obj].blob]
           /\ applied' = applied \cup {r}
<1> USE DEF IInv
<1>1. PICK r \in Requests : r = Head(jobs)
  BY TakeFacts DEF RunJob
<1>2. Queued(r) /\ op[r].obj \in Objects /\ jobs # <<>> /\ jobs' = Tail(jobs)
  <2>1. Queued(r) /\ jobs # <<>> /\ jobs' = Tail(jobs)
    BY <1>1, TakeFacts DEF RunJob
  <2> QED BY <1>1, <2>1, OpsFacts DEF TypeOK
<1>3. pc[r] \in {"job", "gone"} /\ ~Queued(r)'
  BY <1>1, <1>2, TakeFacts DEF JobsOK, Queued
<1>4. pc' = [pc EXCEPT ![r] = IF @ = "job" THEN "cleanup" ELSE @]
  BY <1>1 DEF RunJob, Reply
<1>5. Past(r)'
  BY <1>3, <1>4 DEF Past, TypeOK
<1>6. r # 0
  BY StorageAssumption DEF Requests
<1>7. /\ \A o \in Objects \ {op[r].obj} : rows'[o] = rows[o]
      /\ \/ /\ op[r].kind = "put" /\ rows'[op[r].obj].blob = r
            /\ rows'[op[r].obj].gen = gen + 1 /\ gen' = gen + 1
         \/ /\ op[r].kind = "delete"
            /\ rows'[op[r].obj] = NoRow /\ gen' = gen
  BY <1>1, <1>2 DEF RunJob, TypeOK
<1>8. victim' = [victim EXCEPT ![r] = rows[op[r].obj].blob]
  BY <1>1 DEF RunJob, Reply
<1>9. UNCHANGED <<op, unlinks, file>> /\ applied' = applied \cup {r}
  BY <1>1 DEF RunJob, fileVars
<1> QED BY <1>1, <1>2, <1>4, <1>5, <1>6, <1>7, <1>8, <1>9

\* What a row references keeps its file, and the row of another object is
\* another request's.
LEMMA RowsStep ==
  ASSUME IInv, Next
  PROVE  RowsOK'
<1> USE DEF IInv
<1> SUFFICES ASSUME NEW o \in Objects, NEW b, b = rows'[o].blob, b # 0
             PROVE  Past(b)' /\ op'[b] = [kind |-> "put", obj |-> o] /\ b \notin unlinks'
  BY DEF RowsOK
<1>t. /\ rows \in [Objects -> [blob : 0..MaxRequests, gen : Nat]]
      /\ \A x \in 0..MaxRequests : x # 0 => x \in Requests
      /\ \A x \in Objects : rows[x].blob # 0 => rows[x].blob \in Referenced
  BY StorageAssumption DEF TypeOK, Requests, Referenced
<1>1. CASE rows' = rows
  <2>1. /\ Past(b) /\ op[b] = [kind |-> "put", obj |-> o] /\ b \notin unlinks
        /\ b \in Requests /\ b \in Referenced
    BY <1>1, <1>t DEF RowsOK
  <2>2. op'[b] = op[b]
    BY <2>1, PcMoves DEF Past
  <2>3. b \notin unlinks'
    BY <2>1, EffectMoves DEF RemovedOK, CleanUp
  <2> QED BY <2>1, <2>2, <2>3, PastStep
<1>2. CASE RunJob
  <2>1. PICK r \in Requests :
           /\ r = Head(jobs) /\ op[r].obj \in Objects /\ Queued(r) /\ r # 0 /\ Past(r)'
           /\ UNCHANGED <<op, unlinks, file>>
           /\ \A x \in Objects \ {op[r].obj} : rows'[x] = rows[x]
           /\ \/ op[r].kind = "put" /\ rows'[op[r].obj].blob = r
              \/ rows'[op[r].obj] = NoRow
    BY <1>2, RunJobFacts
  <2>2. CASE o = op[r].obj
    <3>1. op[r].kind = "put" /\ b = r
      BY <2>1, <2>2 DEF NoRow
    <3>2. op[r] = [kind |-> "put", obj |-> o]
      BY <2>2, <3>1 DEF TypeOK, Ops
    <3>3. r \notin unlinks
      BY <2>1 DEF RemovedOK, Past
    <3> QED BY <2>1, <3>1, <3>2, <3>3
  <2>3. CASE o # op[r].obj
    <3>1. b = rows[o].blob /\ b \in Requests
      BY <1>t, <2>1, <2>3
    <3> QED BY <2>1, <3>1, PastStep DEF RowsOK
  <2> QED BY <2>2, <2>3
<1> QED BY <1>1, <1>2, EffectMoves

\* What is removed has lost its row for good.
LEMMA RemovedStep ==
  ASSUME IInv, Next
  PROVE  RemovedOK'
<1> USE DEF IInv
<1>t. /\ rows \in [Objects -> [blob : 0..MaxRequests, gen : Nat]]
      /\ victim \in [Requests -> 0..MaxRequests] /\ pc \in [Requests -> PCs]
      /\ unlinks \subseteq Requests
      /\ \A x \in 0..MaxRequests : x # 0 => x \in Requests
  BY StorageAssumption DEF TypeOK, Requests
<1>r. ASSUME NEW b \in Requests, Past(b), b \notin Referenced PROVE b \notin Referenced'
  <2>1. ASSUME RunJob PROVE b \notin Referenced'
    <3>1. PICK r \in Requests :
           /\ r = Head(jobs) /\ op[r].obj \in Objects /\ Queued(r)
           /\ \A x \in Objects \ {op[r].obj} : rows'[x] = rows[x]
           /\ rows'[op[r].obj].blob = r \/ rows'[op[r].obj] = NoRow
      BY <2>1, RunJobFacts
    <3>2. b # r /\ b # 0
      BY <1>r, <3>1, StorageAssumption DEF Past, Requests
    <3> QED BY <1>r, <3>1, <3>2 DEF Referenced, NoRow
  <2> QED BY <1>r, <2>1, EffectMoves DEF Referenced
<1>p. ASSUME NEW b \in Requests, Past(b), b \notin Referenced
      PROVE  Past(b)' /\ b \notin Referenced'
  BY <1>p, <1>r, PastStep
<1>1. ASSUME NEW b \in unlinks' PROVE Past(b)' /\ b \notin Referenced'
  <2>1. CASE b \in unlinks
    BY <1>p, <1>t, <2>1 DEF RemovedOK
  <2>2. ASSUME NEW r \in Requests, CleanUp(r), victim[r] # 0, b = victim[r]
        PROVE  Past(b)' /\ b \notin Referenced'
    <3>1. Past(b) /\ b \notin Referenced /\ b \in Requests
      BY <1>t, <2>2 DEF CleanUp, RemovedOK
    <3> QED BY <1>p, <3>1
  <2> QED BY <1>1, <2>1, <2>2, EffectMoves
<1> DEFINE Goal(q) == pc'[q] \in {"cleanup", "unlink"} /\ victim'[q] # 0 =>
                        \A b \in {victim'[q]} : Past(b)' /\ b \notin Referenced'
<1>2. ASSUME NEW q \in Requests, pc[q] \in {"cleanup", "unlink"}, victim'[q] = victim[q]
      PROVE  Goal(q)
  <2>1. victim[q] # 0 => victim[q] \in Requests /\ Past(victim[q]) /\ victim[q] \notin Referenced
    BY <1>t, <1>2 DEF RemovedOK
  <2> QED BY <1>2, <1>p, <2>1
<1>3. ASSUME NEW q \in Requests PROVE Goal(q)
  <2>1. ASSUME NEW r \in Requests, NEW o \in Objects,
               BeginSave(r, o) \/ delete_object(r, o) \/ get_object(r, o)
        PROVE  Goal(q)
    <3>1. victim' = victim /\ (pc'[q] \in {"cleanup", "unlink"} => pc[q] \in {"cleanup", "unlink"})
      BY <1>t, <2>1 DEF BeginSave, delete_object, get_object, Begin
    <3> QED BY <1>2, <3>1
  <2>2. ASSUME NEW r \in Requests,
               \/ SaveNotWritten(r) \/ SaveWritten(r) \/ Submit(r)
               \/ CleanedUp(r) \/ load_blob(r) \/ Drop(r)
        PROVE  Goal(q)
    <3>1. victim' = victim /\ (pc'[q] \in {"cleanup", "unlink"} => pc[q] \in {"cleanup", "unlink"})
      BY <1>t, <2>2 DEF SaveWritten, SaveNotWritten, Submit, CleanedUp,
                        load_blob, Drop, Finish, Outcome
    <3> QED BY <1>2, <3>1
  <2>3. ASSUME NEW r \in Requests, CleanUp(r) PROVE Goal(q)
    <3>1. victim' = victim /\ (pc'[q] \in {"cleanup", "unlink"} => pc[q] \in {"cleanup", "unlink"})
      BY <1>t, <2>3 DEF CleanUp, Finish, Outcome
    <3> QED BY <1>2, <3>1
  <2>4. ASSUME NEW r \in Requests, SelectRow(r) PROVE Goal(q)
    <3>1. pc'[q] \in {"cleanup", "unlink"} => pc[q] \in {"cleanup", "unlink"} /\ victim'[q] = victim[q]
      BY <1>t, <2>4 DEF SelectRow
    <3> QED BY <1>2, <3>1
  <2>5. ASSUME RunJob PROVE Goal(q)
    <3>1. PICK r \in Requests :
           /\ r = Head(jobs) /\ op[r].obj \in Objects /\ Queued(r) /\ r # 0
           /\ \A x \in Objects \ {op[r].obj} : rows'[x] = rows[x]
           /\ \/ op[r].kind = "put" /\ rows'[op[r].obj].blob = r
              \/ rows'[op[r].obj] = NoRow
           /\ pc' = [pc EXCEPT ![r] = IF @ = "job" THEN "cleanup" ELSE @]
           /\ victim' = [victim EXCEPT ![r] = rows[op[r].obj].blob]
      BY <2>5, RunJobFacts
    <3>2. CASE q # r
      <4>1. pc'[q] = pc[q] /\ victim'[q] = victim[q]
        BY <1>t, <3>1, <3>2
      <4> QED BY <1>2, <4>1
    <3>3. ASSUME q = r, NEW b, b = rows[op[r].obj].blob, b # 0
          PROVE  Past(b)' /\ b \notin Referenced'
      <4>1. b \in Requests /\ Past(b) /\ op[b] = [kind |-> "put", obj |-> op[r].obj]
        BY <1>t, <3>1, <3>3 DEF RowsOK
      <4>2. b # r
        BY <3>1, <4>1 DEF Past
      <4>3. ASSUME NEW x \in Objects, rows[x].blob = b PROVE x = op[r].obj
        <5>1. op[b] = [kind |-> "put", obj |-> x]
          BY <3>3, <4>3 DEF RowsOK
        <5> QED BY <4>1, <5>1
      <4>4. ASSUME NEW x \in Objects, rows'[x].blob = b PROVE FALSE
        <5>1. CASE x = op[r].obj
          BY <3>1, <3>3, <4>2, <4>4, <5>1 DEF NoRow
        <5>2. CASE x # op[r].obj
          BY <3>1, <4>3, <4>4, <5>2
        <5> QED BY <5>1, <5>2
      <4> QED BY <4>1, <4>4, PastStep DEF Referenced
    <3>4. q = r => victim'[q] = rows[op[r].obj].blob
      BY <1>t, <3>1
    <3> QED BY <3>2, <3>3, <3>4
  <2>6. ASSUME RunJobError PROVE Goal(q)
    <3>1. PICK r \in Requests : r = Head(jobs) /\ Queued(r)
      BY <2>6, TakeFacts DEF RunJobError
    <3>2. /\ pc' = [pc EXCEPT ![r] = IF @ = "job" THEN "cleanup" ELSE @]
          /\ victim' = [victim EXCEPT ![r] = IF op[r].kind = "put" THEN r ELSE 0]
          /\ rows' = rows
      BY <2>6, <3>1 DEF RunJobError, Reply, rowVars
    <3>3. CASE q # r
      <4>1. pc'[q] = pc[q] /\ victim'[q] = victim[q]
        BY <1>t, <3>2, <3>3
      <4> QED BY <1>2, <4>1
    <3>4. CASE q = r
      <4>1. pc[r] \in {"job", "gone"} /\ ~Queued(r)'
        BY <2>6, <3>1, TakeFacts DEF JobsOK, Queued, RunJobError
      <4>2. Past(r)'
        BY <1>t, <3>2, <4>1 DEF Past
      <4>3. ASSUME NEW x \in Objects, rows[x].blob = r PROVE FALSE
        <5>1. r # 0
          BY StorageAssumption DEF Requests
        <5>2. Past(r)
          BY <4>3, <5>1 DEF RowsOK
        <5> QED BY <3>1, <5>2 DEF Past
      <4>4. r \notin Referenced'
        BY <3>2, <4>3 DEF Referenced
      <4>5. victim'[q] \in {0, r}
        BY <1>t, <3>2, <3>4
      <4> QED BY <4>2, <4>4, <4>5
    <3> QED BY <3>3, <3>4
  <2>7. ASSUME Crash \/ PowerLoss PROVE Goal(q)
    <3>1. pc'[q] \notin {"cleanup", "unlink"}
      BY <2>7 DEF Crash, PowerLoss, Stop, Active
    <3> QED BY <3>1
  <2>8. ASSUME UNCHANGED <<pc, victim>> PROVE Goal(q)
    BY <1>2, <2>8
  <2>9. \A r \in Requests :
          TaskStep(r) \/ TaskError(r) \/ Unlink(r) \/ RemoveGarbage(r) => UNCHANGED <<pc, victim>>
    BY DEF TaskStep, TaskError, Unlink, RemoveGarbage, reqVars
  <2>10. Start \/ CheckBlobs \/ Serve
         \/ UNCHANGED <<up, reqVars, fileVars, rowVars, lockq, jobs, faults>>
           => UNCHANGED <<pc, victim>>
    BY DEF Start, CheckBlobs, Serve, reqVars
  <2> HIDE DEF Goal
  <2> QED BY <2>1, <2>2, <2>3, <2>4, <2>5, <2>6, <2>7, <2>8, <2>9, <2>10, NextCases
<1>4. ASSUME NEW q \in Requests, pc'[q] \in {"cleanup", "unlink"}, NEW b, b = victim'[q], b # 0
      PROVE  Past(b)' /\ b \notin Referenced'
  BY <1>3, <1>4
<1> QED BY <1>1, <1>4 DEF RemovedOK

\* Who reads was reading the same blob, or has just chosen it.
LEMMA ReadMoves ==
  ASSUME IInv, Next, NEW q \in Requests, pc'[q] = "read"
  PROVE  (pc[q] = "read" /\ victim'[q] = victim[q]) \/ SelectRow(q)
<1> USE DEF IInv
<1>t. pc \in [Requests -> PCs] /\ victim \in [Requests -> 0..MaxRequests]
  BY DEF TypeOK
<1> DEFINE Goal == (pc[q] = "read" /\ victim'[q] = victim[q]) \/ SelectRow(q)
<1>1. ASSUME NEW r \in Requests, NEW o \in Objects,
             BeginSave(r, o) \/ delete_object(r, o) \/ get_object(r, o)
      PROVE  Goal
  BY <1>t, <1>1 DEF BeginSave, delete_object, get_object, Begin
<1>2. ASSUME NEW r \in Requests,
             \/ SaveWritten(r) \/ SaveNotWritten(r) \/ Submit(r) \/ CleanUp(r)
             \/ CleanedUp(r) \/ load_blob(r) \/ Drop(r)
      PROVE  Goal
  BY <1>t, <1>2 DEF SaveWritten, SaveNotWritten, Submit, CleanUp, CleanedUp, load_blob, Drop,
                    Finish, Outcome
<1>3. ASSUME NEW r \in Requests, SelectRow(r) PROVE Goal
  BY <1>t, <1>3 DEF SelectRow
<1>4. ASSUME RunJob PROVE Goal
  <2>1. PICK r \in Requests :
          /\ r = Head(jobs) /\ Queued(r)
          /\ pc' = [pc EXCEPT ![r] = IF @ = "job" THEN "cleanup" ELSE @]
          /\ victim' = [victim EXCEPT ![r] = rows[op[r].obj].blob]
    BY <1>4, RunJobFacts
  <2>2. pc[r] \in {"job", "gone"}
    BY <2>1 DEF JobsOK, Queued
  <2> QED BY <1>t, <2>1, <2>2
<1>5. ASSUME RunJobError PROVE Goal
  <2>1. PICK r \in Requests : r = Head(jobs) /\ Queued(r)
    BY <1>5, TakeFacts DEF RunJobError
  <2>2. pc[r] \in {"job", "gone"}
    BY <2>1 DEF JobsOK, Queued
  <2> QED BY <1>t, <1>5, <2>1, <2>2 DEF RunJobError, Reply
<1>6. ASSUME Crash \/ PowerLoss PROVE Goal
  BY <1>t, <1>6 DEF Crash, PowerLoss, Stop, Active
<1>7. ASSUME UNCHANGED <<pc, victim>> PROVE Goal
  BY <1>7
<1>8. \A r \in Requests :
        TaskStep(r) \/ TaskError(r) \/ Unlink(r) \/ RemoveGarbage(r) => UNCHANGED <<pc, victim>>
  BY DEF TaskStep, TaskError, Unlink, RemoveGarbage, reqVars
<1>9. Start \/ CheckBlobs \/ Serve
      \/ UNCHANGED <<up, reqVars, fileVars, rowVars, lockq, jobs, faults>>
        => UNCHANGED <<pc, victim>>
  BY DEF Start, CheckBlobs, Serve, reqVars
<1> HIDE DEF Goal
<1>10. Goal
  BY <1>1, <1>2, <1>3, <1>4, <1>5, <1>6, <1>7, <1>8, <1>9, NextCases
<1> QED BY <1>10 DEF Goal

\* What is read is in a row when the reader chooses it, and nobody is between
\* replacing a row and handing over its blob's removal while a reader holds the lock.
LEMMA ReadStep ==
  ASSUME IInv, Next
  PROVE  ReadOK'
<1> USE DEF IInv
<1>t. /\ pc \in [Requests -> PCs] /\ victim \in [Requests -> 0..MaxRequests]
      /\ op \in [Requests -> Ops] /\ rows \in [Objects -> [blob : 0..MaxRequests, gen : Nat]]
  BY DEF TypeOK
<1> SUFFICES ASSUME NEW q \in Requests, pc'[q] = "read", NEW b, b = victim'[q], b # 0
             PROVE  b \notin unlinks'
  BY DEF ReadOK
<1>1. CASE pc[q] = "read" /\ victim'[q] = victim[q]
  <2>1. b \notin unlinks
    BY <1>1 DEF ReadOK
  <2>2. ASSUME NEW r \in Requests, CleanUp(r) PROVE FALSE
    <3>1. r # q /\ Holds(r) /\ Holds(q)
      BY <1>1, <2>2 DEF CleanUp, Holds
    <3> QED BY <2>2, <3>1, Exclusion DEF CleanUp
  <2> QED BY <2>1, <2>2, EffectMoves
<1>2. ASSUME SelectRow(q) PROVE b \notin unlinks'
  <2>1. op[q].obj \in Objects /\ b = rows[op[q].obj].blob /\ unlinks' = unlinks
    BY <1>t, <1>2, OpsFacts DEF SelectRow, fileVars
  <2> QED BY <2>1 DEF RowsOK
<1> QED BY <1>1, <1>2, ReadMoves

\* Only startup and its end, a crash or a power loss change whether the process serves.
LEMMA UpMoves ==
  ASSUME Next
  PROVE  up' = up \/ Crash \/ PowerLoss \/ Start \/ CheckBlobs \/ Serve
<1>1. ASSUME NEW r \in Requests, NEW o \in Objects,
             BeginSave(r, o) \/ delete_object(r, o) \/ get_object(r, o)
      PROVE  up' = up
  BY <1>1 DEF BeginSave, delete_object, get_object
<1>2. ASSUME NEW r \in Requests,
             \/ SaveWritten(r) \/ SaveNotWritten(r) \/ Submit(r) \/ CleanUp(r) \/ CleanedUp(r)
             \/ SelectRow(r) \/ load_blob(r) \/ TaskStep(r) \/ TaskError(r) \/ Unlink(r) \/ Drop(r)
             \/ RemoveGarbage(r)
      PROVE  up' = up
  BY <1>2 DEF SaveWritten, SaveNotWritten, Submit, CleanUp, CleanedUp, SelectRow, load_blob,
              TaskStep, TaskError, Unlink, Drop, RemoveGarbage
<1>3. ASSUME RunJob \/ RunJobError PROVE up' = up
  BY <1>3 DEF RunJob, RunJobError
<1>4. ASSUME UNCHANGED <<up, reqVars, fileVars, rowVars, lockq, jobs, faults>> PROVE up' = up
  BY <1>4
<1> QED BY <1>1, <1>2, <1>3, <1>4, NextCases

\* A process that does not serve only starts, or stops again.
LEMMA StartupStep ==
  ASSUME IInv, Next
  PROVE  OnlyStartup'
<1> USE DEF IInv
<1> SUFFICES ASSUME up' # "serving"
             PROVE  /\ lockq' = <<>> /\ jobs' = <<>> /\ unlinks' = {}
                    /\ \A r \in Requests : ~Active(r)' /\ task'[r] = "none"
  BY DEF OnlyStartup
<1>1. CASE Crash \/ PowerLoss
  BY <1>1 DEF Crash, PowerLoss, Stop, Active, TypeOK
<1>2. ASSUME up # "serving",
             UNCHANGED <<pc, task, unlinks, lockq, jobs>>
      PROVE  /\ lockq' = <<>> /\ jobs' = <<>> /\ unlinks' = {}
             /\ \A r \in Requests : ~Active(r)' /\ task'[r] = "none"
  BY <1>2 DEF OnlyStartup, Active
<1>3. ASSUME NEW r \in Requests, NEW o \in Objects,
             BeginSave(r, o) \/ delete_object(r, o) \/ get_object(r, o)
      PROVE  FALSE
  BY <1>3 DEF BeginSave, delete_object, get_object, Begin
<1>4. ASSUME NEW r \in Requests,
             \/ SaveWritten(r) \/ SaveNotWritten(r) \/ Submit(r) \/ CleanUp(r) \/ CleanedUp(r)
             \/ SelectRow(r) \/ load_blob(r) \/ TaskStep(r) \/ TaskError(r) \/ Unlink(r) \/ Drop(r)
      PROVE  FALSE
  <2>1. up' = up /\ (Active(r) \/ task[r] = "run" \/ unlinks # {})
    BY <1>4 DEF SaveWritten, SaveNotWritten, Submit, CleanUp, CleanedUp, SelectRow, load_blob,
                TaskStep, TaskError, Unlink, Drop, Active
  <2> QED BY <2>1 DEF OnlyStartup
<1>5. ASSUME RunJob \/ RunJobError PROVE FALSE
  BY <1>5 DEF RunJob, RunJobError, OnlyStartup
<1>6. ASSUME Start \/ CheckBlobs \/ Serve \/ \E r \in Requests : RemoveGarbage(r)
      PROVE  up # "serving" /\ UNCHANGED <<pc, task, unlinks, lockq, jobs>>
  BY <1>6 DEF Start, CheckBlobs, Serve, RemoveGarbage, reqVars, fileVars
<1>7. ASSUME UNCHANGED <<up, reqVars, fileVars, rowVars, lockq, jobs, faults>>
      PROVE  up # "serving" /\ UNCHANGED <<pc, task, unlinks, lockq, jobs>>
  BY <1>7 DEF reqVars, fileVars
<1> QED BY <1>1, <1>2, <1>3, <1>4, <1>5, <1>6, <1>7, NextCases

\* No step takes away a blob that a row references or a reader has chosen.
LEMMA BlobStep ==
  ASSUME IInv, Next
  PROVE  RowHasBlob' /\ ReadHasBlob'
<1> USE DEF IInv
<1>t. /\ pc \in [Requests -> PCs] /\ victim \in [Requests -> 0..MaxRequests]
      /\ op \in [Requests -> Ops] /\ rows \in [Objects -> [blob : 0..MaxRequests, gen : Nat]]
      /\ \A x \in 0..MaxRequests : x # 0 => x \in Requests
  BY StorageAssumption DEF TypeOK, Requests
<1>k. ASSUME NEW b \in Requests, file[b] = "stored", b \notin unlinks,
             b \in Referenced \/ \E q \in Requests : pc[q] = "read"
      PROVE  file'[b] = "stored"
  <2>1. ~Unlink(b)
    BY <1>k DEF Unlink
  <2>2. ~RemoveGarbage(b)
    <3>1. CASE b \in Referenced
      BY <1>k, <3>1 DEF RemoveGarbage, Garbage
    <3>2. CASE \E q \in Requests : pc[q] = "read"
      BY <3>2 DEF RemoveGarbage, OnlyStartup, Active
    <3> QED BY <1>k, <3>1, <3>2
  <2> QED BY <1>k, <2>1, <2>2, FileMoves
<1>r. ASSUME NEW o \in Objects, NEW b, b = rows[o].blob, b # 0
      PROVE  b \in Requests /\ b \in Referenced /\ b \notin unlinks /\ file[b] = "stored"
  BY <1>t, <1>r DEF Referenced, RowsOK, RowHasBlob
<1>1. ASSUME NEW o \in Objects, NEW b, b = rows'[o].blob, b # 0
      PROVE  file'[b] = "stored"
  <2>1. CASE rows' = rows
    BY <1>1, <1>k, <1>r, <2>1
  <2>2. CASE RunJob
    <3>1. PICK r \in Requests :
            /\ Queued(r) /\ UNCHANGED file
            /\ \A x \in Objects \ {op[r].obj} : rows'[x] = rows[x]
            /\ \/ op[r].kind = "put" /\ rows'[op[r].obj].blob = r
               \/ rows'[op[r].obj] = NoRow
      BY <2>2, RunJobFacts
    <3>2. CASE o = op[r].obj
      BY <1>1, <3>1, <3>2 DEF NoRow, FilesOK
    <3>3. CASE o # op[r].obj
      BY <1>1, <1>r, <3>1, <3>3
    <3> QED BY <3>2, <3>3
  <2> QED BY <2>1, <2>2, EffectMoves
<1>2. up' # "corrupt"
  <2>1. up # "corrupt" /\ \A b \in Referenced : file[b] = "stored"
    BY DEF RowHasBlob
  <2>2. CheckBlobs => up' = "removing"
    BY <2>1 DEF CheckBlobs, InBlobs
  <2>3. Crash \/ PowerLoss \/ Start \/ Serve => up' \in {"down", "checking", "serving"}
    BY DEF Crash, PowerLoss, Stop, Start, Serve
  <2> QED BY <2>1, <2>2, <2>3, UpMoves
<1>3. ASSUME NEW q \in Requests, pc'[q] = "read", NEW b, b = victim'[q], b # 0
      PROVE  file'[b] = "stored"
  <2>1. CASE pc[q] = "read" /\ victim'[q] = victim[q]
    <3>1. b \in Requests /\ file[b] = "stored" /\ b \notin unlinks
      BY <1>t, <1>3, <2>1 DEF ReadOK, ReadHasBlob
    <3> QED BY <1>k, <2>1, <3>1
  <2>2. CASE SelectRow(q)
    <3>1. op[q].obj \in Objects /\ b = rows[op[q].obj].blob
      BY <1>t, <1>3, <2>2, OpsFacts DEF SelectRow
    <3> QED BY <1>3, <1>k, <1>r, <3>1
  <2> QED BY <1>3, <2>1, <2>2, ReadMoves
<1>4. RowHasBlob'
  BY <1>1, <1>2 DEF RowHasBlob, Referenced
<1>5. ReadHasBlob'
  BY <1>3 DEF ReadHasBlob
<1> QED BY <1>4, <1>5

\* Only puts write files, and only before they wait for the lock.
LEMMA PutsStep ==
  ASSUME IInv, Next
  PROVE  PutsOK'
<1> DEFINE Fine(q) == /\ op[q].kind # "put" => file[q] = "none" /\ task[q] = "none"
                      /\ task[q] = "run" => pc[q] \in {"writing", "gone"}
<1> USE DEF IInv
<1>t. /\ pc \in [Requests -> PCs] /\ op \in [Requests -> Ops] /\ file \in [Requests -> Files]
      /\ task \in [Requests -> {"none", "run", "ok", "err"}]
  BY DEF TypeOK
<1>q. ASSUME NEW q \in Requests PROVE Fine(q)'
  <2>0. Fine(q)
    BY DEF PutsOK
  <2>1. ASSUME NEW r \in Requests, NEW o \in Objects, BeginSave(r, o) PROVE Fine(q)'
    BY <1>t, <2>0, <2>1 DEF BeginSave, Begin
  <2>2. ASSUME NEW r \in Requests, NEW o \in Objects, delete_object(r, o) \/ get_object(r, o)
        PROVE  Fine(q)'
    <3>1. pc[r] = "new" /\ file[r] = "none" /\ task[r] = "none"
      BY <2>2 DEF delete_object, get_object, Begin, FilesOK
    <3> QED BY <1>t, <2>0, <2>2, <3>1 DEF delete_object, get_object, Begin, fileVars
  <2>3. ASSUME UNCHANGED <<up, reqVars, fileVars, rowVars, lockq, jobs, faults>> PROVE Fine(q)'
    BY <2>0, <2>3 DEF reqVars, fileVars
  <2>4. ASSUME NEW r \in Requests,
               \/ SaveWritten(r) \/ Submit(r) \/ CleanUp(r) \/ CleanedUp(r)
               \/ SelectRow(r) \/ load_blob(r) \/ Drop(r)
        PROVE  Fine(q)'
    <3>1. /\ UNCHANGED <<file, task, op>>
          /\ q # r => pc'[q] = pc[q]
          /\ task[r] = "run" => pc'[r] \in {"writing", "gone"}
      BY <1>t, <2>4 DEF SaveWritten, Submit, CleanUp, CleanedUp, SelectRow, load_blob, Drop,
                        Finish, fileVars, PutsOK
    <3> QED BY <2>0, <3>1
  <2>5. ASSUME NEW r \in Requests, SaveNotWritten(r) PROVE Fine(q)'
    BY <1>t, <2>0, <2>5 DEF SaveNotWritten
  <2>6. ASSUME NEW r \in Requests, TaskStep(r) \/ TaskError(r) PROVE Fine(q)'
    BY <1>t, <2>0, <2>6 DEF TaskStep, TaskError, reqVars
  <2>7. ASSUME NEW r \in Requests, Unlink(r) \/ RemoveGarbage(r) PROVE Fine(q)'
    <3>1. UNCHANGED <<task, op, pc>> /\ (file[q] = "none" => file'[q] = "none")
      BY <1>t, <2>7 DEF Unlink, RemoveGarbage, Garbage, InBlobs, reqVars
    <3> QED BY <2>0, <3>1
  <2>8. ASSUME RunJob \/ RunJobError PROVE Fine(q)'
    <3>1. PICK r \in Requests : Queued(r) /\ pc' = [pc EXCEPT ![r] = IF @ = "job" THEN "cleanup" ELSE @]
      BY <2>8, TakeFacts DEF RunJob, RunJobError, Reply
    <3>2. pc[r] \in {"job", "gone"}
      BY <3>1 DEF Queued, JobsOK
    <3>3. UNCHANGED <<file, task, op>> /\ (pc[q] \in {"writing", "gone"} => pc'[q] = pc[q])
      BY <1>t, <2>8, <3>1, <3>2 DEF RunJob, RunJobError, fileVars
    <3> QED BY <2>0, <3>3
  <2>9. ASSUME Crash \/ PowerLoss PROVE Fine(q)'
    <3>1. /\ task'[q] = "none" /\ op' = op
          /\ file[q] = "none" => file'[q] = "none"
      BY <1>t, <2>9 DEF Crash, PowerLoss, Stop, Survives
    <3> QED BY <2>0, <3>1
  <2>10. ASSUME Start \/ CheckBlobs \/ Serve PROVE Fine(q)'
    BY <2>0, <2>10 DEF Start, CheckBlobs, Serve, reqVars, fileVars
  <2> HIDE DEF Fine
  <2> QED BY <2>1, <2>2, <2>3, <2>4, <2>5, <2>6, <2>7, <2>8, <2>9, <2>10, NextCases
<1> QED BY <1>q DEF PutsOK

\* A file that is flushed or removed stays one of the two, unless the power fails.
LEMMA RemovableStays ==
  ASSUME IInv, Next, ~PowerLoss, NEW b \in Requests, file[b] \in {"stored", "unlinked"}
  PROVE  file'[b] \in {"stored", "unlinked"}
<1> DEFINE Goal == file'[b] \in {"stored", "unlinked"}
<1> USE DEF IInv
<1>t. file \in [Requests -> Files]
  BY DEF TypeOK
<1>1. ASSUME NEW r \in Requests, NEW o \in Objects,
             BeginSave(r, o) \/ delete_object(r, o) \/ get_object(r, o)
      PROVE  Goal
  BY <1>1 DEF BeginSave, delete_object, get_object, fileVars
<1>2. ASSUME UNCHANGED <<up, reqVars, fileVars, rowVars, lockq, jobs, faults>> PROVE Goal
  BY <1>2 DEF fileVars
<1>3. ASSUME NEW r \in Requests,
             \/ SaveWritten(r) \/ Submit(r) \/ CleanUp(r) \/ CleanedUp(r)
             \/ SelectRow(r) \/ load_blob(r) \/ Drop(r)
      PROVE  Goal
  BY <1>3 DEF SaveWritten, Submit, CleanUp, CleanedUp, SelectRow, load_blob, Drop, fileVars
<1>4. ASSUME NEW r \in Requests, SaveNotWritten(r) \/ TaskStep(r) \/ TaskError(r) PROVE Goal
  BY <1>t, <1>4 DEF SaveNotWritten, TaskStep, TaskError
<1>5. ASSUME NEW r \in Requests, Unlink(r) \/ RemoveGarbage(r) PROVE Goal
  BY <1>t, <1>5 DEF Unlink, RemoveGarbage
<1>6. ASSUME RunJob \/ RunJobError \/ Crash PROVE Goal
  BY <1>6 DEF RunJob, RunJobError, Crash, fileVars
<1>7. ASSUME Start \/ CheckBlobs \/ Serve PROVE Goal
  BY <1>7 DEF Start, CheckBlobs, Serve, fileVars
<1> HIDE DEF Goal
<1>8. Goal
  BY <1>1, <1>2, <1>3, <1>4, <1>5, <1>6, <1>7, NextCases
<1> QED BY <1>8 DEF Goal

\* How a request comes to have a file to remove.
LEMMA VictimMoves ==
  ASSUME IInv, Next, NEW q \in Requests, pc'[q] = "cleanup", victim'[q] # 0
  PROVE  \/ pc[q] = "cleanup" /\ victim'[q] = victim[q]
         \/ file[victim'[q]] = "stored" /\ victim'[q] \in Requests
<1> DEFINE Goal == \/ pc[q] = "cleanup" /\ victim'[q] = victim[q]
                   \/ file[victim'[q]] = "stored" /\ victim'[q] \in Requests
<1> USE DEF IInv
<1>t. /\ pc \in [Requests -> PCs] /\ victim \in [Requests -> 0..MaxRequests]
      /\ op \in [Requests -> Ops] /\ rows \in [Objects -> [blob : 0..MaxRequests, gen : Nat]]
      /\ \A x \in 0..MaxRequests : x # 0 => x \in Requests
  BY StorageAssumption DEF TypeOK, Requests
<1>1. ASSUME NEW r \in Requests, NEW o \in Objects,
             BeginSave(r, o) \/ delete_object(r, o) \/ get_object(r, o)
      PROVE  Goal
  BY <1>1, <1>t DEF BeginSave, delete_object, get_object, Begin
<1>2. ASSUME UNCHANGED <<up, reqVars, fileVars, rowVars, lockq, jobs, faults>> PROVE Goal
  BY <1>2 DEF reqVars
<1>3. ASSUME NEW r \in Requests,
             \/ SaveWritten(r) \/ SaveNotWritten(r) \/ Submit(r) \/ CleanUp(r)
             \/ CleanedUp(r) \/ SelectRow(r) \/ load_blob(r) \/ Drop(r)
      PROVE  Goal
  BY <1>3, <1>t DEF SaveWritten, SaveNotWritten, Submit, CleanUp, CleanedUp, SelectRow, load_blob,
                    Drop, Finish, Outcome
<1>4. ASSUME NEW r \in Requests, TaskStep(r) \/ TaskError(r) \/ Unlink(r) \/ RemoveGarbage(r)
      PROVE  Goal
  BY <1>4 DEF TaskStep, TaskError, Unlink, RemoveGarbage, reqVars
<1>5. ASSUME RunJob PROVE Goal
  <2>1. PICK r \in Requests :
          /\ op[r].obj \in Objects
          /\ pc' = [pc EXCEPT ![r] = IF @ = "job" THEN "cleanup" ELSE @]
          /\ victim' = [victim EXCEPT ![r] = rows[op[r].obj].blob]
    BY <1>5, RunJobFacts
  <2>2. CASE q = r
    <3>1. victim'[q] = rows[op[r].obj].blob /\ victim'[q] \in Requests
      BY <1>t, <2>1, <2>2
    <3>2. victim'[q] \in Referenced
      BY <2>1, <3>1 DEF Referenced
    <3> QED BY <3>1, <3>2 DEF RowHasBlob
  <2>3. CASE q # r
    BY <1>t, <2>1, <2>3
  <2> QED BY <2>2, <2>3
<1>6. ASSUME RunJobError PROVE Goal
  <2>1. PICK r \in Requests : r = Head(jobs) /\ Queued(r)
    BY <1>6, TakeFacts DEF RunJobError
  <2>2. /\ pc' = [pc EXCEPT ![r] = IF @ = "job" THEN "cleanup" ELSE @]
        /\ victim' = [victim EXCEPT ![r] = IF op[r].kind = "put" THEN r ELSE 0]
    BY <1>6, <2>1 DEF RunJobError, Reply
  <2>3. op[r].kind = "put" => file[r] = "stored"
    BY <2>1 DEF FilesOK
  <2> QED BY <1>t, <2>2, <2>3
<1>7. ASSUME Crash \/ PowerLoss PROVE Goal
  BY <1>7, <1>t DEF Crash, PowerLoss, Stop, Active
<1>8. ASSUME Start \/ CheckBlobs \/ Serve PROVE Goal
  BY <1>8 DEF Start, CheckBlobs, Serve, reqVars
<1> HIDE DEF Goal
<1>9. Goal
  BY <1>1, <1>2, <1>3, <1>4, <1>5, <1>6, <1>7, <1>8, NextCases
<1> QED BY <1>9 DEF Goal

\* A file that is removed, or going to be, is not a temporary one.
LEMMA VictimsStep ==
  ASSUME IInv, Next
  PROVE  VictimsOK'
<1> USE DEF IInv
<1>t. /\ pc \in [Requests -> PCs] /\ victim \in [Requests -> 0..MaxRequests]
      /\ unlinks \subseteq Requests
      /\ \A x \in 0..MaxRequests : x # 0 => x \in Requests
  BY StorageAssumption DEF TypeOK, Requests
<1>1. CASE PowerLoss
  BY <1>1, <1>t DEF PowerLoss, Stop, Active, VictimsOK
<1>2. CASE ~PowerLoss
  <2>1. ASSUME NEW q \in Requests, pc'[q] = "cleanup", victim'[q] # 0
        PROVE  file'[victim'[q]] \in {"stored", "unlinked"}
    <3>1. \/ pc[q] = "cleanup" /\ victim'[q] = victim[q]
          \/ file[victim'[q]] = "stored" /\ victim'[q] \in Requests
      BY <2>1, VictimMoves
    <3>2. PICK b \in Requests : b = victim'[q] /\ file[b] \in {"stored", "unlinked"}
      BY <1>t, <2>1, <3>1 DEF VictimsOK
    <3> QED BY <1>2, <3>2, RemovableStays
  <2>2. \A b \in unlinks' : b \in Requests /\ file[b] \in {"stored", "unlinked"}
    <3>1. unlinks' \subseteq unlinks \/ \E r \in Requests : CleanUp(r)
      BY NextCases DEF BeginSave, delete_object, get_object, fileVars, SaveWritten,
         SaveNotWritten, Submit, CleanedUp, SelectRow, load_blob, TaskStep, TaskError, Unlink,
         Drop, RemoveGarbage, RunJob, RunJobError, Crash, PowerLoss, Stop, Start, CheckBlobs, Serve
    <3>2. CASE unlinks' \subseteq unlinks
      BY <1>t, <3>2 DEF VictimsOK
    <3>3. ASSUME NEW r \in Requests, CleanUp(r)
          PROVE  \A b \in unlinks' : b \in Requests /\ file[b] \in {"stored", "unlinked"}
      BY <1>t, <3>3 DEF CleanUp, VictimsOK
    <3> QED BY <3>1, <3>2, <3>3
  <2> QED BY <1>2, <2>1, <2>2, RemovableStays DEF VictimsOK
<1> QED BY <1>1, <1>2

\* What a failure may leave behind, of one request.
Debt(b) ==
  \/ file[b] \notin {"none", "unlinked"} /\ b \notin Referenced /\ ~Accounted(b)
  \/ pc[b] = "gone" /\ (Queued(b) \/ (file[b] = "none" /\ task[b] = "run"))
  \/ pc[b] = "writing" /\ task[b] = "err"

LEMMA DebtsDef ==
  /\ Debts = {b \in Requests : Debt(b)}
  /\ Debts' = {b \in Requests : Debt(b)'}
BY DEF Debts, Leaked, Owing, Debt

\* A step leaves the debt of b alone.
Framed(b) ==
  /\ pc'[b] = pc[b] /\ file'[b] = file[b] /\ task'[b] = task[b]
  /\ Queued(b)' <=> Queued(b)
  /\ b \in unlinks => b \in unlinks'
  /\ b \in Referenced => b \in Referenced' \/ Accounted(b)'
  /\ \A q \in Requests : pc[q] = "cleanup" /\ victim[q] = b =>
       Accounted(b)' \/ (pc'[q] = "cleanup" /\ victim'[q] = b)

LEMMA DebtFrame ==
  ASSUME NEW b \in Requests, Framed(b), Debt(b)'
  PROVE  Debt(b)
<1>1. Accounted(b) => Accounted(b)'
  BY DEF Accounted, Framed
<1> QED BY <1>1 DEF Debt, Framed

\* What a step does to the debts of a process that serves: it makes at most one
\* more of them, and that only when it is a failure.
NoMore == Debts' \subseteq Debts
OneMore == faults' = faults + 1 /\ \E r \in Requests : Debts' \subseteq Debts \cup {r}
OneMoved == \E r \in Debts, b \in Requests : Debts' \subseteq (Debts \ {r}) \cup {b}

\* The steps of a request that is not dropped.
LEMMA HandlerDebts ==
  ASSUME IInv, NEW r \in Requests,
         \/ SaveWritten(r) \/ SaveNotWritten(r) \/ Submit(r) \/ CleanUp(r)
         \/ CleanedUp(r) \/ SelectRow(r) \/ load_blob(r) \/ TaskStep(r)
         \/ \E o \in Objects : BeginSave(r, o) \/ delete_object(r, o) \/ get_object(r, o)
  PROVE  NoMore
<1> USE DEF IInv
<1>t. /\ pc \in [Requests -> PCs] /\ file \in [Requests -> Files]
      /\ task \in [Requests -> {"none", "run", "ok", "err"}]
      /\ victim \in [Requests -> 0..MaxRequests] /\ jobs \in Seq(Requests)
  BY DEF TypeOK
<1>j. ASSUME NEW b \in Requests, b # r \/ ~Submit(r) PROVE Queued(b)' <=> Queued(b)
  <2>1. CASE UNCHANGED jobs
    BY <2>1 DEF Queued
  <2>2. CASE Submit(r)
    <3>1. /\ Len(jobs) \in Nat /\ Len(jobs') = Len(jobs) + 1 /\ jobs'[Len(jobs) + 1] = r
          /\ \A i \in 1..Len(jobs) : jobs'[i] = jobs[i]
      BY <1>t, <2>2, AppendProperties DEF Submit
    <3>2. 1..Len(jobs') = 1..Len(jobs) \cup {Len(jobs) + 1}
      BY <3>1
    <3> QED BY <1>j, <2>2, <3>1, <3>2 DEF Queued
  <2> QED BY <2>1, <2>2 DEF SaveWritten, SaveNotWritten, CleanUp, CleanedUp, SelectRow, load_blob,
                            TaskStep, BeginSave, delete_object, get_object
<1>f. /\ UNCHANGED rows /\ unlinks \subseteq unlinks'
      /\ \A b \in Requests \ {r} : pc'[b] = pc[b] /\ file'[b] = file[b] /\ task'[b] = task[b]
                                   /\ victim'[b] = victim[b]
  BY <1>t DEF SaveWritten, SaveNotWritten, Submit, CleanUp, CleanedUp, SelectRow, load_blob,
              TaskStep, BeginSave, delete_object, get_object, Begin, Finish, rowVars, fileVars,
              reqVars
<1>c. ASSUME NEW b \in Requests, pc[r] = "cleanup", victim[r] = b
      PROVE  b \in unlinks' \/ (pc'[r] = "cleanup" /\ victim'[r] = b)
  <2>1. b # 0
    BY StorageAssumption DEF Requests
  <2> QED BY <1>c, <2>1 DEF SaveWritten, SaveNotWritten, Submit, CleanUp, CleanedUp, SelectRow,
             load_blob, TaskStep, BeginSave, delete_object, get_object, Begin, reqVars
<1>1. ASSUME NEW b \in Requests, b # r, Debt(b)' PROVE Debt(b)
  <2>1. b \in Referenced => b \in Referenced'
    BY <1>f DEF Referenced
  <2>2. ASSUME NEW q \in Requests, pc[q] = "cleanup", victim[q] = b
        PROVE  Accounted(b)' \/ (pc'[q] = "cleanup" /\ victim'[q] = b)
    BY <1>c, <1>f, <2>2 DEF Accounted
  <2>3. Framed(b)
    BY <1>f, <1>j, <1>1, <2>1, <2>2 DEF Framed
  <2> QED BY <1>1, <2>3, DebtFrame
<1>2. ASSUME Debt(r)' PROVE Debt(r)
  <2>r. r \in Referenced <=> r \in Referenced'
    BY <1>f DEF Referenced
  <2>a. ASSUME ~Submit(r), Accounted(r), pc[r] \notin {"writing", "lock", "job"}
        PROVE  Accounted(r)'
    <3>1. Queued(r) => Queued(r)'
      BY <1>j, <2>a
    <3>2. ASSUME NEW q \in Requests, pc[q] = "cleanup", victim[q] = r
          PROVE  Accounted(r)'
      BY <1>c, <1>f, <3>2 DEF Accounted
    <3> QED BY <1>f, <2>a, <3>1, <3>2 DEF Accounted
  <2>1. CASE SaveNotWritten(r)
    BY <2>1 DEF SaveNotWritten, Debt
  <2>2. CASE pc'[r] \in {"writing", "lock", "job"} /\ task'[r] # "err"
    BY <1>2, <2>2 DEF Debt, Accounted
  <2>3. CASE SaveWritten(r) \/ Submit(r) \/ \E o \in Objects :
               BeginSave(r, o) \/ delete_object(r, o) \/ get_object(r, o)
    <3>1. pc'[r] \in {"writing", "lock", "job"} /\ (pc'[r] = "writing" => task'[r] = "run")
      BY <1>t, <2>3 DEF SaveWritten, Submit, BeginSave, delete_object, get_object, Begin
    <3> QED BY <1>2, <3>1 DEF Debt, Accounted
  <2>4. CASE CleanUp(r) \/ CleanedUp(r) \/ SelectRow(r) \/ load_blob(r)
    <3>1. /\ pc'[r] \notin {"gone", "writing"} /\ file' = file
          /\ pc[r] \in {"cleanup", "unlink", "lock", "read"}
          /\ pc[r] = "lock" => op[r].kind = "get"
      BY <1>t, <2>4 DEF CleanUp, CleanedUp, SelectRow, load_blob, Finish, Outcome, fileVars, Shared
    <3>2. pc[r] = "lock" => file[r] = "none"
      BY <3>1 DEF PutsOK
    <3>3. file[r] \notin {"none", "unlinked"} /\ r \notin Referenced' /\ ~Accounted(r)'
      BY <1>2, <3>1 DEF Debt
    <3>4. ~Submit(r) /\ pc[r] \notin {"writing", "lock", "job"}
      BY <3>1, <3>2, <3>3 DEF Submit
    <3> QED BY <2>a, <2>r, <3>3, <3>4 DEF Debt
  <2>5. CASE TaskStep(r)
    <3>1. /\ task[r] = "run" /\ pc'[r] = pc[r] /\ pc[r] \in {"writing", "gone"}
          /\ task'[r] \in {"run", "ok"} /\ file'[r] # "none"
          /\ file[r] \in {"none", "temp", "renamed"}
      BY <1>t, <2>5 DEF TaskStep, PutsOK, reqVars
    <3>2. CASE pc[r] = "writing"
      BY <1>2, <3>1, <3>2 DEF Debt, Accounted
    <3>3. CASE pc[r] = "gone"
      <4>1. CASE file[r] = "none" \/ Queued(r)
        BY <3>1, <3>3, <4>1 DEF Debt
      <4>2. CASE file[r] # "none" /\ ~Queued(r)
        <5>1. ~Submit(r)
          BY <3>3 DEF Submit
        <5>2. ~Queued(r)'
          BY <1>j, <4>2, <5>1
        <5>3. r \notin Referenced' /\ ~Accounted(r)'
          BY <1>2, <3>1, <3>3, <5>2 DEF Debt
        <5>4. ~Accounted(r)
          BY <2>a, <3>3, <5>1, <5>3
        <5> QED BY <2>r, <3>1, <4>2, <5>3, <5>4 DEF Debt
      <4> QED BY <4>1, <4>2
    <3> QED BY <3>1, <3>2, <3>3
  <2> QED BY <2>1, <2>3, <2>4, <2>5
<1> QED BY <1>1, <1>2, DebtsDef DEF NoMore

\* A job that commits or fails, and whose request may be gone.
LEMMA WriterDebts ==
  ASSUME IInv, Next, RunJob \/ RunJobError
  PROVE  NoMore \/ OneMore \/ OneMoved
<1> USE DEF IInv
<1>t. /\ pc \in [Requests -> PCs] /\ victim \in [Requests -> 0..MaxRequests]
      /\ rows \in [Objects -> [blob : 0..MaxRequests, gen : Nat]] /\ op \in [Requests -> Ops]
      /\ \A x \in 0..MaxRequests : x # 0 => x \in Requests
  BY StorageAssumption DEF TypeOK, Requests
<1>1. PICK r \in Requests :
        /\ r = Head(jobs) /\ Queued(r) /\ ~Queued(r)'
        /\ \A b \in Requests \ {r} : Queued(b)' <=> Queued(b)
  BY TakeFacts DEF RunJob, RunJobError
<1>2. pc[r] \in {"job", "gone"}
  BY <1>1 DEF Queued, JobsOK
<1>3. /\ pc' = [pc EXCEPT ![r] = IF @ = "job" THEN "cleanup" ELSE @]
      /\ UNCHANGED <<file, task, unlinks>>
      /\ \A q \in Requests \ {r} : victim'[q] = victim[q]
  BY <1>t, <1>1 DEF RunJob, RunJobError, Reply, fileVars
<1>f. ASSUME NEW b \in Requests, b # r, Debt(b)',
             b \in Referenced => b \in Referenced' \/ Accounted(b)'
      PROVE  Debt(b)
  <2>1. Framed(b)
    BY <1>t, <1>1, <1>2, <1>3, <1>f DEF Framed
  <2> QED BY <1>f, <2>1, DebtFrame
<1>4. CASE RunJobError
  <2>1. UNCHANGED rows /\ faults' = faults + 1
    BY <1>4 DEF RunJobError, rowVars, Fault
  <2>2. \A b \in Requests \ {r} : Debt(b)' => Debt(b)
    BY <1>f, <2>1 DEF Referenced
  <2> QED BY <2>1, <2>2, DebtsDef DEF OneMore
<1>5. CASE RunJob
  <2> DEFINE o == op[r].obj
             v == rows[o].blob
  <2>1. /\ o \in Objects /\ \A x \in Objects \ {o} : rows'[x] = rows[x]
        /\ \/ op[r].kind = "put" /\ rows'[o].blob = r
           \/ op[r].kind = "delete" /\ rows'[o] = NoRow
        /\ victim' = [victim EXCEPT ![r] = v]
    <3>1. PICK q \in Requests :
            /\ q = Head(jobs) /\ op[q].obj \in Objects
            /\ \A x \in Objects \ {op[q].obj} : rows'[x] = rows[x]
            /\ \/ op[q].kind = "put" /\ rows'[op[q].obj].blob = q
               \/ op[q].kind = "delete" /\ rows'[op[q].obj] = NoRow
            /\ victim' = [victim EXCEPT ![q] = rows[op[q].obj].blob]
      BY <1>5, RunJobFacts
    <3> QED BY <1>1, <3>1
  <2> HIDE DEF o
  <2>2. ASSUME NEW b \in Requests, b # v, b \in Referenced PROVE b \in Referenced'
    <3>1. PICK x \in Objects : rows[x].blob = b
      BY <2>2 DEF Referenced
    <3>2. b # 0
      BY StorageAssumption DEF Requests
    <3> QED BY <2>1, <2>2, <3>1, <3>2 DEF Referenced
  <2>3. ~Debt(r)'
    <3>1. r # 0
      BY StorageAssumption DEF Requests
    <3>2. pc'[r] \in {"cleanup", "gone"}
      BY <1>t, <1>2, <1>3
    <3>3. CASE op[r].kind = "put" /\ rows'[o].blob = r
      <4>1. r \in Referenced' /\ file[r] = "stored"
        BY <1>1, <2>1, <3>1, <3>3 DEF Referenced, FilesOK
      <4> QED BY <1>1, <1>3, <3>2, <4>1 DEF Debt
    <3>4. CASE op[r].kind = "delete"
      BY <1>1, <1>3, <3>2, <3>4 DEF Debt, PutsOK
    <3> QED BY <2>1, <3>3, <3>4
  <2>4. \A b \in Requests : b # v /\ Debt(b)' => Debt(b)
    BY <1>f, <2>2, <2>3
  <2>5. CASE pc[r] = "gone" /\ v # 0
    <3>1. r \in Debts /\ v \in Requests
      BY <1>t, <1>1, <2>1, <2>5, DebtsDef DEF Debt
    <3>2. Debts' \subseteq (Debts \ {r}) \cup {v}
      BY <2>3, <2>4, DebtsDef
    <3> QED BY <3>1, <3>2 DEF OneMoved
  <2>6. CASE pc[r] = "job" \/ v = 0
    <3>1. ASSUME NEW b \in Requests, b = v, Debt(b)' PROVE Debt(b)
      <4>1. pc[r] = "job" /\ b # r
        BY <2>3, <2>6, <3>1, StorageAssumption DEF Requests
      <4>2. pc'[r] = "cleanup" /\ victim'[r] = b
        BY <1>t, <1>3, <2>1, <3>1, <4>1
      <4> QED BY <1>f, <3>1, <4>1, <4>2 DEF Accounted
    <3> QED BY <2>4, <3>1, DebtsDef DEF NoMore
  <2> QED BY <1>2, <2>5, <2>6
<1> QED BY <1>4, <1>5

\* A removal, a failed write and a dropped request.
LEMMA FailureDebts ==
  ASSUME IInv, NEW r \in Requests, Unlink(r) \/ TaskError(r) \/ Drop(r)
  PROVE  NoMore \/ OneMore
<1> USE DEF IInv
<1>t. /\ pc \in [Requests -> PCs] /\ file \in [Requests -> Files]
      /\ task \in [Requests -> {"none", "run", "ok", "err"}]
      /\ victim \in [Requests -> 0..MaxRequests]
      /\ \A x \in 0..MaxRequests : x # 0 => x \in Requests
  BY StorageAssumption DEF TypeOK, Requests
<1>f. /\ UNCHANGED <<rows, jobs, victim>>
      /\ \A b \in Requests \ {r} : pc'[b] = pc[b] /\ file'[b] = file[b] /\ task'[b] = task[b]
                                   /\ (b \in unlinks => b \in unlinks')
  BY <1>t DEF Unlink, TaskError, Drop, Finish, rowVars, fileVars, reqVars
<1>g. Referenced' = Referenced /\ \A b \in Requests : Queued(b)' <=> Queued(b)
  BY <1>f DEF Referenced, Queued
<1>1. ASSUME NEW b \in Requests, b # r, Debt(b)',
             pc[r] = "cleanup" /\ victim[r] = b => pc'[r] = "cleanup"
      PROVE  Debt(b)
  <2>1. Framed(b)
    BY <1>f, <1>g, <1>1 DEF Framed
  <2> QED BY <1>1, <2>1, DebtFrame
<1>2. CASE TaskError(r) \/ (Unlink(r) /\ Fault)
  <2>1. pc' = pc /\ faults' = faults + 1
    BY <1>2 DEF TaskError, Unlink, reqVars, Fault
  <2>2. \A b \in Requests \ {r} : Debt(b)' => Debt(b)
    BY <1>1, <2>1
  <2> QED BY <2>1, <2>2, DebtsDef DEF OneMore
<1>3. CASE Unlink(r) /\ ~Fault
  <2>1. /\ pc' = pc /\ file'[r] = "unlinked" /\ file[r] \in {"stored", "unlinked"}
        /\ task' = task
    BY <1>t, <1>3 DEF Unlink, InBlobs, reqVars, VictimsOK
  <2>2. Debt(r)' => Debt(r)
    BY <1>g, <2>1 DEF Debt
  <2>3. \A b \in Requests \ {r} : Debt(b)' => Debt(b)
    BY <1>1, <2>1
  <2> QED BY <2>2, <2>3, DebtsDef DEF NoMore
<1>4. CASE Drop(r)
  <2>1. /\ pc' = [pc EXCEPT ![r] = "gone"] /\ faults' = faults + 1 /\ UNCHANGED <<file, task, unlinks>>
        /\ Active(r)
    BY <1>4 DEF Drop, Finish, Fault, fileVars
  <2>2. CASE pc[r] # "cleanup"
    <3>1. \A b \in Requests \ {r} : Debt(b)' => Debt(b)
      BY <1>1, <2>2
    <3> QED BY <2>1, <3>1, DebtsDef DEF OneMore
  <2>3. CASE pc[r] = "cleanup" /\ victim[r] # 0
    <3>1. victim[r] \in Requests
      BY <1>t, <2>3
    <3>2. ASSUME r # victim[r], Debt(r)' PROVE Debt(r)
      <4>1. task[r] # "run"
        BY <2>3 DEF PutsOK
      <4>2. Accounted(r) => Accounted(r)'
        BY <1>t, <1>f, <1>g, <2>1, <2>3, <3>2 DEF Accounted
      <4>3. ~Queued(r)
        BY <2>3 DEF Queued, JobsOK
      <4>4. pc'[r] = "gone" /\ file'[r] = file[r] /\ task'[r] = task[r]
        BY <1>t, <2>1
      <4>5. file[r] \notin {"none", "unlinked"} /\ r \notin Referenced /\ ~Accounted(r)
        BY <1>g, <3>2, <4>1, <4>2, <4>3, <4>4 DEF Debt
      <4> QED BY <4>5 DEF Debt
    <3>3. \A b \in Requests : b # victim[r] /\ Debt(b)' => Debt(b)
      BY <1>1, <3>2
    <3>4. Debts' \subseteq Debts \cup {victim[r]}
      BY <3>3, DebtsDef
    <3> QED BY <2>1, <3>1, <3>4 DEF OneMore
  <2>4. CASE pc[r] = "cleanup" /\ victim[r] = 0
    <3>1. \A b \in Requests : b # 0
      BY StorageAssumption DEF Requests
    <3>2. \A b \in Requests \ {r} : Debt(b)' => Debt(b)
      BY <1>1, <2>4, <3>1
    <3> QED BY <2>1, <3>2, DebtsDef DEF OneMore
  <2> QED BY <2>2, <2>3, <2>4
<1> QED BY <1>2, <1>3, <1>4

\* A step counts a failure or none.
LEMMA FaultMoves ==
  ASSUME IInv, Next
  PROVE  UNCHANGED faults \/ Fault
<1>1. ASSUME NEW r \in Requests, NEW o \in Objects,
             BeginSave(r, o) \/ delete_object(r, o) \/ get_object(r, o)
      PROVE  UNCHANGED faults
  BY <1>1 DEF BeginSave, delete_object, get_object
<1>2. ASSUME NEW r \in Requests,
             \/ SaveWritten(r) \/ SaveNotWritten(r) \/ Submit(r) \/ CleanUp(r) \/ CleanedUp(r)
             \/ SelectRow(r) \/ load_blob(r) \/ TaskStep(r) \/ TaskError(r) \/ Unlink(r)
             \/ Drop(r) \/ RemoveGarbage(r)
      PROVE  UNCHANGED faults \/ Fault
  BY <1>2 DEF SaveWritten, SaveNotWritten, Submit, CleanUp, CleanedUp, SelectRow, load_blob,
              TaskStep, TaskError, Unlink, Drop, RemoveGarbage
<1>3. RunJob \/ RunJobError \/ Crash \/ PowerLoss \/ Start \/ CheckBlobs \/ Serve
        => UNCHANGED faults \/ Fault
  BY DEF RunJob, RunJobError, Crash, PowerLoss, Start, CheckBlobs, Serve
<1>4. UNCHANGED <<up, reqVars, fileVars, rowVars, lockq, jobs, faults>> => UNCHANGED faults
  OBVIOUS
<1> QED BY <1>1, <1>2, <1>3, <1>4, NextCases

\* What a step of a process that serves does to the debts.
LEMMA DebtMoves ==
  ASSUME IInv, Next, up = "serving", up' = "serving"
  PROVE  NoMore \/ OneMore \/ OneMoved
<1>1. ASSUME UNCHANGED <<up, reqVars, fileVars, rowVars, lockq, jobs, faults>>
      PROVE  NoMore
  <2>1. \A b \in Requests : Debt(b)' => Debt(b)
    BY <1>1 DEF Debt, Queued, Referenced, Accounted, reqVars, fileVars, rowVars
  <2> QED BY <2>1, DebtsDef DEF NoMore
<1>2. ~Crash /\ ~PowerLoss /\ ~Start /\ ~CheckBlobs /\ ~Serve /\ \A r \in Requests : ~RemoveGarbage(r)
  BY DEF Crash, PowerLoss, Stop, Start, CheckBlobs, Serve, RemoveGarbage
<1>3. ASSUME NEW r \in Requests, NEW o \in Objects,
             BeginSave(r, o) \/ delete_object(r, o) \/ get_object(r, o)
      PROVE  NoMore
  BY <1>3, HandlerDebts
<1>4. ASSUME NEW r \in Requests,
             \/ SaveWritten(r) \/ SaveNotWritten(r) \/ Submit(r) \/ CleanUp(r) \/ CleanedUp(r)
             \/ SelectRow(r) \/ load_blob(r) \/ TaskStep(r)
      PROVE  NoMore
  BY <1>4, HandlerDebts
<1>5. ASSUME NEW r \in Requests, TaskError(r) \/ Unlink(r) \/ Drop(r)
      PROVE  NoMore \/ OneMore
  BY <1>5, FailureDebts
<1> QED BY <1>1, <1>2, <1>3, <1>4, <1>5, WriterDebts, NextCases

\* A process that begins to serve has no debts: it removed every file without a row.
LEMMA ServeDebts ==
  ASSUME IInv, Serve
  PROVE  Debts' = {}
<1>1. /\ \A b \in Requests : file[b] \in Files /\ pc[b] # "writing" /\ task[b] = "none"
      /\ \A b \in Requests : file[b] # "temp" /\ (InBlobs(file[b]) => b \in Referenced)
      /\ jobs = <<>>
  BY DEF IInv, TypeOK, OnlyStartup, Serve, Garbage, Active
<1>2. UNCHANGED <<pc, victim, file, task, unlinks, rows, jobs>>
  BY DEF Serve, reqVars, fileVars, rowVars
<1>3. \A b \in Requests : ~Queued(b)
  BY <1>1 DEF Queued
<1>4. \A b \in Requests : ~Debt(b)
  BY <1>1, <1>3 DEF Debt, Files, InBlobs
<1>5. \A b \in Requests : Debt(b)' => Debt(b)
  BY <1>2 DEF Debt, Queued, Referenced, Accounted
<1> QED BY <1>4, <1>5, DebtsDef

\* Once the process serves, there are at most as many debts as failures.
LEMMA LeaksStep ==
  ASSUME IInv, Next
  PROVE  LeaksOK'
<1> SUFFICES ASSUME up' = "serving" PROVE Cardinality(Debts') <= faults'
  BY DEF LeaksOK
<1>t. faults \in Nat /\ (faults' = faults \/ faults' = faults + 1)
  BY FaultMoves DEF Fault, IInv, TypeOK
<1>1. IsFiniteSet(Requests)
  BY StorageAssumption, FS_Interval DEF Requests
<1>2. ASSUME NEW S, S \subseteq Requests PROVE IsFiniteSet(S) /\ Cardinality(S) \in Nat
  BY <1>1, <1>2, FS_Subset, FS_CardinalityType
<1>3. CASE Serve
  BY <1>t, <1>3, ServeDebts, FS_EmptySet
<1>4. CASE ~Serve
  <2>1. up = "serving"
    BY <1>4, UpMoves DEF Crash, PowerLoss, Stop, Start, CheckBlobs
  <2>2. Cardinality(Debts) <= faults
    BY <2>1 DEF IInv, LeaksOK
  <2> DEFINE old == Debts
             new == Debts'
  <2>3. old \subseteq Requests /\ new \subseteq Requests
    BY DebtsDef
  <2>4. /\ IsFiniteSet(old) /\ Cardinality(old) \in Nat
        /\ IsFiniteSet(new) /\ Cardinality(new) \in Nat
    BY <1>2, <2>3
  <2>m. NoMore \/ OneMore \/ OneMoved
    BY <2>1, DebtMoves
  <2>5. CASE NoMore
    <3>1. new \subseteq old
      BY <2>5 DEF NoMore
    <3> HIDE DEF old, new
    <3>2. Cardinality(new) <= Cardinality(old)
      BY <2>4, <3>1, FS_Subset
    <3> QED BY <1>t, <2>2, <2>4, <3>2 DEF old, new
  <2>6. CASE OneMore
    <3>1. PICK r \in Requests : new \subseteq old \cup {r}
      BY <2>6 DEF OneMore
    <3>n. faults' = faults + 1
      BY <2>6 DEF OneMore
    <3> HIDE DEF old, new
    <3>2. /\ IsFiniteSet(old \cup {r})
          /\ Cardinality(old \cup {r}) \in {Cardinality(old), Cardinality(old) + 1}
      BY <2>4, FS_AddElement
    <3>3. Cardinality(new) <= Cardinality(old \cup {r}) /\ Cardinality(old \cup {r}) \in Nat
      BY <3>1, <3>2, FS_Subset, FS_CardinalityType
    <3>4. Cardinality(new) <= Cardinality(old) + 1
      BY <2>4, <3>2, <3>3
    <3> QED BY <1>t, <2>2, <2>4, <3>n, <3>4 DEF old, new
  <2>7. CASE OneMoved
    <3>0. PICK r \in old : \E b \in Requests : new \subseteq (old \ {r}) \cup {b}
      BY <2>7 DEF OneMoved
    <3>1. PICK b \in Requests : new \subseteq (old \ {r}) \cup {b}
      BY <3>0
    <3> HIDE DEF old, new
    <3>2. IsFiniteSet(old \ {r}) /\ Cardinality(old \ {r}) = Cardinality(old) - 1
      BY <2>4, FS_RemoveElement
    <3>3. /\ IsFiniteSet((old \ {r}) \cup {b})
          /\ Cardinality((old \ {r}) \cup {b})
               \in {Cardinality(old \ {r}), Cardinality(old \ {r}) + 1}
      BY <3>2, FS_AddElement
    <3>4. /\ Cardinality(new) <= Cardinality((old \ {r}) \cup {b})
          /\ Cardinality((old \ {r}) \cup {b}) \in Nat
      BY <3>1, <3>3, FS_Subset, FS_CardinalityType
    <3>5. Cardinality(new) <= Cardinality(old)
      BY <2>4, <3>2, <3>3, <3>4
    <3> QED BY <1>t, <2>2, <2>4, <3>5 DEF old, new
  <2> QED BY <2>m, <2>5, <2>6, <2>7
<1> QED BY <1>3, <1>4

\* Nothing of the invariant depends on more than the variables.
LEMMA StutterIInv ==
  ASSUME IInv, UNCHANGED <<setup, vars>>
  PROVE  IInv'
<1>1. UNCHANGED <<setup, up, pc, op, victim, file, task, unlinks, rows, gen, applied, lockq, jobs,
                  uploads, faults>>
  BY DEF vars, reqVars, fileVars, rowVars
<1>2. (TypeOK /\ LockOK /\ JobsOK /\ FilesOK /\ AppliedOK)'
  <2>1. TypeOK' /\ AppliedOK'
    BY <1>1 DEF IInv, TypeOK, AppliedOK
  <2>2. LockOK'
    BY <1>1 DEF IInv, LockOK, Holds, Granted, Shared
  <2>3. JobsOK' /\ FilesOK'
    BY <1>1 DEF IInv, JobsOK, FilesOK, Shared, Queued
  <2> QED BY <2>1, <2>2, <2>3
<1>3. (RowsOK /\ RemovedOK /\ ReadOK /\ OnlyStartup)'
  BY <1>1 DEF IInv, RowsOK, RemovedOK, ReadOK, OnlyStartup, Past, Queued, Referenced, Active
<1>4. (RowHasBlob /\ ReadHasBlob /\ UploadIsExact)'
  BY <1>1 DEF IInv, RowHasBlob, ReadHasBlob, UploadIsExact, Referenced
<1>5. (PutsOK /\ VictimsOK)'
  BY <1>1 DEF IInv, PutsOK, VictimsOK
<1>6. LeaksOK'
  <2>1. Debts' = Debts
    BY <1>1 DEF Debts, Leaked, Owing, Referenced, Accounted, Queued
  <2> QED BY <1>1, <2>1 DEF IInv, LeaksOK
<1> QED BY <1>2, <1>3, <1>4, <1>5, <1>6 DEF IInv

-----------------------------------------------------------------------------
(* What every behaviour satisfies.                                         *)

\* The invariant holds in every state of every behaviour.
THEOREM Invariance == Spec => []IInv
<1>1. IInv /\ [Next]_<<setup, vars>> => IInv'
  <2> SUFFICES ASSUME IInv, Next PROVE IInv'
    BY StutterIInv
  <2>1. TypeOK /\ UploadIsExact
    BY DEF IInv
  <2> QED BY <2>1, TypeStep, LockStep, JobsStep, FilesStep, AppliedStep, RowsStep, RemovedStep,
             ReadStep, StartupStep, BlobStep, UploadStep, PutsStep, VictimsStep, LeaksStep DEF IInv
<1> QED BY <1>1, InitIInv, PTL DEF Spec

\* The types of the state hold.
THEOREM TypeCorrectness == Spec => []TypeOK
<1>1. IInv => TypeOK
  BY DEF IInv
<1> QED BY <1>1, Invariance, PTL

\* Every committed row has its flushed blob and startup never refuses the data.
THEOREM BlobSafety == Spec => []RowHasBlob
<1>1. IInv => RowHasBlob
  BY DEF IInv
<1> QED BY <1>1, Invariance, PTL

\* A download that has chosen its row finds the blob.
THEOREM ReadSafety == Spec => []ReadHasBlob
<1>1. IInv => ReadHasBlob
  BY DEF IInv
<1> QED BY <1>1, Invariance, PTL

\* A process that serves has lost track of at most as many files as there were
\* failures: its startup removed what earlier ones left.
THEOREM LeakSafety == Spec => []LeaksAreFailures
<1>1. ASSUME IInv, up = "serving" PROVE Cardinality(Leaked) <= faults
  <2>1. IsFiniteSet(Requests)
    BY StorageAssumption, FS_Interval DEF Requests
  <2>2. Debts \subseteq Requests /\ Leaked \subseteq Debts
    BY DEF Debts, Leaked, Owing
  <2>3. IsFiniteSet(Debts) /\ IsFiniteSet(Leaked) /\ Cardinality(Leaked) <= Cardinality(Debts)
    BY <2>1, <2>2, FS_Subset
  <2>4. Cardinality(Debts) \in Nat /\ Cardinality(Leaked) \in Nat
    BY <2>3, FS_CardinalityType
  <2>5. Cardinality(Debts) <= faults /\ faults \in Nat
    BY <1>1 DEF IInv, LeaksOK, TypeOK
  <2> QED BY <2>3, <2>4, <2>5
<1>2. IInv => LeaksAreFailures
  BY <1>1 DEF LeaksAreFailures
<1> QED BY <1>2, Invariance, PTL

\* While the chunks of a resumable session name their offsets, its bytes are the
\* start of the client's file; its size has its limit whatever chunks come.
THEOREM UploadSafety == Spec => []UploadIsExact
<1>1. IInv => UploadIsExact
  BY DEF IInv
<1> QED BY <1>1, Invariance, PTL

-----------------------------------------------------------------------------
(* Storage implements ObjectStore.                                         *)

\* What a client may observe of a request, before and after a step.
LEMMA StatusFacts ==
  ASSUME NEW r \in Requests
  PROVE  /\ pc[r] = "new" => StatusOf(r) = "new"
         /\ pc[r] = "ok" => StatusOf(r) = "answered"
         /\ pc[r] \in {"error", "missing"} => StatusOf(r) = "refused"
         /\ pc[r] \notin {"new", "ok", "error", "missing"} =>
              StatusOf(r) = IF r \in applied THEN "applied" ELSE "begun"
         /\ pc'[r] = "new" => StatusOf(r)' = "new"
         /\ pc'[r] = "ok" => StatusOf(r)' = "answered"
         /\ pc'[r] \in {"error", "missing"} => StatusOf(r)' = "refused"
         /\ pc'[r] \notin {"new", "ok", "error", "missing"} =>
              StatusOf(r)' = IF r \in applied' THEN "applied" ELSE "begun"
BY DEF StatusOf

\* A step that moves one request from status a to status b is one of the
\* abstract store's when its effect is.
LEMMA MoveFacts ==
  ASSUME NEW r \in Requests, NEW b, pc' = [pc EXCEPT ![r] = pc'[r]], pc \in [Requests -> PCs],
         \A q \in Requests \ {r} : q \in applied' <=> q \in applied,
         StatusOf(r)' = b
  PROVE  [q \in Requests |-> StatusOf(q)']
           = [[q \in Requests |-> StatusOf(q)] EXCEPT ![r] = b]
<1>1. ASSUME NEW q \in Requests \ {r} PROVE StatusOf(q)' = StatusOf(q)
  <2>1. pc'[q] = pc[q] /\ (q \in applied' <=> q \in applied)
    OBVIOUS
  <2> QED BY <2>1 DEF StatusOf
<1> HIDE DEF StatusOf
<1> QED BY <1>1

\* The initial states are the store's.
LEMMA StoreInit == Init => Store!Init
<1> SUFFICES ASSUME Init PROVE Store!Init
  OBVIOUS
<1>1. \A r \in Requests : StatusOf(r) = "new"
  BY StatusFacts DEF Init
<1>2. op \in [Requests -> Ops]
  BY OpsFacts DEF Init
<1>3. \A o \in Objects : rows[o].gen = 0
  BY DEF Init, NoRow
<1>4. gen = 0
  BY DEF Init
<1> HIDE DEF StatusOf
<1> QED BY <1>1, <1>2, <1>3, <1>4 DEF Store!Init

\* Every step is one of the store's, or invisible to it.
LEMMA StoreStep ==
  ASSUME IInv, Next
  PROVE  Store!Next \/ UNCHANGED Store!ovars
<1> DEFINE Goal == Store!Next \/ UNCHANGED Store!ovars
<1> USE DEF IInv
<1>t. /\ pc \in [Requests -> PCs] /\ op \in [Requests -> Ops] /\ jobs \in Seq(Requests)
      /\ rows \in [Objects -> [blob : 0..MaxRequests, gen : Nat]]
  BY DEF TypeOK
<1>s. ASSUME \A q \in Requests : StatusOf(q)' = StatusOf(q), UNCHANGED <<op, rows, gen>>
      PROVE  Goal
  <2> HIDE DEF StatusOf
  <2> QED BY <1>s DEF Store!ovars
<1>u. ASSUME UNCHANGED <<pc, op, rows, gen, applied>> PROVE Goal
  <2>1. \A q \in Requests : StatusOf(q)' = StatusOf(q)
    BY <1>u DEF StatusOf
  <2> QED BY <1>s, <1>u, <2>1
<1>m. ASSUME \A q \in Requests :
               pc'[q] = pc[q] \/ {pc[q], pc'[q]} \cap {"new", "ok", "error", "missing"} = {},
             UNCHANGED <<op, rows, gen, applied>>
      PROVE  Goal
  <2>1. \A q \in Requests : StatusOf(q)' = StatusOf(q)
    BY <1>m DEF StatusOf
  <2> QED BY <1>s, <1>m, <2>1
<1>b. ASSUME NEW r \in Requests, NEW k \in {"put", "delete", "get"}, NEW o \in Objects,
             pc[r] = "new", pc' = [pc EXCEPT ![r] = pc'[r]], pc'[r] \in {"writing", "lock"},
             op' = [op EXCEPT ![r] = [kind |-> k, obj |-> o]], UNCHANGED <<rows, gen, applied>>
      PROVE  Goal
  <2>1. StatusOf(r) = "new" /\ StatusOf(r)' = "begun"
    BY <1>b, StatusFacts DEF AppliedOK
  <2>2. [q \in Requests |-> StatusOf(q)']
          = [[q \in Requests |-> StatusOf(q)] EXCEPT ![r] = "begun"]
    BY <1>b, <1>t, <2>1, MoveFacts
  <2>3. [kind |-> k, obj |-> o] \in Ops
    BY OpsFacts
  <2> HIDE DEF StatusOf
  <2>4. Store!Begin(r, [kind |-> k, obj |-> o])
    BY <1>b, <2>1, <2>2 DEF Store!Begin
  <2> QED BY <2>3, <2>4 DEF Store!Next
<1>f. ASSUME NEW r \in Requests, NEW st, pc' = [pc EXCEPT ![r] = st],
             pc[r] \notin {"new", "ok", "error", "missing"},
             st \in {"ok", "error", "missing"}, st = "ok" <=> r \in applied,
             UNCHANGED <<op, rows, gen, applied>>
      PROVE  Goal
  <2>1. pc'[r] = st
    BY <1>f, <1>t
  <2>2. CASE st = "ok"
    <3>1. StatusOf(r) = "applied" /\ StatusOf(r)' = "answered"
      BY <1>f, <2>1, <2>2, StatusFacts
    <3>2. [q \in Requests |-> StatusOf(q)']
            = [[q \in Requests |-> StatusOf(q)] EXCEPT ![r] = "answered"]
      BY <1>f, <1>t, <2>1, <3>1, MoveFacts
    <3> HIDE DEF StatusOf
    <3>3. Store!Answer(r)
      BY <1>f, <3>1, <3>2 DEF Store!Answer
    <3> QED BY <3>3 DEF Store!Next
  <2>3. CASE st # "ok"
    <3>1. StatusOf(r) = "begun" /\ StatusOf(r)' = "refused"
      BY <1>f, <2>1, <2>3, StatusFacts
    <3>2. [q \in Requests |-> StatusOf(q)']
            = [[q \in Requests |-> StatusOf(q)] EXCEPT ![r] = "refused"]
      BY <1>f, <1>t, <2>1, <3>1, MoveFacts
    <3> HIDE DEF StatusOf
    <3>3. Store!Refuse(r)
      BY <1>f, <3>1, <3>2 DEF Store!Refuse
    <3> QED BY <3>3 DEF Store!Next
  <2> QED BY <2>2, <2>3
<1> HIDE DEF Goal, StatusOf
<1>1. ASSUME NEW r \in Requests, NEW o \in Objects,
             BeginSave(r, o) \/ delete_object(r, o) \/ get_object(r, o)
      PROVE  Goal
  <2>1. PICK k \in {"put", "delete", "get"} : Begin(r, k, o)
    BY <1>1 DEF BeginSave, delete_object, get_object
  <2>2. /\ pc[r] = "new" /\ pc' = [pc EXCEPT ![r] = pc'[r]] /\ pc'[r] \in {"writing", "lock"}
        /\ UNCHANGED <<rows, gen, applied>>
    BY <1>1, <1>t, <2>1 DEF BeginSave, delete_object, get_object, Begin, rowVars
  <2> QED BY <1>b, <2>1, <2>2 DEF Begin
<1>2. ASSUME UNCHANGED <<up, reqVars, fileVars, rowVars, lockq, jobs, faults>> PROVE Goal
  BY <1>2, <1>u DEF reqVars, rowVars
<1>3. ASSUME NEW r \in Requests, SaveWritten(r) \/ Submit(r) \/ Drop(r) PROVE Goal
  <2>1. UNCHANGED <<op, rows, gen, applied>>
    BY <1>3 DEF SaveWritten, Submit, Drop, rowVars
  <2>2. \A q \in Requests :
          pc'[q] = pc[q] \/ {pc[q], pc'[q]} \cap {"new", "ok", "error", "missing"} = {}
    BY <1>3, <1>t DEF SaveWritten, Submit, Drop, Active, Finish
  <2> QED BY <1>m, <2>1, <2>2
<1>4. ASSUME NEW r \in Requests, SaveNotWritten(r) PROVE Goal
  <2>1. /\ pc[r] = "writing" /\ pc' = [pc EXCEPT ![r] = "error"] /\ r \notin applied
        /\ UNCHANGED <<op, rows, gen, applied>>
    BY <1>4 DEF SaveNotWritten, AppliedOK, rowVars
  <2> QED BY <1>f, <2>1
<1>5. ASSUME NEW r \in Requests, CleanUp(r) \/ CleanedUp(r) PROVE Goal
  <2>1. /\ pc[r] \in {"cleanup", "unlink"} /\ UNCHANGED <<op, rows, gen, applied>>
        /\ pc' = [pc EXCEPT ![r] = Outcome(r)] \/ pc' = [pc EXCEPT ![r] = "unlink"]
    BY <1>5 DEF CleanUp, CleanedUp, Finish, rowVars
  <2>2. CASE pc' = [pc EXCEPT ![r] = "unlink"]
    BY <1>m, <1>t, <2>1, <2>2
  <2>3. CASE pc' = [pc EXCEPT ![r] = Outcome(r)]
    <3>1. Outcome(r) \in {"ok", "error"} /\ (Outcome(r) = "ok" <=> r \in applied)
      BY DEF Outcome
    <3> QED BY <1>f, <2>1, <2>3, <3>1
  <2> QED BY <2>1, <2>2, <2>3
<1>6. ASSUME NEW r \in Requests, SelectRow(r) PROVE Goal
  <2>1. /\ pc[r] = "lock" /\ op[r].kind = "get" /\ r \notin applied
        /\ pc' = [pc EXCEPT ![r] = "read"] /\ applied' = applied \cup {r}
        /\ UNCHANGED <<op, rows, gen>>
    BY <1>6 DEF SelectRow, Shared, AppliedOK
  <2>2. pc'[r] = "read"
    BY <1>t, <2>1
  <2>3. StatusOf(r) = "begun" /\ StatusOf(r)' = "applied"
    BY <2>1, <2>2, StatusFacts
  <2>4. [q \in Requests |-> StatusOf(q)']
          = [[q \in Requests |-> StatusOf(q)] EXCEPT ![r] = "applied"]
    BY <1>t, <2>1, <2>2, <2>3, MoveFacts
  <2>5. Store!Apply(r)
    BY <2>1, <2>3, <2>4 DEF Store!Apply
  <2> QED BY <2>5 DEF Store!Next, Goal
<1>7. ASSUME NEW r \in Requests, load_blob(r) PROVE Goal
  <2>1. /\ pc[r] = "read" /\ r \in applied /\ UNCHANGED <<op, rows, gen, applied>>
        /\ victim[r] = 0 \/ file[victim[r]] = "stored"
    BY <1>7 DEF load_blob, AppliedOK, ReadHasBlob, rowVars
  <2>2. pc' = [pc EXCEPT ![r] = "ok"]
    BY <1>7, <2>1 DEF load_blob, Finish, InBlobs
  <2> QED BY <1>f, <2>1, <2>2
<1>8. ASSUME RunJob PROVE Goal
  <2>1. PICK r \in Requests :
           /\ Queued(r) /\ op[r].obj \in Objects /\ UNCHANGED op
           /\ \A o \in Objects \ {op[r].obj} : rows'[o] = rows[o]
           /\ \/ /\ op[r].kind = "put" /\ rows'[op[r].obj].gen = gen + 1 /\ gen' = gen + 1
              \/ /\ op[r].kind = "delete" /\ rows'[op[r].obj] = NoRow /\ gen' = gen
           /\ pc' = [pc EXCEPT ![r] = IF @ = "job" THEN "cleanup" ELSE @]
           /\ applied' = applied \cup {r}
    BY <1>8, RunJobFacts
  <2>2. pc[r] \in {"job", "gone"} /\ r \notin applied
    BY <2>1 DEF JobsOK, Queued
  <2>3. pc'[r] \in {"cleanup", "gone"} /\ pc' = [pc EXCEPT ![r] = pc'[r]]
    BY <1>t, <2>1, <2>2
  <2>4. StatusOf(r) = "begun" /\ StatusOf(r)' = "applied"
    BY <2>1, <2>2, <2>3, StatusFacts
  <2>5. [q \in Requests |-> StatusOf(q)']
          = [[q \in Requests |-> StatusOf(q)] EXCEPT ![r] = "applied"]
    BY <1>t, <2>1, <2>3, <2>4, MoveFacts
  <2>6. CASE op[r].kind = "put" /\ rows'[op[r].obj].gen = gen + 1 /\ gen' = gen + 1
    <3>1. [o \in Objects |-> rows'[o].gen]
            = [[o \in Objects |-> rows[o].gen] EXCEPT ![op[r].obj] = gen + 1]
      BY <2>1, <2>6
    <3>2. Store!Apply(r)
      BY <2>1, <2>4, <2>5, <2>6, <3>1 DEF Store!Apply
    <3> QED BY <3>2 DEF Store!Next, Goal
  <2>7. CASE op[r].kind = "delete" /\ rows'[op[r].obj] = NoRow /\ gen' = gen
    <3>1. [o \in Objects |-> rows'[o].gen]
            = [[o \in Objects |-> rows[o].gen] EXCEPT ![op[r].obj] = 0]
      <4>1. rows'[op[r].obj].gen = 0
        BY <2>7 DEF NoRow
      <4> QED BY <2>1, <4>1
    <3>2. Store!Apply(r)
      BY <2>1, <2>4, <2>5, <2>7, <3>1 DEF Store!Apply
    <3> QED BY <3>2 DEF Store!Next, Goal
  <2> QED BY <2>1, <2>6, <2>7
<1>9. ASSUME RunJobError PROVE Goal
  <2>1. PICK r \in Requests : r = Head(jobs) /\ Queued(r)
    BY <1>9, TakeFacts DEF RunJobError
  <2>2. /\ pc' = [pc EXCEPT ![r] = IF @ = "job" THEN "cleanup" ELSE @]
        /\ UNCHANGED <<op, rows, gen, applied>>
    BY <1>9, <2>1 DEF RunJobError, Reply, rowVars
  <2>3. \A q \in Requests :
          pc'[q] = pc[q] \/ {pc[q], pc'[q]} \cap {"new", "ok", "error", "missing"} = {}
    BY <1>t, <2>2
  <2> QED BY <1>m, <2>2, <2>3
<1>10. ASSUME Crash \/ PowerLoss PROVE Goal
  <2>1. UNCHANGED <<op, rows, gen, applied>>
    BY <1>10 DEF Crash, PowerLoss, Stop, rowVars
  <2>2. \A q \in Requests :
          pc'[q] = pc[q] \/ {pc[q], pc'[q]} \cap {"new", "ok", "error", "missing"} = {}
    BY <1>t, <1>10 DEF Crash, PowerLoss, Stop, Active
  <2> QED BY <1>m, <2>1, <2>2
<1>11. ASSUME NEW r \in Requests, TaskStep(r) \/ TaskError(r) \/ Unlink(r) \/ RemoveGarbage(r)
       PROVE  Goal
  BY <1>u, <1>11 DEF TaskStep, TaskError, Unlink, RemoveGarbage, reqVars, rowVars
<1>12. ASSUME Start \/ CheckBlobs \/ Serve PROVE Goal
  BY <1>u, <1>12 DEF Start, CheckBlobs, Serve, reqVars, rowVars
<1>13. Goal
  BY <1>1, <1>2, <1>3, <1>4, <1>5, <1>6, <1>7, <1>8, <1>9, <1>10, <1>11, <1>12, NextCases
<1> QED BY <1>13 DEF Goal

\* Requests take effect at most once, success is answered after the effect and
\* a refused request never has one, whatever crashes, is dropped or fails.
THEOREM Refinement == Spec => ImplementsStore
<1>1. IInv /\ [Next]_<<setup, vars>> => [Store!Next]_(Store!ovars)
  <2> SUFFICES ASSUME IInv, [Next]_<<setup, vars>>
               PROVE  Store!Next \/ UNCHANGED Store!ovars
    OBVIOUS
  <2>1. CASE Next
    BY <2>1, StoreStep
  <2>2. CASE UNCHANGED <<setup, vars>>
    BY <2>2 DEF Store!ovars, vars, reqVars, rowVars, StatusOf
  <2> QED BY <2>1, <2>2
<1> QED BY <1>1, StoreInit, Invariance, PTL DEF Spec, ImplementsStore, Store!Spec
=============================================================================
