------------------------ MODULE FunctionsQueueProofs ------------------------
(***************************************************************************)
(* Proofs about FunctionsQueue for every number of events, attempts,       *)
(* handlers, faults and every capacity.                                    *)
(***************************************************************************)
EXTENDS FunctionsQueue, FoldLemmas

-----------------------------------------------------------------------------
(* Facts about the table.                                                  *)

\* Ids is finite, and so is every set of rows selected from it.
LEMMA IdsFinite ==
  ASSUME NEW S \in SUBSET Ids
  PROVE  IsFiniteSet(S) /\ Cardinality(S) \in Nat
<1>1. IsFiniteSet(Ids)
  BY OutboxAssumption, FS_Interval DEF Ids
<1> QED BY <1>1, FS_Subset, FS_CardinalityType

\* The trimming DELETE changes a row in one way: rows in state st may go.
LEMMA TrimFacts ==
  ASSUME NEW r \in [Ids -> Row], NEW st \in States
  PROVE  /\ Trim(r, st) \in [Ids -> Row]
         /\ \A i \in Ids :
              /\ Trim(r, st)[i] = r[i] \/ (r[i].state = st /\ Trim(r, st)[i].state = "gone")
              /\ Trim(r, st)[i].attempts = r[i].attempts
  BY DEF Trim, Row, States, Moved

\* The delay before the next attempt is a number of seconds.
LEMMA BackoffType == \A a \in Nat : Backoff(a) \in Nat
  BY DEF Backoff

\* One step of the clock changes no state and no attempt count.
LEMMA TickFacts ==
  ASSUME TableTypeOK, Tick
  PROVE  /\ rows' \in [Ids -> Row]
         /\ \A i \in Ids : /\ rows'[i].state = rows[i].state
                           /\ rows'[i].attempts = rows[i].attempts
                           /\ rows[i] = NoRow => rows'[i] = NoRow
  BY DEF Tick, TableTypeOK, Row, NoRow, Moved, Less

\* The records of one transaction become new rows; nothing else changes.
LEMMA InsertFacts ==
  ASSUME TableTypeOK, NEW n \in Nat, insert_outbox(n)
  PROVE  /\ TableTypeOK'
         /\ nextId' = nextId + n
         /\ \A i \in Ids : rows'[i] = IF i >= nextId /\ i < nextId' THEN NewRow ELSE rows[i]
  BY OutboxAssumption DEF insert_outbox, TableTypeOK, Row, States, NewRow, Ids

\* Recovery makes in-flight rows pending; nothing else changes.
LEMMA RecoverFacts ==
  ASSUME TableTypeOK, recover_outbox
  PROVE  /\ TableTypeOK'
         /\ \A i \in Ids : /\ rows'[i].attempts = rows[i].attempts
                           /\ IF rows[i].state = "in_flight"
                              THEN rows'[i].state = "pending" ELSE rows'[i] = rows[i]
  BY DEF recover_outbox, TableTypeOK, Row, States, Moved

\* A claim leases one outstanding row and counts the attempt.
LEMMA ClaimFacts ==
  ASSUME TableTypeOK, NEW id \in Ids, claim_outbox(id)
  PROVE  /\ TableTypeOK'
         /\ rows[id].state \in {"pending", "in_flight"}
         /\ rows'[id].state = "in_flight"
         /\ rows'[id].attempts = rows[id].attempts + 1
         /\ \A i \in Ids \ {id} : rows'[i] = rows[i]
  BY OutboxAssumption DEF claim_outbox, Claimable, TableTypeOK, Row, States

\* An acknowledgement settles one in-flight row and trims delivered ones.
LEMMA AckFacts ==
  ASSUME TableTypeOK, NEW id \in Ids, acknowledge_outbox(id)
  PROVE  /\ TableTypeOK'
         /\ rows[id].state = "in_flight"
         /\ rows'[id].state \in {"delivered", "gone"}
         /\ eventCompleted' = eventCompleted + 1
         /\ \A i \in Ids : rows'[i].attempts = rows[i].attempts
         /\ \A i \in Ids \ {id} :
              rows'[i] = rows[i] \/ (rows[i].state = "delivered" /\ rows'[i].state = "gone")
<1> DEFINE D == Delivered(id)
<1>1. /\ D \in [Ids -> Row]
      /\ D[id].state = "delivered"
      /\ D[id].attempts = rows[id].attempts
      /\ \A i \in Ids \ {id} : D[i] = rows[i]
  BY DEF Delivered, Moved, TableTypeOK, Row, States
<1>2. rows' = Trim(D, "delivered") /\ "delivered" \in States
  BY DEF acknowledge_outbox, States
<1> HIDE DEF D
<1>3. /\ rows' \in [Ids -> Row]
      /\ rows'[id].state \in {"delivered", "gone"}
      /\ \A i \in Ids : rows'[i].attempts = rows[i].attempts
      /\ \A i \in Ids \ {id} :
           rows'[i] = rows[i] \/ (rows[i].state = "delivered" /\ rows'[i].state = "gone")
  <2>1. /\ Trim(D, "delivered") \in [Ids -> Row]
        /\ \A i \in Ids :
             /\ Trim(D, "delivered")[i] = D[i]
                  \/ (D[i].state = "delivered" /\ Trim(D, "delivered")[i].state = "gone")
             /\ Trim(D, "delivered")[i].attempts = D[i].attempts
    BY <1>1, <1>2, TrimFacts
  <2> QED BY <1>1, <1>2, <2>1
<1> QED BY <1>3 DEF acknowledge_outbox, TableTypeOK

\* A failed attempt makes one row pending, or, used up, failed or trimmed.
LEMMA FailFacts ==
  ASSUME TableTypeOK, NEW id \in Ids, NEW a \in Nat, fail_outbox(id, a)
  PROVE  /\ TableTypeOK'
         /\ IF a >= MaxAttempts THEN rows'[id].state \in {"failed", "gone"}
                               ELSE rows'[id].state = "pending"
         /\ \A i \in Ids : rows'[i].attempts = rows[i].attempts
         /\ \A i \in Ids \ {id} :
              rows'[i] = rows[i] \/ (rows[i].state = "failed" /\ rows'[i].state = "gone")
<1> DEFINE D == Failed(id)
<1>1. /\ D \in [Ids -> Row]
      /\ D[id].state = "failed"
      /\ D[id].attempts = rows[id].attempts
      /\ \A i \in Ids \ {id} : D[i] = rows[i]
  BY DEF Failed, Moved, TableTypeOK, Row, States
<1>2. CASE a >= MaxAttempts
  <2>1. rows' = Trim(D, "failed") /\ "failed" \in States
    BY <1>2 DEF fail_outbox, States
  <2> HIDE DEF D
  <2>2. /\ Trim(D, "failed") \in [Ids -> Row]
        /\ \A i \in Ids :
             /\ Trim(D, "failed")[i] = D[i]
                  \/ (D[i].state = "failed" /\ Trim(D, "failed")[i].state = "gone")
             /\ Trim(D, "failed")[i].attempts = D[i].attempts
    BY <1>1, <2>1, TrimFacts
  <2>3. TableTypeOK'
    BY <2>1, <2>2 DEF fail_outbox, TableTypeOK
  <2> QED BY <1>1, <1>2, <2>1, <2>2, <2>3
<1>3. CASE ~(a >= MaxAttempts)
  BY <1>3, BackoffType DEF fail_outbox, TableTypeOK, Row, States, Moved
<1> QED BY <1>2, <1>3

\* When only the UPDATE of the terminal branch is committed.
LEMMA UntrimmedFacts ==
  ASSUME TableTypeOK, NEW id \in Ids, NEW a \in Nat, fail_outbox_untrimmed(id, a)
  PROVE  /\ TableTypeOK' /\ a >= MaxAttempts
         /\ rows'[id].state = "failed"
         /\ rows'[id].attempts = rows[id].attempts
         /\ \A i \in Ids \ {id} : rows'[i] = rows[i]
  BY DEF fail_outbox_untrimmed, Failed, Moved, TableTypeOK, Row, States

-----------------------------------------------------------------------------
(* Facts about the channel.                                                *)

\* The direct events of a channel can be counted.
LEMMA DirectsFinite ==
  ASSUME NEW c \in Seq(Nat)
  PROVE  IsFiniteSet(Directs(c)) /\ Cardinality(Directs(c)) \in Nat
<1>1. Len(c) \in Nat
  OBVIOUS
<1>2. IsFiniteSet(1..Len(c))
  BY <1>1, FS_Interval
<1>3. Directs(c) \in SUBSET (1..Len(c))
  BY DEF Directs
<1>4. IsFiniteSet(Directs(c))
  BY <1>2, <1>3, FS_Subset
<1> QED BY <1>4, FS_CardinalityType

\* Sending a direct event adds one; sending a wake adds none.
LEMMA DirectsAppend ==
  ASSUME NEW c \in Seq(Nat), NEW m \in Nat
  PROVE  /\ Append(c, m) \in Seq(Nat)
         /\ Cardinality(Directs(Append(c, m))) =
              Cardinality(Directs(c)) + (IF m = Wake THEN 0 ELSE 1)
<1>1. Append(c, m) \in Seq(Nat) /\ Len(Append(c, m)) = Len(c) + 1 /\ Len(c) \in Nat
  OBVIOUS
<1>2. \A k \in 1..(Len(c) + 1) : Append(c, m)[k] = IF k = Len(c) + 1 THEN m ELSE c[k]
  OBVIOUS
<1>3. CASE m = Wake
  <2>1. Directs(Append(c, m)) = Directs(c)
    BY <1>1, <1>2, <1>3 DEF Directs
  <2> QED BY <1>1, <1>3, <2>1, DirectsFinite
<1>4. CASE m # Wake
  <2>1. Directs(Append(c, m)) = Directs(c) \cup {Len(c) + 1}
    BY <1>1, <1>2, <1>4 DEF Directs
  <2>2. Len(c) + 1 \notin Directs(c)
    BY <1>1 DEF Directs
  <2>3. IsFiniteSet(Directs(c))
    BY DirectsFinite
  <2>4. Cardinality(Directs(c) \cup {Len(c) + 1}) = Cardinality(Directs(c)) + 1
    BY <2>2, <2>3, FS_AddElement
  <2> QED BY <1>1, <1>4, <2>1, <2>4
<1> QED BY <1>3, <1>4

\* Receiving position k drops k messages, of which only the last may be direct.
LEMMA DirectsReceive ==
  ASSUME NEW c \in Seq(Nat), NEW k \in 1..Len(c), \A j \in 1..(k - 1) : c[j] = Wake
  PROVE  /\ SubSeq(c, k + 1, Len(c)) \in Seq(Nat)
         /\ Cardinality(Directs(c)) =
              Cardinality(Directs(SubSeq(c, k + 1, Len(c)))) + (IF c[k] = Wake THEN 0 ELSE 1)
<1> DEFINE d == SubSeq(c, k + 1, Len(c))
           R == {j \in (k + 1)..Len(c) : c[j] # Wake}
           f == [j \in Directs(d) |-> j + k]
<1>1. /\ d \in Seq(Nat) /\ Len(c) \in Nat /\ k \in Nat
      /\ Len(d) = Len(c) - k
      /\ \A j \in 1..Len(d) : d[j] = c[j + k]
  OBVIOUS
<1> HIDE DEF d
<1>2. f \in Bijection(Directs(d), R)
  <2>1. \A j \in Directs(d) : j \in Nat /\ j + k \in R
    <3> SUFFICES ASSUME NEW j \in Directs(d) PROVE j \in Nat /\ j + k \in R
      OBVIOUS
    <3>1. j \in 1..Len(d) /\ d[j] # Wake
      BY DEF Directs
    <3>a. j \in Nat /\ j >= 1 /\ j <= Len(c) - k
      BY <1>1, <3>1
    <3>b. j + k \in (k + 1)..Len(c)
      BY <1>1, <3>a
    <3>2. c[j + k] # Wake /\ j + k \in (k + 1)..Len(c)
      BY <1>1, <3>1, <3>b
    <3> QED BY <3>2, <3>a
  <2>2. f \in [Directs(d) -> R]
    BY <2>1
  <2>3. ASSUME NEW a \in Directs(d), NEW b \in Directs(d), f[a] = f[b] PROVE a = b
    <3>1. f[a] = a + k /\ f[b] = b + k
      OBVIOUS
    <3>2. a \in Nat /\ b \in Nat /\ k \in Nat
      BY <1>1, <2>1
    <3>3. a + k = b + k
      BY <2>3, <3>1
    <3>4. \A x, y, z \in Nat : x + z = y + z => x = y
      OBVIOUS
    <3> QED BY <3>2, <3>3, <3>4
  <2>4. ASSUME NEW r \in R PROVE r - k \in Directs(d) /\ f[r - k] = r
    <3>1. r \in (k + 1)..Len(c) /\ c[r] # Wake
      OBVIOUS
    <3>2. r - k \in 1..Len(d) /\ (r - k) + k = r
      BY <1>1, <3>1
    <3>3. d[r - k] = c[r]
      BY <1>1, <3>2
    <3>4. r - k \in Directs(d)
      BY <3>1, <3>2, <3>3 DEF Directs
    <3> QED BY <3>2, <3>4
  <2> HIDE DEF f, R
  <2>5. \A r \in R : \E j \in Directs(d) : f[j] = r
    BY <2>4
  <2>6. f \in Injection(Directs(d), R)
    BY <2>2, <2>3 DEF Injection, IsInjective
  <2>7. f \in Surjection(Directs(d), R)
    BY <2>2, <2>5 DEF Surjection
  <2> QED BY <2>6, <2>7 DEF Bijection
<1>3. Cardinality(R) = Cardinality(Directs(d)) /\ IsFiniteSet(R)
  <2>1. ExistsBijection(Directs(d), R)
    BY <1>2 DEF ExistsBijection
  <2> QED BY <1>1, <2>1, DirectsFinite, FS_Bijection
<1>4. Directs(c) = IF c[k] = Wake THEN R ELSE R \cup {k}
  BY <1>1 DEF Directs
<1>5. k \notin R
  BY <1>1
<1>6. Cardinality(R \cup {k}) = Cardinality(R) + 1
  BY <1>3, <1>5, FS_AddElement
<1>7. Cardinality(Directs(d)) \in Nat
  BY <1>1, DirectsFinite
<1>8. Cardinality(Directs(c)) = Cardinality(Directs(d)) + (IF c[k] = Wake THEN 0 ELSE 1)
  BY <1>3, <1>4, <1>6, <1>7
<1> QED BY <1>1, <1>8 DEF d

\* A channel of wakes holds no direct event.
LEMMA DirectsNone ==
  ASSUME NEW c, \A k \in 1..Len(c) : c[k] = Wake
  PROVE  Cardinality(Directs(c)) = 0
  BY FS_EmptySet DEF Directs

-----------------------------------------------------------------------------
(* Facts about the failure history.                                        *)

\* No failure is listed twice.
ListedOnce(list) == \A j, k \in 1..Len(list) : list[j] = list[k] => j = k

\* What is kept of a history is part of it.
PartOf(kept, list, i) ==
  /\ kept \in Seq(Failure) /\ Len(kept) <= i /\ ListedOnce(kept)
  /\ \A k \in 1..Len(kept) : \E j \in 1..i : kept[k] = list[j]

\* One failure of the history, kept or not.
KeepOne(kept, f, eventId) == IF f.eventId = eventId THEN kept ELSE Append(kept, f)

\* What clear_event_failures leaves is what single steps along the history leave.
LEMMA ClearedChain ==
  ASSUME NEW list \in Seq(Failure), NEW id
  PROVE  \E g \in [0..Len(list) -> Seq(Failure)] :
           /\ g[0] = <<>> /\ \A i \in 1..Len(list) : g[i] = KeepOne(g[i - 1], list[i], id)
           /\ clear_event_failures(list, id) = g[Len(list)]
<1> DEFINE V == Seq(Failure)
           base == <<>>
           step == [p \in V \X Failure |-> KeepOne(p[1], p[2], id)]
           D == 1..Len(list)
           iter == CHOOSE iter : iter = [u \in SUBSET D |->
                     IF u = {} THEN base
                     ELSE KeepOne(iter[u \ {Max(u)}], list[Max(u)], id)]
<1>1. ASSUME NEW kept \in V, NEW f \in Failure PROVE KeepOne(kept, f, id) \in V
  <2> HIDE DEF Failure
  <2> QED BY AppendProperties DEF KeepOne
<1>2. base \in V /\ Len(list) \in Nat
  OBVIOUS
<1> HIDE DEF Failure
<1>3. step \in [V \X Failure -> V]
      /\ \A kept \in V, f \in Failure : step[<<kept, f>>] = KeepOne(kept, f, id)
  <2> HIDE DEF V
  <2> QED BY <1>1
<1>4. ASSUME NEW u \in SUBSET D, u # {} PROVE Max(u) \in D /\ list[Max(u)] \in Failure
  <2>1. Max(u) \in u
    BY <1>2, <1>4, MaxFacts
  <2>2. \A i \in D : list[i] \in Failure
    OBVIOUS
  <2> QED BY <2>1, <2>2
<1>5. clear_event_failures(list, id) = iter[D]
  <2>1. DOMAIN list = D
    OBVIOUS
  <2> QED BY <2>1 DEF clear_event_failures, FoldLeft, MapThenFoldSet, KeepOne
<1> HIDE DEF V, base, step
<1>6. PICK h : IsFoldLeft(h, V, base, Failure, step, list)
  BY <1>2, <1>3, FoldLeftExists DEF V
<1>7. h \in [SUBSET D -> V]
  BY <1>6 DEF IsFoldLeft
<1>8. h = [u \in SUBSET D |-> IF u = {} THEN base
                              ELSE KeepOne(h[u \ {Max(u)}], list[Max(u)], id)]
  <2>1. ASSUME NEW u \in SUBSET D
        PROVE  h[u] = IF u = {} THEN base ELSE KeepOne(h[u \ {Max(u)}], list[Max(u)], id)
    <3>1. h[u] = IF u = {} THEN base ELSE step[<<h[u \ {Max(u)}], list[Max(u)]>>]
      BY <1>6 DEF IsFoldLeft
    <3>2. h[u \ {Max(u)}] \in V
      BY <1>7
    <3> QED BY <1>3, <1>4, <3>1, <3>2
  <2> QED BY <1>7, <2>1
<1>9. iter = [u \in SUBSET D |-> IF u = {} THEN base
                                 ELSE KeepOne(iter[u \ {Max(u)}], list[Max(u)], id)]
  BY <1>8
<1> HIDE DEF iter
<1>10. iter[D] = h[D]
  <2>1. ASSUME NEW u \in SUBSET D
        PROVE  /\ u = {} => iter[u] = base
               /\ u # {} /\ iter[u \ {Max(u)}] \in V =>
                    iter[u] = step[<<iter[u \ {Max(u)}], list[Max(u)]>>]
    <3>1. iter[u] = IF u = {} THEN base ELSE KeepOne(iter[u \ {Max(u)}], list[Max(u)], id)
      BY <1>9
    <3> QED BY <1>3, <1>4, <3>1
  <2>2. Follows(iter, V, base, step, list)
    BY <2>1 DEF Follows
  <2> QED BY <1>6, <2>2, FoldLeftUnique
<1>11. PICK g \in [0..Len(list) -> V] :
         /\ g[0] = base /\ \A i \in 1..Len(list) : g[i] = step[<<g[i - 1], list[i]>>]
         /\ g[Len(list)] = h[1..Len(list)]
  BY <1>6, FoldLeftChain
<1>12. g[Len(list)] = clear_event_failures(list, id)
  BY <1>5, <1>10, <1>11 DEF D
<1>13. ASSUME NEW i \in 1..Len(list) PROVE g[i] = KeepOne(g[i - 1], list[i], id)
  <2>1. i - 1 \in 0..Len(list) /\ list[i] \in Failure
    BY <1>2
  <2> QED BY <1>3, <1>11, <2>1
<1> QED BY <1>11, <1>12, <1>13 DEF V, base

\* clear_event_failures keeps part of the history.
LEMMA ClearedFacts ==
  ASSUME NEW list \in Seq(Failure), ListedOnce(list), NEW id
  PROVE  PartOf(clear_event_failures(list, id), list, Len(list))
<1> DEFINE m == Len(list)
<1>1. PICK g \in [0..m -> Seq(Failure)] :
        /\ g[0] = <<>> /\ \A i \in 1..m : g[i] = KeepOne(g[i - 1], list[i], id)
        /\ clear_event_failures(list, id) = g[m]
  BY ClearedChain
<1>2. m \in Nat /\ \A i \in 1..m : list[i] \in Failure
  OBVIOUS
<1> HIDE DEF Failure
<1> DEFINE P == {i \in 0..m : PartOf(g[i], list, i)}
<1>3. 0 \in P
  <2>1. g[0] \in Seq(Failure) /\ Len(g[0]) = 0
    BY <1>1, <1>2
  <2> QED BY <1>2, <2>1 DEF PartOf, ListedOnce
<1>4. ASSUME NEW k \in 1..m, k - 1 \in P PROVE k \in P
  <2> DEFINE r == g[k - 1]
             f == list[k]
             n == Len(r)
  <2>1. /\ k \in 0..m /\ f \in Failure /\ g[k] = KeepOne(r, f, id) /\ k \in 1..k
        /\ \A j \in 1..(k - 1) : j \in 1..k /\ j # k /\ j \in 1..m
    BY <1>1, <1>2
  <2>2. PartOf(r, list, k - 1)
    BY <1>4
  <2>3. r \in Seq(Failure) /\ n \in Nat /\ n <= k - 1 /\ n <= k /\ n + 1 <= k
    BY <2>2 DEF PartOf
  <2> HIDE DEF r, f, P
  <2>4. CASE g[k] = r
    <3>1. PartOf(g[k], list, k)
      BY <2>1, <2>2, <2>3, <2>4 DEF PartOf
    <3> QED BY <2>1, <3>1 DEF P
  <2>5. CASE g[k] = Append(r, f)
    <3>1. /\ g[k] \in Seq(Failure) /\ Len(g[k]) = n + 1 /\ g[k][n + 1] = f
          /\ \A i \in 1..n : g[k][i] = r[i]
      BY <2>1, <2>3, <2>5, AppendProperties
    <3>2. \A i \in 1..n : \E j \in 1..(k - 1) : r[i] = list[j]
      BY <2>2 DEF PartOf
    <3>3. \A i \in 1..n : r[i] # f
      BY <1>2, <2>1, <3>2 DEF ListedOnce, f
    <3>4. \A i \in 1..(n + 1) : i = n + 1 \/ i \in 1..n
      BY <2>3
    <3>5. \A i, j \in 1..n : r[i] = r[j] => i = j
      BY <2>2 DEF PartOf, ListedOnce
    <3> HIDE DEF n
    <3>6. \A i, j \in 1..(n + 1) : g[k][i] = g[k][j] => i = j
      BY <3>1, <3>3, <3>4, <3>5
    <3>7. \A i \in 1..(n + 1) : \E j \in 1..k : g[k][i] = list[j]
      BY <2>1, <3>1, <3>2, <3>4 DEF f
    <3>8. PartOf(g[k], list, k)
      BY <2>3, <3>1, <3>6, <3>7 DEF PartOf, ListedOnce
    <3> QED BY <2>1, <3>8 DEF P
  <2> QED BY <2>1, <2>4, <2>5 DEF KeepOne
<1> HIDE DEF P
<1>5. \A i \in 0..m : i \in P
  BY <1>2, <1>3, <1>4, IntervalInduction
<1>6. m \in P
  BY <1>2, <1>5
<1> QED BY <1>1, <1>6 DEF P

\* A failure more, or the same history; the oldest one makes room.
LEMMA RecordedFacts ==
  ASSUME NEW list \in Seq(Failure), ListedOnce(list), Len(list) <= FailureLimit,
         NEW id \in Nat, NEW error \in Errors
  PROVE  /\ record_failure(list, id, error) \in Seq(Failure)
         /\ ListedOnce(record_failure(list, id, error))
         /\ Len(record_failure(list, id, error)) <= FailureLimit
<1> DEFINE f == [eventId |-> id, error |-> error]
           rest == IF Len(list) >= FailureLimit THEN Tail(list) ELSE list
           n == Len(rest)
<1>0. FailureLimit \in Nat \ {0} /\ Len(list) \in Nat /\ f \in Failure
  BY QueueAssumption DEF Failure
<1>1. CASE Has(list, f)
  BY <1>1 DEF record_failure
<1>2. CASE ~Has(list, f)
  <2> HIDE DEF f, Failure
  <2>1. /\ rest \in Seq(Failure) /\ n \in Nat /\ n + 1 <= FailureLimit
        /\ ListedOnce(rest) /\ ~Has(rest, f)
    <3>1. CASE Len(list) >= FailureLimit
      <4>1. list # <<>> /\ rest = Tail(list)
        BY <1>0, <3>1
      <4>2. /\ rest \in Seq(Failure) /\ Len(rest) = Len(list) - 1
            /\ \A i \in 1..Len(rest) : rest[i] = list[i + 1]
        BY <4>1, HeadTailProperties
      <4> HIDE DEF rest
      <4>3. /\ \A i \in 1..Len(rest) : i + 1 \in 1..Len(list)
            /\ \A i, j \in 1..Len(rest) : i + 1 = j + 1 => i = j
        BY <1>0, <4>2
      <4>4. ListedOnce(rest)
        BY <4>2, <4>3 DEF ListedOnce
      <4>5. ~Has(rest, f)
        BY <1>2, <4>2, <4>3 DEF Has
      <4> QED BY <1>0, <3>1, <4>2, <4>4, <4>5
    <3>2. CASE ~(Len(list) >= FailureLimit)
      BY <1>0, <1>2, <3>2
    <3> QED BY <3>1, <3>2
  <2> DEFINE new == Append(rest, f)
  <2>2. record_failure(list, id, error) = new
    BY <1>2 DEF record_failure, f
  <2> HIDE DEF rest
  <2>3. /\ new \in Seq(Failure) /\ Len(new) = n + 1 /\ new[n + 1] = f
        /\ \A i \in 1..n : new[i] = rest[i]
    BY <1>0, <2>1, AppendProperties
  <2>4. \A i \in 1..(n + 1) : i = n + 1 \/ i \in 1..n
    BY <2>1
  <2>5. /\ \A i, j \in 1..n : rest[i] = rest[j] => i = j
        /\ \A i \in 1..n : rest[i] # f
    BY <2>1 DEF ListedOnce, Has
  <2> HIDE DEF new, n
  <2>6. ListedOnce(new)
    BY <2>3, <2>4, <2>5 DEF ListedOnce
  <2> QED BY <2>1, <2>2, <2>3, <2>6
<1> QED BY <1>1, <1>2

-----------------------------------------------------------------------------
(* The invariant holds initially and every step keeps it.                  *)

USE DEF tableVars, hubVars, loopVars, callers, history

\* The empty table and the empty channel satisfy the invariant.
LEMMA InitIInv == Init => IInv
<1> SUFFICES ASSUME Init PROVE IInv
  OBVIOUS
<1>1. TypeOK
  BY OutboxAssumption DEF Init, TableInit, TypeOK, TableTypeOK, Row, States, NoRow, PCs
<1>2. HeldRowIsLeased /\ RowsOK /\ DeliveredWasHandled /\ AckIsEarned /\ AckedIsSettled
  BY DEF Init, TableInit, HeldRowIsLeased, RowsOK, DeliveredWasHandled, AckIsEarned,
         AckedIsSettled, NoRow, Ids
<1>7. FailureHistoryBounded
  BY QueueAssumption DEF Init, FailureHistoryBounded
<1>8. ExtraClaimsAreFaults /\ ClaimIsLeft
  BY OutboxAssumption DEF Init, TableInit, ExtraClaimsAreFaults, ClaimIsLeft, NoRow
<1>6. NoneRuns /\ OvertakenInBurst
  BY QueueAssumption DEF Init, NoneRuns, OvertakenInBurst
<1>3. OutstandingBounded
  <2>1. Outstanding = {}
    BY DEF Init, TableInit, Outstanding, NoRow
  <2> QED BY <2>1, FS_EmptySet, OutboxAssumption DEF OutstandingBounded
<1>4. CompletedOnce
  BY FS_EmptySet DEF Init, TableInit, CompletedOnce
<1>5. PendingIsExact
  <2>1. Directs(chan) = {} /\ enqueuing = {}
    BY DEF Init, Directs
  <2> QED BY <2>1, FS_EmptySet DEF Init, PendingIsExact
<1> QED BY <1>1, <1>2, <1>3, <1>4, <1>5, <1>6, <1>7, <1>8 DEF IInv

\* To admit an event touches no row, and nothing of run_queue.
LEMMA AdmissionQuiet ==
  ASSUME Admission
  PROVE  UNCHANGED <<tableVars, proc, loopVars, completed, history, faults, overtaken>>
BY DEF Admission, enqueue, try_send, Reject

\* Finitely many events are being admitted.
LEMMA AdmittedFinite ==
  ASSUME TypeOK
  PROVE  IsFiniteSet(enqueuing) /\ Cardinality(enqueuing) \in Nat
<1>1. IsFiniteSet(1..sequence) /\ enqueuing \subseteq 1..sequence
  BY FS_Interval DEF TypeOK
<1> QED BY <1>1, FS_Subset, FS_CardinalityType

\* An event that is being admitted is counted in hub.pending.
LEMMA AdmittedIsCounted ==
  ASSUME TypeOK, PendingIsExact, NEW i \in enqueuing
  PROVE  /\ hubPending - 1 \in Nat
         /\ Cardinality(enqueuing \ {i}) = Cardinality(enqueuing) - 1
<1>1. Cardinality(Directs(chan)) \in Nat
  BY DirectsFinite DEF TypeOK
<1>2. /\ IsFiniteSet(enqueuing) /\ Cardinality(enqueuing) \in Nat
      /\ Cardinality(enqueuing \ {i}) = Cardinality(enqueuing) - 1
      /\ Cardinality(enqueuing \ {i}) \in Nat
  <2>1. IsFiniteSet(enqueuing)
    BY AdmittedFinite
  <2>2. IsFiniteSet(enqueuing \ {i})
    BY <2>1, FS_RemoveElement
  <2> QED BY <2>1, <2>2, FS_RemoveElement, FS_CardinalityType
<1> QED BY <1>1, <1>2 DEF PendingIsExact, TypeOK

\* A direct event being dispatched is counted in hub.pending.
LEMMA DirectIsCounted ==
  ASSUME TypeOK, PendingIsExact, pc = "direct"
  PROVE  hubPending - 1 \in Nat
<1>1. Cardinality(Directs(chan)) \in Nat /\ Cardinality(enqueuing) \in Nat
  BY DirectsFinite, AdmittedFinite DEF TypeOK
<1> QED BY <1>1 DEF PendingIsExact, TypeOK

\* What is received leaves a channel of messages.
LEMMA ReceiveType ==
  ASSUME TypeOK, NEW k \in 1..Len(chan), Receive(k)
  PROVE  /\ chan' \in Seq(Nat) /\ cur' \in Nat /\ busy' \in Nat /\ burst' \in Nat
         /\ overtaken' \in Nat /\ pc' \in PCs
<1>1. /\ chan \in Seq(Nat) /\ Len(chan) \in Nat /\ chan[k] \in Nat
      /\ cur \in Nat /\ busy \in Nat /\ overtaken \in Nat
  BY DEF TypeOK
<1>2. SubSeq(chan, k + 1, Len(chan)) \in Seq(Nat)
  <2>1. k + 1 \in Int /\ Len(chan) \in Int /\ \A i \in (k + 1)..Len(chan) : chan[i] \in Nat
    BY <1>1
  <2> QED BY <2>1, SubSeqProperties
<1>3. chan' \in Seq(Nat)
  BY <1>2 DEF Receive
<1>4. /\ cur' \in Nat /\ busy' \in Nat /\ burst' \in Nat
      /\ overtaken' \in Nat /\ pc' \in {"poll", "direct"}
  <2>1. CASE chan[k] = Wake
    BY <1>1, <2>1 DEF Receive
  <2>2. CASE chan[k] # Wake
    BY <1>1, <2>2 DEF Receive
  <2> QED BY <2>1, <2>2
<1>5. {"poll", "direct"} \subseteq PCs
  BY DEF PCs
<1> QED BY <1>3, <1>4, <1>5

\* Every step keeps the types; an id in hand is a row's when the row matters.
LEMMA TypeStep ==
  ASSUME IInv, Next
  PROVE  TypeOK'
<1> USE DEF IInv
<1>1. CASE Start
  BY <1>1 DEF Start, TypeOK, TableTypeOK, PCs
<1>2. CASE StartWithoutFunctions
  BY <1>2 DEF StartWithoutFunctions, Fault, TypeOK, TableTypeOK, PCs
<1>3. CASE StopWithoutFunctions
  BY <1>3 DEF StopWithoutFunctions, TypeOK, TableTypeOK, PCs
<1>4. CASE Crash
  BY <1>4 DEF Crash, Fault, TypeOK, TableTypeOK, PCs
<1>5. CASE Clock
  BY <1>5, TickFacts DEF Clock, Tick, TypeOK, TableTypeOK
<1>6. ASSUME NEW n \in 1..MaxBatch, CommitMutation(n) PROVE TypeOK'
  <2>1. TableTypeOK'
    BY <1>6, QueueAssumption, InsertFacts DEF CommitMutation, TypeOK
  <2>2. chan' \in Seq(Nat)
    <3>1. chan \in Seq(Nat) /\ Append(chan, Wake) \in Seq(Nat)
      BY DEF TypeOK, Wake
    <3> QED BY <1>6, <3>1 DEF CommitMutation, outbox_committed
  <2> QED BY <1>6, <2>1, <2>2 DEF CommitMutation, TypeOK
<1>7. CASE Admission
  <2>1. CASE enqueue
    <3>1. /\ sequence' = sequence + 1 /\ hubPending' = hubPending + 1
          /\ enqueuing' \subseteq 1..(sequence + 1) /\ refused' \subseteq enqueuing'
      BY <2>1 DEF enqueue, TypeOK
    <3>2. hubPending' \in Nat /\ sequence' \in Nat
      BY <3>1 DEF TypeOK
    <3> QED BY <2>1, <3>1, <3>2 DEF enqueue, TypeOK, TableTypeOK
  <2>2. ASSUME NEW i \in enqueuing, try_send(i) PROVE TypeOK'
    <3>1. chan' \in Seq(Nat)
      <4>1. chan \in Seq(Nat) /\ Append(chan, i) \in Seq(Nat)
        BY DEF TypeOK
      <4> QED BY <2>2, <4>1 DEF try_send
    <3>2. enqueuing' \subseteq 1..sequence /\ refused' \subseteq enqueuing'
      BY <2>2 DEF try_send, TypeOK
    <3> QED BY <2>2, <3>1, <3>2 DEF try_send, TypeOK, TableTypeOK
  <2>3. ASSUME NEW i \in enqueuing, Reject(i) PROVE TypeOK'
    <3>1. hubPending' \in Nat
      BY <2>3, AdmittedIsCounted DEF Reject
    <3>2. enqueuing' \subseteq 1..sequence /\ refused' \subseteq enqueuing'
      BY <2>3 DEF Reject, TypeOK
    <3> QED BY <2>3, <3>1, <3>2 DEF Reject, TypeOK, TableTypeOK
  <2> QED BY <1>7, <2>1, <2>2, <2>3 DEF Admission
<1>8. CASE Recover
  BY <1>8, RecoverFacts DEF Recover, Fault, TypeOK, TableTypeOK, PCs
<1>9. CASE Claim
  <2>1. PICK id \in Ids : claim_outbox(id) /\ cur' = id /\ claimed' = ReturnedAttempts(id)
    BY <1>9 DEF Claim
  <2>2. TableTypeOK' /\ cur' \in Nat /\ claimed' \in Nat
    <3>1. TableTypeOK
      BY DEF TypeOK
    <3>2. TableTypeOK'
      BY <2>1, <3>1, ClaimFacts
    <3>3. rows[id].attempts \in Nat /\ id \in Nat
      BY <3>1 DEF TableTypeOK, Row, Ids
    <3> QED BY <2>1, <3>2, <3>3 DEF ReturnedAttempts
  <2> QED BY <1>9, <2>2 DEF Claim, TypeOK, PCs
<1>10. CASE ClaimNothing
  BY <1>10 DEF ClaimNothing, Fault, TypeOK, TableTypeOK, PCs
<1>11. CASE Dispatch
  <2>1. cur \in Ids
    BY <1>11 DEF Dispatch, HeldRowIsLeased
  <2> QED BY <1>11, <2>1 DEF Dispatch, TypeOK, TableTypeOK, PCs
<1>12. CASE Acknowledge
  <2>1. cur \in Ids
    BY <1>12 DEF Acknowledge, HeldRowIsLeased
  <2> QED BY <1>12, <2>1, AckFacts DEF Acknowledge, Settled, TypeOK, PCs
<1>13. CASE AcknowledgeError
  BY <1>13 DEF AcknowledgeError, TransitionError, Fault, TypeOK, TableTypeOK, PCs
<1>14. CASE Fail
  <2>1. cur \in Ids
    BY <1>14 DEF Fail, HeldRowIsLeased
  <2> QED BY <1>14, <2>1, FailFacts DEF Fail, Settled, TypeOK, PCs
<1>15. CASE FailError
  <2>1. cur \in Ids
    BY <1>15 DEF FailError, HeldRowIsLeased
  <2>2. TableTypeOK'
    BY <1>15, <2>1, UntrimmedFacts DEF FailError, TypeOK, TableTypeOK
  <2> QED BY <1>15, <2>2 DEF FailError, TransitionError, Fault, TypeOK, PCs
<1>16. CASE Throttle
  <2>1. ASSUME NEW k \in 1..Len(chan), Receive(k) PROVE TypeOK'
    BY <1>16, <2>1, ReceiveType DEF Throttle, TypeOK, TableTypeOK
  <2>2. CASE chan' = <<>> /\ burst' = 0 /\ UNCHANGED <<pc, cur, busy, overtaken>>
    BY <1>16, <2>2 DEF Throttle, TypeOK, TableTypeOK
  <2> QED BY <1>16, <2>1, <2>2 DEF Throttle
<1>17. CASE Wait
  <2>1. CASE chan # <<>> /\ Receive(1)
    <3>1. 1 \in 1..Len(chan)
      BY <2>1 DEF TypeOK
    <3> QED BY <1>17, <2>1, <3>1, ReceiveType DEF Wait, TypeOK, TableTypeOK
  <2>2. CASE ~(chan # <<>> /\ Receive(1))
    BY <1>17, <2>2 DEF Wait, TypeOK, TableTypeOK, PCs
  <2> QED BY <2>1, <2>2
<1>18. CASE DispatchDirect
  BY <1>18, DirectIsCounted DEF DispatchDirect, TypeOK, TableTypeOK, PCs
<1> QED BY <1>1, <1>2, <1>3, <1>4, <1>5, <1>6, <1>7, <1>8, <1>9, <1>10, <1>11, <1>12,
           <1>13, <1>14, <1>15, <1>16, <1>17, <1>18 DEF Next, Dispatcher

\* The steps that leave the table alone.
LEMMA QuietSteps ==
  ASSUME \/ Start \/ StartWithoutFunctions \/ StopWithoutFunctions \/ Crash \/ Admission
         \/ ClaimNothing \/ Dispatch \/ AcknowledgeError \/ Throttle \/ Wait \/ DispatchDirect
  PROVE  UNCHANGED <<rows, nextId, eventCompleted, acked>>
  BY AdmissionQuiet DEF Start, StartWithoutFunctions, StopWithoutFunctions, Crash, ClaimNothing,
         Dispatch, AcknowledgeError, TransitionError, Throttle, Wait, DispatchDirect

\* Ids are used in order and only a claim leases a row.
LEMMA RowsStep ==
  ASSUME IInv, Next
  PROVE  RowsOK'
<1>t. TypeOK /\ TableTypeOK /\ RowsOK /\ HeldRowIsLeased
  BY DEF IInv, TypeOK
<1>1. CASE UNCHANGED <<rows, nextId>>
  BY <1>1, <1>t DEF RowsOK
<1>2. CASE Clock
  BY <1>2, <1>t, TickFacts DEF Clock, Tick, RowsOK, NoRow
<1>3. ASSUME NEW n \in 1..MaxBatch, CommitMutation(n) PROVE RowsOK'
  <2>1. insert_outbox(n) /\ n \in Nat
    BY <1>3, QueueAssumption DEF CommitMutation
  <2>2. /\ nextId' = nextId + n /\ nextId \in Nat
        /\ \A i \in Ids : rows'[i] = IF i >= nextId /\ i < nextId' THEN NewRow ELSE rows[i]
    BY <1>t, <2>1, InsertFacts DEF TableTypeOK
  <2> QED BY <1>t, <2>1, <2>2 DEF RowsOK, NewRow, NoRow, Ids
<1>4. CASE Recover
  <2>1. CASE recover_outbox
    BY <1>t, <2>1, RecoverFacts DEF recover_outbox, RowsOK, NoRow
  <2> QED BY <1>1, <1>4, <2>1 DEF Recover
<1>5. CASE Claim
  <2>1. PICK id \in Ids : claim_outbox(id)
    BY <1>5 DEF Claim
  <2>2. nextId' = nextId /\ rows[id].attempts \in Nat
    BY <1>t, <2>1 DEF claim_outbox, TableTypeOK, Row
  <2> QED BY <1>t, <2>1, <2>2, ClaimFacts DEF RowsOK, NoRow
<1>6. CASE Acknowledge
  <2>1. acknowledge_outbox(cur) /\ cur \in Ids /\ nextId' = nextId
    BY <1>6, <1>t DEF Acknowledge, acknowledge_outbox, HeldRowIsLeased
  <2> QED BY <1>t, <2>1, AckFacts DEF RowsOK, NoRow
<1>7. CASE Fail
  <2>1. /\ fail_outbox(cur, claimed) /\ cur \in Ids /\ nextId' = nextId /\ claimed \in Nat
        /\ rows[cur].state \in {"in_flight", "failed"}
    BY <1>7, <1>t DEF Fail, fail_outbox, HeldRowIsLeased, TypeOK
  <2> QED BY <1>t, <2>1, FailFacts DEF RowsOK, NoRow
<1>8. CASE FailError
  <2>1. /\ cur \in Ids /\ claimed \in Nat
        /\ rows[cur].state \in {"in_flight", "failed"}
    BY <1>8, <1>t DEF FailError, HeldRowIsLeased, TypeOK
  <2>2. CASE fail_outbox_untrimmed(cur, claimed)
    <3>1. nextId' = nextId
      BY <2>2 DEF fail_outbox_untrimmed
    <3> QED BY <1>t, <2>1, <2>2, <3>1, UntrimmedFacts DEF RowsOK, NoRow
  <2> QED BY <1>1, <1>8, <2>2 DEF FailError
<1> QED BY <1>1, <1>2, <1>3, <1>4, <1>5, <1>6, <1>7, <1>8, QuietSteps DEF Next, Dispatcher

\* No step takes the held row away from run_queue.
LEMMA HeldStep ==
  ASSUME IInv, Next
  PROVE  HeldRowIsLeased'
<1>t. TypeOK /\ TableTypeOK /\ RowsOK /\ HeldRowIsLeased
  BY DEF IInv, TypeOK
<1>1. CASE pc' \notin {"dispatch", "ack", "fail"}
  BY <1>1 DEF HeldRowIsLeased
<1>2. CASE Start \/ Crash \/ Recover \/ ClaimNothing \/ Acknowledge \/ Fail \/ DispatchDirect
  BY <1>1, <1>2 DEF Start, Crash, Recover, ClaimNothing, Acknowledge, Fail, Settled, DispatchDirect
<1>3. CASE UNCHANGED <<rows, pc, cur, claimed>>
  BY <1>3, <1>t DEF HeldRowIsLeased
<1>4. CASE StartWithoutFunctions \/ StopWithoutFunctions \/ Admission
  BY <1>3, <1>4, AdmissionQuiet DEF StartWithoutFunctions, StopWithoutFunctions
<1>5. CASE Clock
  BY <1>5, <1>t, TickFacts DEF Clock, HeldRowIsLeased
<1>6. ASSUME NEW n \in 1..MaxBatch, CommitMutation(n) PROVE HeldRowIsLeased'
  <2>1. insert_outbox(n) /\ n \in Nat /\ UNCHANGED <<pc, cur, claimed>>
    BY <1>6, QueueAssumption DEF CommitMutation
  <2>2. \A i \in Ids : rows[i].state # "none" => rows'[i] = rows[i]
    BY <1>t, <2>1, InsertFacts DEF RowsOK, NoRow
  <2> QED BY <1>t, <2>1, <2>2 DEF HeldRowIsLeased
<1>7. CASE Claim
  <2>1. PICK id \in Ids : claim_outbox(id) /\ cur' = id /\ claimed' = ReturnedAttempts(id)
    BY <1>7 DEF Claim
  <2>2. pc' = "dispatch"
    BY <1>7 DEF Claim
  <2> QED BY <1>t, <2>1, <2>2, ClaimFacts DEF HeldRowIsLeased, ReturnedAttempts
<1>8. CASE Dispatch
  BY <1>8, <1>t DEF Dispatch, HeldRowIsLeased
<1>9. CASE AcknowledgeError
  BY <1>1, <1>3, <1>9 DEF AcknowledgeError, TransitionError
<1>10. CASE FailError
  <2>1. CASE fail_outbox_untrimmed(cur, claimed) /\ UNCHANGED <<pc, cur, claimed>>
    <3>1. cur \in Ids /\ claimed \in Nat /\ pc = "fail"
      BY <1>10, <1>t DEF FailError, HeldRowIsLeased, TypeOK
    <3> QED BY <1>t, <2>1, <3>1, UntrimmedFacts DEF HeldRowIsLeased
  <2> QED BY <1>1, <1>3, <1>10, <2>1 DEF FailError, TransitionError
<1>11. CASE Throttle \/ Wait
  BY <1>1, <1>11 DEF Throttle, Wait, Receive
<1> QED BY <1>2, <1>4, <1>5, <1>6, <1>7, <1>8, <1>9, <1>10, <1>11 DEF Next, Dispatcher

\* A row comes back to be claimed with a claim left, or by a fault.
LEMMA ClaimsStep ==
  ASSUME IInv, Next
  PROVE  ExtraClaimsAreFaults' /\ ClaimIsLeft'
<1> DEFINE Open(i) == rows[i].state \in {"pending", "in_flight"} /\ ~Held(i)
<1>t. /\ TypeOK /\ TableTypeOK /\ RowsOK /\ HeldRowIsLeased /\ ClaimIsLeft /\ ExtraClaimsAreFaults
      /\ faults \in Nat /\ MaxAttempts \in Nat \ {0} /\ \A i \in Ids : rows[i].attempts \in Nat
  BY OutboxAssumption DEF IInv, TypeOK, TableTypeOK, Row
<1>k. ASSUME faults' \in {faults, faults + 1}, 
             \A i \in Ids : rows'[i].attempts = rows[i].attempts,
             \A i \in Ids : Open(i)' =>
               Open(i) \/ faults' = faults + 1 \/ rows[i].attempts < MaxAttempts
      PROVE  ExtraClaimsAreFaults' /\ ClaimIsLeft'
  <2>1. \A i \in Ids : rows[i].attempts <= MaxAttempts + faults
    BY <1>t DEF ExtraClaimsAreFaults
  <2>2. \A i \in Ids : Open(i) => rows[i].attempts < MaxAttempts + faults
    BY <1>t DEF ClaimIsLeft
  <2>3. \A i \in Ids : rows'[i].attempts <= MaxAttempts + faults'
    BY <1>k, <1>t, <2>1
  <2>4. \A i \in Ids : Open(i)' => rows'[i].attempts < MaxAttempts + faults'
    BY <1>k, <1>t, <2>1, <2>2
  <2> QED BY <2>3, <2>4 DEF ExtraClaimsAreFaults, ClaimIsLeft
<1>1. CASE UNCHANGED <<rows, pc, cur>> /\ faults' \in {faults, faults + 1}
  BY <1>1, <1>k DEF Held
<1>2. CASE Start \/ StartWithoutFunctions \/ StopWithoutFunctions \/ ClaimNothing \/ Admission
           \/ Throttle \/ Wait \/ DispatchDirect
  <2>1. /\ UNCHANGED rows /\ faults' \in {faults, faults + 1}
        /\ pc \notin {"dispatch", "ack", "fail"} \/ UNCHANGED <<pc, cur>>
    BY <1>2, <1>t, AdmissionQuiet DEF Start, StartWithoutFunctions, StopWithoutFunctions, ClaimNothing,
                      Throttle, Wait, DispatchDirect, Fault, IInv, NoneRuns
  <2> QED BY <1>k, <2>1 DEF Held
<1>3. CASE Crash
  <2>1. UNCHANGED rows /\ faults' = faults + 1
    BY <1>3 DEF Crash, Fault
  <2> QED BY <1>k, <2>1
<1>4. CASE Clock
  <2>1. UNCHANGED <<pc, cur, faults>>
    BY <1>4 DEF Clock
  <2>2. \A i \in Ids : rows'[i].state = rows[i].state /\ rows'[i].attempts = rows[i].attempts
    BY <1>4, <1>t, TickFacts DEF Clock
  <2> QED BY <1>k, <2>1, <2>2 DEF Held
<1>5. ASSUME NEW n \in 1..MaxBatch, CommitMutation(n)
      PROVE  ExtraClaimsAreFaults' /\ ClaimIsLeft'
  <2>1. insert_outbox(n) /\ n \in Nat /\ UNCHANGED <<pc, cur, faults>>
    BY <1>5, QueueAssumption DEF CommitMutation
  <2>2. \A i \in Ids : rows'[i] = rows[i] \/ (rows[i] = NoRow /\ rows'[i] = NewRow)
    BY <1>t, <2>1, InsertFacts DEF RowsOK
  <2> QED BY <1>k, <1>t, <2>1, <2>2 DEF Held, NewRow, NoRow
<1>6. CASE Recover
  <2>1. UNCHANGED rows \/ (recover_outbox /\ UNCHANGED faults)
    BY <1>6 DEF Recover
  <2>2. pc = "recover" /\ pc' = "poll" /\ faults' \in {faults, faults + 1}
    BY <1>6 DEF Recover, Fault
  <2>3. CASE UNCHANGED rows
    BY <1>k, <2>2, <2>3 DEF Held
  <2>4. CASE recover_outbox /\ UNCHANGED faults
    <3>1. \A i \in Ids : /\ rows'[i].attempts = rows[i].attempts
                         /\ rows[i].state = "in_flight" \/ rows'[i] = rows[i]
      BY <1>t, <2>4, RecoverFacts
    <3> QED BY <1>k, <2>2, <2>4, <3>1 DEF Held
  <2> QED BY <2>1, <2>3, <2>4
<1>7. CASE Claim
  <2>1. PICK id \in Ids : claim_outbox(id) /\ cur' = id
    BY <1>7 DEF Claim
  <2>2. pc = "poll" /\ pc' = "dispatch" /\ UNCHANGED faults
    BY <1>7 DEF Claim
  <2>3. /\ rows[id].state \in {"pending", "in_flight"} /\ rows'[id].attempts = rows[id].attempts + 1
        /\ \A i \in Ids \ {id} : rows'[i] = rows[i]
    BY <1>t, <2>1, ClaimFacts
  <2>4. rows[id].attempts + 1 <= MaxAttempts + faults
    BY <1>t, <2>2, <2>3 DEF ClaimIsLeft, Held
  <2>5. ExtraClaimsAreFaults'
    BY <1>t, <2>2, <2>3, <2>4 DEF ExtraClaimsAreFaults
  <2>6. ClaimIsLeft'
    BY <1>t, <2>1, <2>2, <2>3 DEF ClaimIsLeft, Held
  <2> QED BY <2>5, <2>6
<1>8. CASE Dispatch
  BY <1>8, <1>k DEF Dispatch, Held
<1>9. CASE Acknowledge
  <2>1. acknowledge_outbox(cur) /\ cur \in Ids /\ UNCHANGED faults
    BY <1>9, <1>t DEF Acknowledge, Settled, HeldRowIsLeased
  <2>2. /\ rows'[cur].state \in {"delivered", "gone"}
        /\ \A i \in Ids : rows'[i].attempts = rows[i].attempts
        /\ \A i \in Ids \ {cur} : rows'[i] = rows[i] \/ rows'[i].state = "gone"
    BY <1>t, <2>1, AckFacts
  <2> QED BY <1>k, <2>1, <2>2 DEF Held
<1>10. CASE AcknowledgeError
  <2>1. UNCHANGED rows /\ faults' = faults + 1
    BY <1>10, <1>t DEF AcknowledgeError, HeldRowIsLeased, Fault
  <2> QED BY <1>k, <2>1
<1>11. CASE Fail
  <2>1. /\ fail_outbox(cur, claimed) /\ cur \in Ids /\ claimed \in Nat
        /\ claimed = rows[cur].attempts /\ UNCHANGED faults
    BY <1>11, <1>t DEF Fail, Settled, HeldRowIsLeased, TypeOK
  <2>2. /\ IF claimed >= MaxAttempts THEN rows'[cur].state \in {"failed", "gone"}
                                     ELSE rows'[cur].state = "pending"
        /\ \A i \in Ids : rows'[i].attempts = rows[i].attempts
        /\ \A i \in Ids \ {cur} : rows'[i] = rows[i] \/ rows'[i].state = "gone"
    BY <1>t, <2>1, FailFacts
  <2> QED BY <1>k, <1>t, <2>1, <2>2 DEF Held
<1>12. CASE FailError
  <2>1. cur \in Ids /\ claimed \in Nat /\ faults' = faults + 1
    BY <1>12, <1>t DEF FailError, HeldRowIsLeased, TypeOK, Fault
  <2>2. \A i \in Ids : rows'[i].attempts = rows[i].attempts
    BY <1>12, <1>t, <2>1, UntrimmedFacts DEF FailError
  <2> QED BY <1>k, <2>1, <2>2
<1> QED BY <1>2, <1>3, <1>4, <1>5, <1>6, <1>7, <1>8, <1>9, <1>10, <1>11, <1>12
        DEF Next, Dispatcher

\* A row is delivered only by Acknowledge, which follows a complete Dispatch.
LEMMA HandledStep ==
  ASSUME IInv, Next
  PROVE  DeliveredWasHandled' /\ AckIsEarned'
<1>t. /\ TypeOK /\ TableTypeOK /\ RowsOK /\ HeldRowIsLeased
      /\ DeliveredWasHandled /\ AckIsEarned
  BY DEF IInv, TypeOK
<1>1. CASE Dispatch
  <2>1. cur \in Ids /\ rows[cur].state = "in_flight"
    BY <1>1, <1>t DEF Dispatch, HeldRowIsLeased
  <2> QED BY <1>1, <1>t, <2>1 DEF Dispatch, DeliveredWasHandled, AckIsEarned, TypeOK
<1>2. CASE Acknowledge
  <2>1. cur \in Ids /\ handled[cur] = Handlers /\ acknowledge_outbox(cur) /\ handled' = handled
    BY <1>2, <1>t DEF Acknowledge, HeldRowIsLeased, AckIsEarned
  <2>2. \A i \in Ids \ {cur} : rows'[i].state = "delivered" => rows[i].state = "delivered"
    BY <1>t, <2>1, AckFacts
  <2>3. pc' = "poll"
    BY <1>2 DEF Acknowledge, Settled
  <2> QED BY <1>t, <2>1, <2>2, <2>3 DEF DeliveredWasHandled, AckIsEarned
<1>3. ASSUME handled' = handled,
             pc' = "ack" => pc = "ack" /\ cur' = cur,
             \A i \in Ids : rows'[i].state = "delivered" => rows[i].state = "delivered"
      PROVE  DeliveredWasHandled' /\ AckIsEarned'
  BY <1>3, <1>t DEF DeliveredWasHandled, AckIsEarned
<1>4. CASE Start \/ StartWithoutFunctions \/ StopWithoutFunctions \/ Crash \/ Admission
  BY <1>3, <1>4, AdmissionQuiet DEF Start, StartWithoutFunctions, StopWithoutFunctions, Crash
<1>5. CASE ClaimNothing \/ AcknowledgeError \/ Throttle \/ Wait \/ DispatchDirect
  BY <1>3, <1>5 DEF ClaimNothing, AcknowledgeError, TransitionError, Throttle, Wait, Receive,
                    DispatchDirect
<1>6. CASE Clock
  BY <1>3, <1>6, <1>t, TickFacts DEF Clock
<1>7. ASSUME NEW n \in 1..MaxBatch, CommitMutation(n)
      PROVE  DeliveredWasHandled' /\ AckIsEarned'
  <2>1. insert_outbox(n) /\ n \in Nat
    BY <1>7, QueueAssumption DEF CommitMutation
  <2>2. \A i \in Ids : rows'[i].state = "delivered" => rows[i].state = "delivered"
    BY <1>t, <2>1, InsertFacts DEF NewRow
  <2> QED BY <1>3, <1>7, <2>2 DEF CommitMutation
<1>8. CASE Recover
  <2>1. \A i \in Ids : rows'[i].state = "delivered" => rows[i].state = "delivered"
    BY <1>8, <1>t, RecoverFacts DEF Recover
  <2> QED BY <1>3, <1>8, <2>1 DEF Recover
<1>9. CASE Claim
  <2>1. PICK id \in Ids : claim_outbox(id)
    BY <1>9 DEF Claim
  <2>2. \A i \in Ids : rows'[i].state = "delivered" => rows[i].state = "delivered"
    BY <1>t, <2>1, ClaimFacts
  <2> QED BY <1>3, <1>9, <2>2 DEF Claim
<1>10. CASE Fail
  <2>1. fail_outbox(cur, claimed) /\ cur \in Ids /\ claimed \in Nat
    BY <1>10, <1>t DEF Fail, HeldRowIsLeased, TypeOK
  <2>2. \A i \in Ids : rows'[i].state = "delivered" => rows[i].state = "delivered"
    BY <1>t, <2>1, FailFacts
  <2> QED BY <1>3, <1>10, <2>2 DEF Fail, Settled
<1>11. CASE FailError
  <2>1. cur \in Ids /\ claimed \in Nat
    BY <1>11, <1>t DEF FailError, HeldRowIsLeased, TypeOK
  <2>2. \A i \in Ids : rows'[i].state = "delivered" => rows[i].state = "delivered"
    BY <1>11, <1>t, <2>1, UntrimmedFacts DEF FailError
  <2> QED BY <1>3, <1>11, <2>2 DEF FailError, TransitionError
<1> QED BY <1>1, <1>2, <1>4, <1>5, <1>6, <1>7, <1>8, <1>9, <1>10, <1>11 DEF Next, Dispatcher

\* Acknowledge, and no other step, settles a row and counts it.
LEMMA AckedStep ==
  ASSUME IInv, Next
  PROVE  AckedIsSettled' /\ CompletedOnce'
<1>t. /\ TypeOK /\ TableTypeOK /\ RowsOK /\ HeldRowIsLeased
      /\ AckedIsSettled /\ CompletedOnce /\ acked \subseteq Ids
  BY DEF IInv, TypeOK
<1>1. CASE Acknowledge
  <2>1. /\ cur \in Ids /\ acknowledge_outbox(cur) /\ acked' = acked \cup {cur}
        /\ rows[cur].state = "in_flight"
    BY <1>1, <1>t DEF Acknowledge, HeldRowIsLeased
  <2>2. cur \notin acked
    BY <1>t, <2>1 DEF AckedIsSettled
  <2>3. AckedIsSettled'
    BY <1>t, <2>1, AckFacts DEF AckedIsSettled
  <2>4. IsFiniteSet(acked) /\ Cardinality(acked) \in Nat
    BY <1>t, IdsFinite
  <2>5. Cardinality(acked \cup {cur}) = Cardinality(acked) + 1
    BY <2>2, <2>4, FS_AddElement
  <2>6. eventCompleted' = eventCompleted + 1
    BY <2>1 DEF acknowledge_outbox
  <2> QED BY <1>t, <2>1, <2>3, <2>5, <2>6 DEF CompletedOnce
<1>2. ASSUME UNCHANGED <<acked, eventCompleted>>,
             \A i \in Ids : rows[i].state \in {"delivered", "gone"}
                              => rows'[i].state \in {"delivered", "gone"}
      PROVE  AckedIsSettled' /\ CompletedOnce'
  BY <1>2, <1>t DEF AckedIsSettled, CompletedOnce
<1>3. CASE UNCHANGED <<rows, eventCompleted, acked>>
  BY <1>2, <1>3
<1>4. CASE Clock
  BY <1>2, <1>4, <1>t, TickFacts DEF Clock, Tick
<1>5. ASSUME NEW n \in 1..MaxBatch, CommitMutation(n)
      PROVE  AckedIsSettled' /\ CompletedOnce'
  <2>1. insert_outbox(n) /\ n \in Nat /\ UNCHANGED <<acked, eventCompleted>>
    BY <1>5, QueueAssumption DEF CommitMutation, insert_outbox
  <2>2. \A i \in Ids : rows[i].state # "none" => rows'[i] = rows[i]
    BY <1>t, <2>1, InsertFacts DEF RowsOK, NoRow
  <2> QED BY <1>2, <2>1, <2>2
<1>6. CASE Recover
  <2>1. CASE recover_outbox
    BY <1>2, <1>6, <1>t, <2>1, RecoverFacts DEF Recover, recover_outbox
  <2> QED BY <1>3, <1>6, <2>1 DEF Recover
<1>7. CASE Claim
  <2>1. PICK id \in Ids : claim_outbox(id)
    BY <1>7 DEF Claim
  <2>2. UNCHANGED <<acked, eventCompleted>>
    BY <1>7, <2>1 DEF Claim, claim_outbox
  <2> QED BY <1>2, <1>t, <2>1, <2>2, ClaimFacts
<1>8. CASE Fail
  <2>1. /\ fail_outbox(cur, claimed) /\ cur \in Ids /\ claimed \in Nat
        /\ rows[cur].state \in {"in_flight", "failed"} /\ UNCHANGED <<acked, eventCompleted>>
    BY <1>8, <1>t DEF Fail, fail_outbox, HeldRowIsLeased, TypeOK
  <2> QED BY <1>2, <1>t, <2>1, FailFacts
<1>9. CASE FailError
  <2>1. /\ cur \in Ids /\ claimed \in Nat /\ rows[cur].state \in {"in_flight", "failed"}
        /\ UNCHANGED <<acked, eventCompleted>>
    BY <1>9, <1>t DEF FailError, TransitionError, fail_outbox_untrimmed, HeldRowIsLeased, TypeOK
  <2> QED BY <1>2, <1>3, <1>9, <1>t, <2>1, UntrimmedFacts DEF FailError
<1> QED BY <1>1, <1>3, <1>4, <1>5, <1>6, <1>7, <1>8, <1>9, QuietSteps DEF Next, Dispatcher

\* Only insert_outbox adds outstanding rows, and it checks the bound first.
LEMMA OutstandingStep ==
  ASSUME IInv, Next
  PROVE  OutstandingBounded'
<1>t. /\ TypeOK /\ TableTypeOK /\ RowsOK /\ HeldRowIsLeased /\ OutstandingBounded
      /\ Capacity \in Nat
  BY OutboxAssumption DEF IInv, TypeOK
<1>f. /\ IsFiniteSet(Outstanding) /\ Cardinality(Outstanding) \in Nat
      /\ IsFiniteSet(Outstanding') /\ Cardinality(Outstanding') \in Nat
  <2>1. Outstanding \in SUBSET Ids /\ Outstanding' \in SUBSET Ids
    BY DEF Outstanding
  <2> QED BY <2>1, IdsFinite
<1>1. ASSUME \A i \in Ids : rows'[i].state \in {"pending", "in_flight"}
                             => rows[i].state \in {"pending", "in_flight"}
      PROVE  OutstandingBounded'
  <2>1. Outstanding' \in SUBSET Outstanding
    BY <1>1 DEF Outstanding
  <2>2. Cardinality(Outstanding') <= Cardinality(Outstanding)
    BY <1>f, <2>1, FS_Subset
  <2> QED BY <1>t, <1>f, <2>2 DEF OutstandingBounded
<1>2. CASE rows' = rows
  BY <1>1, <1>2
<1>3. CASE Clock
  BY <1>1, <1>3, <1>t, TickFacts DEF Clock
<1>4. ASSUME NEW n \in 1..MaxBatch, CommitMutation(n) PROVE OutstandingBounded'
  <2> DEFINE N == nextId..(nextId + n - 1)
  <2>1. insert_outbox(n) /\ n \in Nat /\ n > 0 /\ nextId \in Nat
    BY <1>4, <1>t, QueueAssumption DEF CommitMutation, TableTypeOK
  <2>2. Cardinality(Outstanding) + n <= Capacity
    BY <2>1 DEF insert_outbox
  <2>3. IsFiniteSet(N) /\ Cardinality(N) = n
    BY <2>1, FS_Interval
  <2>4. /\ IsFiniteSet(Outstanding \cup N)
        /\ Cardinality(Outstanding \cup N) <= Cardinality(Outstanding) + n
    <3>1. /\ IsFiniteSet(Outstanding \cup N)
          /\ Cardinality(Outstanding \cup N)
               = Cardinality(Outstanding) + Cardinality(N) - Cardinality(Outstanding \cap N)
      BY <1>f, <2>3, FS_Union
    <3>2. Cardinality(Outstanding \cap N) \in Nat
      <4>1. Outstanding \cap N \in SUBSET Ids
        BY DEF Outstanding
      <4> QED BY <4>1, IdsFinite
    <3> QED BY <1>f, <2>1, <2>3, <3>1, <3>2
  <2>5. Outstanding' \in SUBSET (Outstanding \cup N)
    <3>1. \A i \in Ids : i \in N \/ rows'[i] = rows[i]
      BY <1>t, <2>1, InsertFacts DEF Ids
    <3> QED BY <3>1 DEF Outstanding
  <2>6. Cardinality(Outstanding') <= Cardinality(Outstanding \cup N)
    BY <2>4, <2>5, FS_Subset
  <2>7. Cardinality(Outstanding \cup N) \in Nat
    BY <2>4, FS_CardinalityType
  <2> HIDE DEF N
  <2> QED BY <1>t, <1>f, <2>1, <2>2, <2>4, <2>6, <2>7 DEF OutstandingBounded
<1>5. CASE Recover
  <2>1. CASE recover_outbox
    BY <1>1, <1>t, <2>1, RecoverFacts
  <2> QED BY <1>2, <1>5, <2>1 DEF Recover
<1>6. CASE Claim
  <2>1. PICK id \in Ids : claim_outbox(id)
    BY <1>6 DEF Claim
  <2> QED BY <1>1, <1>t, <2>1, ClaimFacts
<1>7. CASE Acknowledge
  <2>1. acknowledge_outbox(cur) /\ cur \in Ids
    BY <1>7, <1>t DEF Acknowledge, HeldRowIsLeased
  <2> QED BY <1>1, <1>t, <2>1, AckFacts
<1>8. CASE Fail
  <2>1. /\ fail_outbox(cur, claimed) /\ cur \in Ids /\ claimed \in Nat
        /\ \/ rows[cur].state = "in_flight"
           \/ rows[cur].state = "failed" /\ claimed >= MaxAttempts
    BY <1>8, <1>t DEF Fail, HeldRowIsLeased, TypeOK
  <2> QED BY <1>1, <1>t, <2>1, FailFacts
<1>9. CASE FailError
  <2>1. cur \in Ids /\ claimed \in Nat
    BY <1>9, <1>t DEF FailError, HeldRowIsLeased, TypeOK
  <2> QED BY <1>1, <1>2, <1>9, <1>t, <2>1, UntrimmedFacts DEF FailError
<1> QED BY <1>2, <1>3, <1>4, <1>5, <1>6, <1>7, <1>8, <1>9, QuietSteps DEF Next, Dispatcher

\* Receiving a message moves a direct event from the channel into dispatch.
LEMMA ReceiveCounts ==
  ASSUME TypeOK, PendingIsExact, pc # "direct", hubPending' = hubPending,
         enqueuing' = enqueuing,
         NEW k \in 1..Len(chan), \A j \in 1..(k - 1) : chan[j] = Wake, Receive(k)
  PROVE  PendingIsExact'
<1>1. chan \in Seq(Nat) /\ chan' = SubSeq(chan, k + 1, Len(chan))
  BY DEF TypeOK, Receive
<1>2. /\ chan' \in Seq(Nat)
      /\ Cardinality(Directs(chan)) =
           Cardinality(Directs(chan')) + (IF chan[k] = Wake THEN 0 ELSE 1)
  BY <1>1, DirectsReceive
<1>3. Cardinality(Directs(chan')) \in Nat /\ Cardinality(enqueuing) \in Nat
  BY <1>2, DirectsFinite, AdmittedFinite
<1>4. pc' = IF chan[k] = Wake THEN "poll" ELSE "direct"
  BY DEF Receive
<1> QED BY <1>2, <1>3, <1>4 DEF PendingIsExact

\* Every message into and out of the channel is counted once.
LEMMA PendingStep ==
  ASSUME IInv, Next
  PROVE  PendingIsExact'
<1>t. TypeOK /\ NoneRuns /\ PendingIsExact /\ chan \in Seq(Nat)
  BY DEF IInv, TypeOK
<1>f. Cardinality(Directs(chan)) \in Nat /\ Cardinality(enqueuing) \in Nat
  BY <1>t, DirectsFinite, AdmittedFinite
<1>1. ASSUME UNCHANGED <<chan, enqueuing, hubPending>>, pc # "direct", pc' # "direct" PROVE PendingIsExact'
  BY <1>1, <1>t DEF PendingIsExact
<1>2. CASE UNCHANGED <<chan, enqueuing, hubPending, pc>>
  BY <1>2, <1>t DEF PendingIsExact
<1>3. CASE StartWithoutFunctions \/ StopWithoutFunctions \/ Clock
  BY <1>2, <1>3 DEF StartWithoutFunctions, StopWithoutFunctions, Clock
<1>4. CASE Start
  BY <1>1, <1>4, <1>t DEF Start, NoneRuns
<1>5. CASE Crash
  <2>1. Directs(chan') = {} /\ enqueuing' = {} /\ hubPending' = 0 /\ pc' = "stopped"
    BY <1>5 DEF Crash, Directs
  <2> QED BY <2>1, FS_EmptySet DEF PendingIsExact
<1>6. ASSUME NEW n \in 1..MaxBatch, CommitMutation(n) PROVE PendingIsExact'
  <2>1. UNCHANGED <<pc, enqueuing, hubPending>> /\ (chan' = chan \/ chan' = Append(chan, Wake))
    BY <1>6 DEF CommitMutation, outbox_committed
  <2>2. CASE chan' = Append(chan, Wake)
    <3>1. Wake \in Nat
      BY DEF Wake
    <3>2. Cardinality(Directs(chan')) = Cardinality(Directs(chan)) + 0
      BY <1>t, <2>2, <3>1, DirectsAppend
    <3>3. Cardinality(Directs(chan')) = Cardinality(Directs(chan))
      BY <1>f, <3>2
    <3> QED BY <1>t, <2>1, <3>3 DEF PendingIsExact
  <2> QED BY <1>2, <2>1, <2>2
<1>7. CASE Admission
  <2>1. CASE enqueue
    <3>1. /\ enqueuing' = enqueuing \cup {sequence + 1} /\ sequence + 1 \notin enqueuing
          /\ hubPending' = hubPending + 1 /\ UNCHANGED <<chan, pc>>
      BY <1>t, <2>1 DEF enqueue, TypeOK
    <3>2. Cardinality(enqueuing \cup {sequence + 1}) = Cardinality(enqueuing) + 1
      BY <1>t, <3>1, AdmittedFinite, FS_AddElement
    <3> QED BY <1>t, <1>f, <3>1, <3>2 DEF PendingIsExact
  <2>2. ASSUME NEW i \in enqueuing, try_send(i) PROVE PendingIsExact'
    <3>1. i \in Nat /\ i # Wake /\ UNCHANGED <<pc, hubPending>>
      BY <1>t, <2>2 DEF try_send, TypeOK, Wake
    <3>2. /\ Cardinality(enqueuing \ {i}) = Cardinality(enqueuing) - 1
          /\ Cardinality(Directs(Append(chan, i))) = Cardinality(Directs(chan)) + 1
      BY <1>t, <3>1, AdmittedIsCounted, DirectsAppend
    <3>3. CASE chan' = Append(chan, i) /\ enqueuing' = enqueuing \ {i}
      BY <1>t, <1>f, <3>1, <3>2, <3>3 DEF PendingIsExact
    <3> QED BY <1>2, <2>2, <3>1, <3>3 DEF try_send
  <2>3. ASSUME NEW i \in enqueuing, Reject(i) PROVE PendingIsExact'
    <3>1. /\ enqueuing' = enqueuing \ {i} /\ hubPending' = hubPending - 1
          /\ UNCHANGED <<chan, pc>>
      BY <2>3 DEF Reject
    <3>2. Cardinality(enqueuing \ {i}) = Cardinality(enqueuing) - 1
      BY <1>t, AdmittedIsCounted
    <3> QED BY <1>t, <1>f, <3>1, <3>2 DEF PendingIsExact
  <2> QED BY <1>7, <2>1, <2>2, <2>3 DEF Admission
<1>8. CASE Recover \/ Claim \/ ClaimNothing \/ Dispatch \/ Acknowledge \/ AcknowledgeError
           \/ Fail \/ FailError
  BY <1>1, <1>8 DEF Recover, Claim, ClaimNothing, Dispatch, Acknowledge, AcknowledgeError,
                    Fail, FailError, Settled, TransitionError
<1>9. CASE Throttle
  <2>1. pc = "poll" /\ hubPending' = hubPending /\ enqueuing' = enqueuing
    BY <1>9 DEF Throttle
  <2>2. ASSUME NEW k \in 1..Len(chan), FirstDirect(k), Receive(k) PROVE PendingIsExact'
    BY <1>t, <2>1, <2>2, ReceiveCounts DEF FirstDirect
  <2>3. CASE (\A k \in 1..Len(chan) : chan[k] = Wake) /\ chan' = <<>> /\ pc' = pc
    <3>1. Cardinality(Directs(chan)) = 0
      BY <2>3, DirectsNone
    <3>2. Cardinality(Directs(chan')) = 0
      BY <2>3, DirectsNone
    <3> QED BY <1>t, <2>1, <2>3, <3>1, <3>2 DEF PendingIsExact
  <2> QED BY <1>9, <2>2, <2>3 DEF Throttle
<1>10. CASE Wait
  <2>1. pc = "wait" /\ hubPending' = hubPending /\ enqueuing' = enqueuing
    BY <1>10 DEF Wait
  <2>2. CASE chan # <<>> /\ Receive(1)
    <3>1. 1 \in 1..Len(chan) /\ \A j \in 1..(1 - 1) : chan[j] = Wake
      BY <1>t, <2>2
    <3> QED BY <1>t, <2>1, <2>2, <3>1, ReceiveCounts
  <2> QED BY <1>1, <1>10, <2>1, <2>2 DEF Wait
<1>11. CASE DispatchDirect
  BY <1>11, <1>t, <1>f DEF DispatchDirect, PendingIsExact
<1> QED BY <1>3, <1>4, <1>5, <1>6, <1>7, <1>8, <1>9, <1>10, <1>11 DEF Next, Dispatcher

\* The dispatcher starts and stops with its process.
LEMMA RunsStep ==
  ASSUME IInv, Next
  PROVE  NoneRuns'
<1>t. NoneRuns
  BY DEF IInv
<1>1. CASE Start \/ StartWithoutFunctions \/ StopWithoutFunctions \/ Crash \/ Clock \/ Admission
  BY <1>1, <1>t, AdmissionQuiet DEF Start, StartWithoutFunctions, StopWithoutFunctions, Crash, Clock,
                    NoneRuns
<1>2. ASSUME NEW n \in 1..MaxBatch, CommitMutation(n) PROVE NoneRuns'
  BY <1>2, <1>t DEF CommitMutation, NoneRuns
<1>3. CASE Dispatcher
  <2>1. pc # "stopped" /\ proc' = proc
    BY <1>3 DEF Dispatcher, Recover, Claim, ClaimNothing, Dispatch, Acknowledge,
                AcknowledgeError, Fail, FailError, Settled, TransitionError, Throttle, Wait,
                DispatchDirect
  <2> QED BY <1>t, <2>1 DEF NoneRuns
<1> QED BY <1>1, <1>2, <1>3 DEF Next

\* A direct event at the head stays there until it is received.
LEMMA HeadStays ==
  ASSUME TypeOK, DirectAtHead, NEW m \in Nat, chan' = Append(chan, m)
  PROVE  DirectAtHead'
<1>1. /\ chan \in Seq(Nat) /\ chan # <<>> /\ Len(chan) > 0 /\ Head(chan) = chan[1]
      /\ chan[1] # Wake
  BY DEF TypeOK, DirectAtHead
<1>2. chan' \in Seq(Nat) /\ Len(chan') = Len(chan) + 1 /\ chan'[1] = chan[1] /\ chan' # <<>>
  BY <1>1
<1> QED BY <1>1, <1>2 DEF DirectAtHead

\* No more than one burst of claims overtakes a direct event.
LEMMA BurstStep ==
  ASSUME IInv, Next
  PROVE  OvertakenInBurst'
<1>t. /\ TypeOK /\ NoneRuns /\ chan \in Seq(Nat) /\ burst \in Nat /\ overtaken \in Nat
      /\ BurstLimit \in Nat /\ BurstLimit > 0
  <2>1. TypeOK /\ NoneRuns
    BY DEF IInv
  <2>2. chan \in Seq(Nat) /\ burst \in Nat /\ overtaken \in Nat
    BY <2>1 DEF TypeOK
  <2>3. BurstLimit \in Nat /\ BurstLimit > 0
    BY QueueAssumption
  <2> QED BY <2>1, <2>2, <2>3
<1>o. OvertakenInBurst
  BY DEF IInv
<1>1. ASSUME UNCHANGED <<burst, overtaken, chan>>, pc = "wait" => pc' = "wait" PROVE OvertakenInBurst'
  BY <1>o, <1>1 DEF OvertakenInBurst, DirectAtHead
<1>2. ASSUME NEW m \in Nat, chan' = Append(chan, m), UNCHANGED <<pc, burst, overtaken>>
      PROVE  OvertakenInBurst'
  BY <1>o, <1>t, <1>2, HeadStays DEF OvertakenInBurst
<1>3. CASE Start
  BY <1>1, <1>3, <1>t DEF Start, NoneRuns
<1>4. CASE StartWithoutFunctions \/ StopWithoutFunctions \/ Clock \/ Recover \/ Dispatch
           \/ Acknowledge \/ AcknowledgeError \/ Fail \/ FailError \/ DispatchDirect
  BY <1>1, <1>4 DEF StartWithoutFunctions, StopWithoutFunctions, Clock, Recover, Dispatch,
       Acknowledge, AcknowledgeError, Fail, FailError, Settled, TransitionError, DispatchDirect
<1>5. CASE Crash
  BY <1>5, <1>t DEF Crash, OvertakenInBurst
<1>6. ASSUME NEW n \in 1..MaxBatch, CommitMutation(n) PROVE OvertakenInBurst'
  BY <1>1, <1>2, <1>6 DEF CommitMutation, outbox_committed, Wake
<1>7. CASE Admission
  <2>1. UNCHANGED <<pc, burst, overtaken>>
    BY <1>7, AdmissionQuiet
  <2>2. chan' = chan \/ \E m \in Nat : chan' = Append(chan, m)
    BY <1>7, <1>t DEF Admission, enqueue, try_send, Reject, TypeOK
  <2> QED BY <1>1, <1>2, <2>1, <2>2
<1>8. CASE Claim
  BY <1>8, <1>o, <1>t DEF Claim, OvertakenInBurst, DirectAtHead
<1>9. CASE ClaimNothing
  BY <1>9, <1>o, <1>t DEF ClaimNothing, OvertakenInBurst, DirectAtHead
<1>10. ASSUME NEW k \in 1..Len(chan), Receive(k), \A j \in 1..(k - 1) : chan[j] = Wake
       PROVE  OvertakenInBurst'
  <2>1. CASE chan[k] # Wake
    BY <1>10, <1>t, <2>1 DEF Receive, OvertakenInBurst
  <2>2. CASE chan[k] = Wake
    <3>1. chan[1] = Wake
      BY <1>10, <1>t, <2>2
    <3>2. overtaken = 0
      BY <1>o, <1>t, <3>1 DEF OvertakenInBurst, DirectAtHead
    <3> QED BY <1>10, <1>t, <2>2, <3>2 DEF Receive, OvertakenInBurst
  <2> QED BY <2>1, <2>2
<1>11. ASSUME \A k \in 1..Len(chan) : chan[k] = Wake, burst' = 0, UNCHANGED overtaken
       PROVE  OvertakenInBurst'
  <2>1. overtaken = 0
    BY <1>o, <1>t, <1>11 DEF OvertakenInBurst, DirectAtHead
  <2> QED BY <1>11, <1>t, <2>1 DEF OvertakenInBurst
<1>12. CASE Throttle
  BY <1>10, <1>11, <1>12 DEF Throttle, FirstDirect
<1>13. CASE Wait
  <2>1. ASSUME chan # <<>>, Receive(1) PROVE OvertakenInBurst'
    <3>1. 1 \in 1..Len(chan) /\ \A j \in 1..(1 - 1) : chan[j] = Wake
      BY <1>t, <2>1
    <3> QED BY <1>10, <2>1, <3>1
  <2>2. ASSUME chan = <<>>, burst' = 0, UNCHANGED overtaken PROVE OvertakenInBurst'
    BY <1>11, <2>2
  <2> QED BY <1>13, <2>1, <2>2 DEF Wait
<1> QED BY <1>3, <1>4, <1>5, <1>6, <1>7, <1>8, <1>9, <1>12, <1>13 DEF Next, Dispatcher

\* Every step records or clears failures, or leaves the history.
LEMMA FailuresStep ==
  ASSUME IInv, Next
  PROVE  FailureHistoryBounded'
<1>t. /\ TypeOK /\ FailureHistoryBounded
      /\ failures \in Seq(Failure) /\ ListedOnce(failures) /\ Len(failures) <= FailureLimit
      /\ cur \in Nat /\ sequence \in Nat /\ FailureLimit \in Nat
  BY QueueAssumption DEF IInv, TypeOK, FailureHistoryBounded, ListedOnce
<1> DEFINE Same == failures' = failures
           Records == \E id \in Nat, error \in Errors : failures' = record_failure(failures, id, error)
           Gone == failures' = <<>>
           Clears == \E id \in Nat : failures' = clear_event_failures(failures, id)
<1>1. Same \/ Records \/ Clears \/ Gone
  <2>1. {"system", "transition", "dispatch", "loop", "rejected"} \subseteq Errors
        /\ 0 \in Nat
    BY <1>t DEF Errors
  <2>2. ASSUME \/ Start \/ StartWithoutFunctions \/ StopWithoutFunctions \/ Clock
               \/ (\E n \in 1..MaxBatch : CommitMutation(n))
               \/ Throttle \/ Wait \/ Dispatch
        PROVE  Same
    BY <2>2 DEF Start, StartWithoutFunctions, StopWithoutFunctions, Clock, CommitMutation,
                Throttle, Wait, Dispatch
  <2>3. ASSUME Admission PROVE Same \/ Records
    <3>1. Same \/ \E i \in enqueuing : failures' = record_failure(failures, i, "rejected")
      BY <2>3 DEF Admission, enqueue, try_send, Reject
    <3>2. enqueuing \subseteq Nat
      BY <1>t DEF TypeOK
    <3> QED BY <2>1, <3>1, <3>2
  <2>4. ASSUME Recover PROVE Same \/ Records
    <3>1. Same \/ failures' = record_failure(failures, 0, "system")
      BY <2>4 DEF Recover
    <3> QED BY <2>1, <3>1
  <2>5. ASSUME Claim \/ ClaimNothing PROVE Records \/ Clears
    <3>1. \/ failures' = clear_event_failures(failures, 0)
          \/ failures' = record_failure(failures, 0, "system")
      BY <2>5 DEF Claim, ClaimNothing, clear_system_failures
    <3> QED BY <2>1, <3>1
  <2>6. ASSUME Acknowledge \/ Fail PROVE Clears
    <3>1. failures' = clear_event_failures(failures, cur)
      BY <2>6 DEF Acknowledge, Fail, Settled
    <3> QED BY <1>t, <3>1
  <2>7. ASSUME AcknowledgeError \/ FailError PROVE Same \/ Records
    <3>1. Same \/ failures' = record_failure(failures, cur, "transition")
      BY <2>7 DEF AcknowledgeError, FailError, TransitionError
    <3> QED BY <1>t, <2>1, <3>1
  <2>8. ASSUME DispatchDirect PROVE Same \/ Records
    <3>1. \/ Same
          \/ failures' = record_failure(failures, cur, "loop")
          \/ failures' = record_failure(failures, cur, "dispatch")
      BY <2>8 DEF DispatchDirect
    <3> QED BY <1>t, <2>1, <3>1
  <2>9. ASSUME Crash PROVE Gone
    BY <2>9 DEF Crash
  <2> HIDE DEF Same, Records, Clears, Gone
  <2> QED BY <2>2, <2>3, <2>4, <2>5, <2>6, <2>7, <2>8, <2>9 DEF Next, Dispatcher
<1>2. CASE Same
  BY <1>2, <1>t DEF FailureHistoryBounded
<1>3. CASE Records
  <2>1. /\ failures' \in Seq(Failure) /\ ListedOnce(failures') /\ Len(failures') <= FailureLimit
    BY <1>3, <1>t, RecordedFacts
  <2> QED BY <2>1 DEF FailureHistoryBounded, ListedOnce
<1>4. CASE Clears
  <2>1. PartOf(failures', failures, Len(failures))
    BY <1>4, <1>t, ClearedFacts
  <2>2. Len(failures') \in Nat /\ Len(failures) \in Nat
    BY <1>t, <2>1 DEF PartOf
  <2> QED BY <1>t, <2>1, <2>2 DEF PartOf, FailureHistoryBounded, ListedOnce
<1>5. CASE Gone
  BY <1>5, <1>t DEF FailureHistoryBounded
<1> QED BY <1>1, <1>2, <1>3, <1>4, <1>5

-----------------------------------------------------------------------------
(* The theorems.                                                           *)

\* A stuttering step changes none of the parts of the invariant.
LEMMA StutterIInv == IInv /\ UNCHANGED vars => IInv'
<1> SUFFICES ASSUME IInv, UNCHANGED vars PROVE IInv'
  OBVIOUS
<1> USE DEF IInv, vars
<1>1. TypeOK' /\ NoneRuns' /\ FailureHistoryBounded'
  BY DEF TypeOK, TableTypeOK, NoneRuns, FailureHistoryBounded
<1>2. HeldRowIsLeased' /\ RowsOK' /\ DeliveredWasHandled' /\ AckIsEarned' /\ AckedIsSettled'
  BY DEF HeldRowIsLeased, RowsOK, DeliveredWasHandled, AckIsEarned, AckedIsSettled
<1>3. OutstandingBounded' /\ CompletedOnce' /\ PendingIsExact' /\ OvertakenInBurst'
  BY DEF OutstandingBounded, Outstanding, CompletedOnce, PendingIsExact, OvertakenInBurst,
         DirectAtHead
<1>4. ExtraClaimsAreFaults' /\ ClaimIsLeft'
  BY DEF ExtraClaimsAreFaults, ClaimIsLeft, Held
<1> QED BY <1>1, <1>2, <1>3, <1>4

(* The inductive invariant of the dispatcher: whatever crashes, SQLite     *)
(* errors, lost wakes and clock steps happen, and in whatever order.       *)
THEOREM Invariance == Spec => []IInv
<1>1. IInv /\ [Next]_vars => IInv'
  <2>1. ASSUME IInv, Next PROVE IInv'
    BY <2>1, TypeStep, RunsStep, RowsStep, HeldStep, HandledStep, AckedStep, OutstandingStep,
       PendingStep, BurstStep, FailuresStep, ClaimsStep DEF IInv
  <2> QED BY <2>1, StutterIInv
<1> QED BY <1>1, InitIInv, PTL DEF Spec

(* Every variable of run_queue, the hub and the table keeps its type; in   *)
(* particular hub.pending, a usize that is decremented, never goes below 0.*)
THEOREM TypeCorrectness == Spec => []TypeOK
<1>1. IInv => TypeOK
  BY DEF IInv
<1> QED BY <1>1, Invariance, PTL

(* The row run_queue works on stays leased to it: the state guard of       *)
(* acknowledge_outbox never fails and the unguarded UPDATE of fail_outbox  *)
(* never moves a settled row.                                              *)
THEOREM LeaseSafety == Spec => []HeldRowIsLeased
<1>1. IInv => HeldRowIsLeased
  BY DEF IInv
<1> QED BY <1>1, Invariance, PTL

\* A delivered event was processed by all its handlers.
THEOREM DeliverySafety == Spec => []DeliveredWasHandled
<1>1. IInv => DeliveredWasHandled
  BY DEF IInv
<1> QED BY <1>1, Invariance, PTL

\* The pending and in-flight rows never exceed the capacity.
THEOREM CapacitySafety == Spec => []OutstandingBounded
<1>1. IInv => OutstandingBounded
  BY DEF IInv
<1> QED BY <1>1, Invariance, PTL

\* The durable counter event_completed counts every acknowledged event once.
THEOREM CountSafety == Spec => []CompletedOnce
<1>1. IInv => CompletedOnce
  BY DEF IInv
<1> QED BY <1>1, Invariance, PTL

(* But for crashes and errors, each of which pays for one more, no event   *)
(* is claimed more often than MaxAttempts times.                           *)
THEOREM RetrySafety == Spec => []ExtraClaimsAreFaults
<1>1. IInv => ExtraClaimsAreFaults
  BY DEF IInv
<1> QED BY <1>1, Invariance, PTL

\* hub.pending is the number of direct events queued or being dispatched.
THEOREM PendingSafety == Spec => []PendingIsExact
<1>1. IInv => PendingIsExact
  BY DEF IInv
<1> QED BY <1>1, Invariance, PTL

(* The failure history keeps within its limit and lists no failure twice.  *)
THEOREM FailureSafety == Spec => []FailureHistoryBounded
<1>1. IInv => FailureHistoryBounded
  BY DEF IInv
<1> QED BY <1>1, Invariance, PTL

(* At most one burst of durable deliveries overtakes a direct event at the *)
(* head of the channel, whatever commits, crashes and errors happen.       *)
THEOREM DirectSafety == Spec => []DirectNotStarved
<1>1. IInv => DirectNotStarved
  BY DEF IInv, OvertakenInBurst, DirectNotStarved
<1> QED BY <1>1, Invariance, PTL

-----------------------------------------------------------------------------
(* The dispatcher implements EventDelivery.                                *)

\* The refinement mapping, state by state.
LEMMA StatusFacts ==
  /\ StatusOf("none") = "none" /\ StatusOf("gone") = "forgotten"
  /\ StatusOf("pending") = "queued" /\ StatusOf("in_flight") = "queued"
  /\ StatusOf("delivered") = "done" /\ StatusOf("failed") = "abandoned"
  BY DEF StatusOf

\* A table whose rows keep their status and attempts is the same to a client.
LEMMA SameDelivery ==
  ASSUME UNCHANGED <<handled, eventCompleted>>,
         \A i \in Ids : /\ StatusOf(rows'[i].state) = StatusOf(rows[i].state)
                        /\ rows'[i].attempts = rows[i].attempts
  PROVE  UNCHANGED Delivery!dvars
  BY DEF Delivery!dvars

\* The rows of one committed transaction are accepted together.
LEMMA MapsCommit ==
  ASSUME IInv, NEW n \in 1..MaxBatch, CommitMutation(n)
  PROVE  Delivery!Next
<1> DEFINE S == nextId..(nextId + n - 1)
<1>t. TableTypeOK /\ RowsOK
  BY DEF IInv, TypeOK
<1>1. insert_outbox(n) /\ n \in Nat /\ n > 0 /\ nextId \in Nat /\ MaxEvents \in Nat
  BY <1>t, QueueAssumption, OutboxAssumption DEF CommitMutation, TableTypeOK
<1>2. nextId + n <= MaxEvents + 1 /\ Cardinality(Outstanding) + n <= Capacity /\ nextId >= 1
  BY <1>1, <1>t DEF insert_outbox, TableTypeOK
<1>3. S \in SUBSET Ids
  BY <1>1, <1>2 DEF Ids
<1>4. Cardinality(S) = n
  BY <1>1, FS_Interval
<1>5. \A i \in S : rows[i] = NoRow
  BY <1>1, <1>3, <1>t DEF RowsOK
<1>6. \A i \in Ids : rows'[i] = IF i \in S THEN NewRow ELSE rows[i]
  BY <1>1 DEF insert_outbox
<1>7. Delivery!Queued = Outstanding
  <2>1. \A i \in Ids : rows[i].state \in States
    BY <1>t DEF TableTypeOK, Row
  <2> QED BY <2>1, StatusFacts DEF Delivery!Queued, Outstanding, States
<1> HIDE DEF S
<1>8. Delivery!Accept(S)
  <2>1. \A i \in S : [j \in Ids |-> StatusOf(rows[j].state)][i] = "none"
    BY <1>3, <1>5, StatusFacts DEF NoRow
  <2>2. [i \in Ids |-> StatusOf(rows'[i].state)]
          = [i \in Ids |-> IF i \in S THEN "queued"
                           ELSE [j \in Ids |-> StatusOf(rows[j].state)][i]]
    BY <1>6, StatusFacts DEF NewRow
  <2>3. [i \in Ids |-> rows'[i].attempts] = [i \in Ids |-> rows[i].attempts]
    BY <1>5, <1>6 DEF NewRow, NoRow
  <2>4. UNCHANGED <<handled, eventCompleted>>
    BY <1>1 DEF CommitMutation, insert_outbox
  <2>5. Delivery!Cardinality(Delivery!Queued) + Delivery!Cardinality(S) <= Capacity
    <3>1. ASSUME NEW T PROVE Delivery!Cardinality(T) = Cardinality(T)
      BY Zenon DEF Delivery!Cardinality, Cardinality
    <3> QED BY <1>2, <1>4, <1>7, <3>1
  <2> QED BY <2>1, <2>2, <2>3, <2>4, <2>5 DEF Delivery!Accept
<1> QED BY <1>3, <1>8 DEF Delivery!Next

\* A claim is an attempt.
LEMMA MapsClaim ==
  ASSUME IInv, Claim
  PROVE  Delivery!Next
<1>t. TableTypeOK
  BY DEF IInv, TypeOK
<1>1. PICK id \in Ids : claim_outbox(id)
  BY DEF Claim
<1>2. UNCHANGED <<handled, eventCompleted>>
  BY <1>1 DEF Claim, claim_outbox
<1>3. /\ rows[id].state \in {"pending", "in_flight"} /\ rows'[id].state = "in_flight"
      /\ rows'[id].attempts = rows[id].attempts + 1
      /\ \A i \in Ids \ {id} : rows'[i] = rows[i]
  BY <1>1, <1>t, ClaimFacts
<1>4. Delivery!Attempt(id)
  <2>1. [i \in Ids |-> StatusOf(rows[i].state)][id] = "queued"
    BY <1>3, StatusFacts
  <2>2. [i \in Ids |-> StatusOf(rows'[i].state)] = [i \in Ids |-> StatusOf(rows[i].state)]
    BY <1>3, StatusFacts
  <2>3. [i \in Ids |-> rows'[i].attempts]
          = [[i \in Ids |-> rows[i].attempts] EXCEPT ![id] = @ + 1]
    BY <1>3
  <2> QED BY <1>2, <2>1, <2>2, <2>3 DEF Delivery!Attempt
<1> QED BY <1>4 DEF Delivery!Next

\* Dispatch adds the handlers that succeed.
LEMMA MapsDispatch ==
  ASSUME IInv, Dispatch
  PROVE  Delivery!Next
<1>t. TypeOK /\ TableTypeOK /\ RowsOK /\ HeldRowIsLeased
  BY DEF IInv, TypeOK
<1>1. cur \in Ids /\ rows[cur].state = "in_flight" /\ rows[cur].attempts >= 1
  BY <1>t DEF Dispatch, HeldRowIsLeased, RowsOK
<1>2. PICK D \in SUBSET Handlers : handled' = [handled EXCEPT ![cur] = @ \cup D]
  <2>1. CASE handled' = [handled EXCEPT ![cur] = Handlers]
    <3>1. handled[cur] \cup Handlers = Handlers
      BY <1>1, <1>t DEF TypeOK
    <3> QED BY <2>1, <3>1
  <2> QED BY <2>1 DEF Dispatch
<1>3. UNCHANGED <<rows, eventCompleted>>
  BY DEF Dispatch
<1>4. Delivery!Handle(cur, D)
  <2>1. [i \in Ids |-> StatusOf(rows[i].state)][cur] = "queued"
    BY <1>1, StatusFacts
  <2>2. [i \in Ids |-> rows[i].attempts][cur] > 0
    BY <1>1, <1>t DEF TableTypeOK, Row
  <2> QED BY <1>2, <1>3, <2>1, <2>2 DEF Delivery!Handle
<1> QED BY <1>1, <1>2, <1>4 DEF Delivery!Next

\* Row id gets state st, which maps to ab, and rows settled before may be trimmed.
LEMMA MapsSettle ==
  ASSUME TableTypeOK, NEW id \in Ids, NEW st \in {"delivered", "failed"},
         NEW ab, ab = StatusOf(st),
         rows'[id].state \in {st, "gone"},
         \A i \in Ids : rows'[i].attempts = rows[i].attempts,
         \A i \in Ids \ {id} :
           rows'[i] = rows[i] \/ (rows[i].state = st /\ rows'[i].state = "gone"),
         UNCHANGED handled
  PROVE  \E F \in SUBSET Ids : Delivery!Settle(id, ab, F)
<1> DEFINE F == {i \in Ids : rows'[i].state = "gone" /\ (rows[i].state # "gone" \/ i = id)}
<1>1. F \subseteq Delivery!Finished \cup {id}
  BY StatusFacts DEF Delivery!Finished
<1>2. [j \in Ids |-> StatusOf(rows'[j].state)]
        = [j \in Ids |-> IF j \in F THEN "forgotten"
                         ELSE IF j = id THEN ab ELSE [i \in Ids |-> StatusOf(rows[i].state)][j]]
  BY StatusFacts
<1>3. [i \in Ids |-> rows'[i].attempts] = [i \in Ids |-> rows[i].attempts]
  OBVIOUS
<1>4. F \in SUBSET Ids
  OBVIOUS
<1> HIDE DEF F
<1>5. Delivery!Settle(id, ab, F)
  BY <1>1, <1>2, <1>3 DEF Delivery!Settle
<1> QED BY <1>4, <1>5

\* An acknowledgement completes the event.
LEMMA MapsAcknowledge ==
  ASSUME IInv, Acknowledge
  PROVE  Delivery!Next
<1>t. TableTypeOK /\ HeldRowIsLeased /\ AckIsEarned
  BY DEF IInv, TypeOK
<1>1. /\ cur \in Ids /\ rows[cur].state = "in_flight" /\ handled[cur] = Handlers
      /\ acknowledge_outbox(cur) /\ UNCHANGED handled
  BY <1>t DEF Acknowledge, HeldRowIsLeased, AckIsEarned
<1>2. "done" = StatusOf("delivered") /\ "delivered" \in {"delivered", "failed"}
  BY StatusFacts
<1>3. \E F \in SUBSET Ids : Delivery!Settle(cur, "done", F)
  BY <1>1, <1>2, <1>t, AckFacts, MapsSettle
<1>4. PICK F \in SUBSET Ids : Delivery!Settle(cur, "done", F)
  BY <1>3
<1>5. eventCompleted' = eventCompleted + 1
  BY <1>1 DEF acknowledge_outbox
<1>6. [i \in Ids |-> StatusOf(rows[i].state)][cur] = "queued"
  BY <1>1, StatusFacts
<1>7. Delivery!Complete(cur, F)
  BY <1>1, <1>4, <1>5, <1>6 DEF Delivery!Complete
<1> QED BY <1>1, <1>7 DEF Delivery!Next

\* A used-up row that fails, trimmed or not, is abandoned.
LEMMA MapsAbandon ==
  ASSUME IInv, pc = "fail", claimed >= MaxAttempts,
         rows'[cur].state \in {"failed", "gone"},
         \A i \in Ids : rows'[i].attempts = rows[i].attempts,
         \A i \in Ids \ {cur} :
           rows'[i] = rows[i] \/ (rows[i].state = "failed" /\ rows'[i].state = "gone"),
         UNCHANGED <<handled, eventCompleted>>
  PROVE  Delivery!Next
<1>1. /\ TableTypeOK /\ cur \in Ids /\ rows[cur].attempts >= MaxAttempts
      /\ rows[cur].state \in {"in_flight", "failed"}
  BY DEF IInv, TypeOK, HeldRowIsLeased
<1>2. "abandoned" = StatusOf("failed") /\ "failed" \in {"delivered", "failed"}
  BY StatusFacts
<1>3. \E F \in SUBSET Ids : Delivery!Settle(cur, "abandoned", F)
  BY <1>1, <1>2, MapsSettle
<1>4. PICK F \in SUBSET Ids : Delivery!Settle(cur, "abandoned", F)
  BY <1>3
<1>5. /\ [i \in Ids |-> StatusOf(rows[i].state)][cur] \in {"queued", "abandoned"}
      /\ [i \in Ids |-> rows[i].attempts][cur] >= MaxAttempts
  BY <1>1, StatusFacts
<1>6. Delivery!Abandon(cur, F)
  BY <1>4, <1>5 DEF Delivery!Abandon
<1> QED BY <1>1, <1>6 DEF Delivery!Next

\* Every step of the dispatcher is a step of EventDelivery or invisible to it.
LEMMA StepMaps ==
  ASSUME IInv, Next
  PROVE  Delivery!Next \/ UNCHANGED Delivery!dvars
<1>t. TypeOK /\ TableTypeOK /\ HeldRowIsLeased
  BY DEF IInv, TypeOK
<1>1. ASSUME UNCHANGED <<rows, eventCompleted, handled>> PROVE UNCHANGED Delivery!dvars
  BY <1>1, SameDelivery
<1>2. CASE Start \/ StartWithoutFunctions \/ StopWithoutFunctions \/ Crash \/ Admission
           \/ ClaimNothing \/ AcknowledgeError \/ Throttle \/ Wait \/ DispatchDirect
  BY <1>1, <1>2, AdmissionQuiet DEF Start, StartWithoutFunctions, StopWithoutFunctions, Crash,
       ClaimNothing, AcknowledgeError, TransitionError, Throttle, Wait, DispatchDirect
<1>3. CASE Clock
  BY <1>3, <1>t, TickFacts, SameDelivery DEF Clock, Tick
<1>4. ASSUME NEW n \in 1..MaxBatch, CommitMutation(n) PROVE Delivery!Next
  BY <1>4, MapsCommit
<1>5. CASE Recover
  <2>1. CASE recover_outbox
    <3>1. \A i \in Ids : /\ StatusOf(rows'[i].state) = StatusOf(rows[i].state)
                          /\ rows'[i].attempts = rows[i].attempts
      BY <1>t, <2>1, RecoverFacts, StatusFacts
    <3>2. UNCHANGED <<handled, eventCompleted>>
      BY <1>5, <2>1 DEF Recover, recover_outbox
    <3> QED BY <3>1, <3>2, SameDelivery
  <2> QED BY <1>1, <1>5, <2>1 DEF Recover
<1>6. CASE Fail
  <2>1. /\ fail_outbox(cur, claimed) /\ cur \in Ids /\ claimed \in Nat /\ pc = "fail"
        /\ UNCHANGED <<handled, eventCompleted>>
    BY <1>6, <1>t DEF Fail, fail_outbox, HeldRowIsLeased, TypeOK
  <2>2. CASE claimed >= MaxAttempts
    BY <1>t, <2>1, <2>2, FailFacts, MapsAbandon
  <2>3. CASE ~(claimed >= MaxAttempts)
    <3>1. /\ rows' = [rows EXCEPT ![cur] = Moved(@, "pending", Backoff(claimed), 0)]
          /\ rows[cur].state = "in_flight"
      BY <1>t, <2>1, <2>3 DEF fail_outbox, HeldRowIsLeased
    <3>2. \A i \in Ids : /\ StatusOf(rows'[i].state) = StatusOf(rows[i].state)
                          /\ rows'[i].attempts = rows[i].attempts
      BY <1>t, <2>1, <3>1, StatusFacts DEF Moved, TableTypeOK
    <3> QED BY <2>1, <3>2, SameDelivery
  <2> QED BY <2>2, <2>3
<1>7. CASE FailError
  <2>1. /\ cur \in Ids /\ claimed \in Nat /\ pc = "fail" /\ UNCHANGED handled
    BY <1>7, <1>t DEF FailError, TransitionError, HeldRowIsLeased, TypeOK
  <2>2. CASE fail_outbox_untrimmed(cur, claimed)
    <3>1. eventCompleted' = eventCompleted
      BY <2>2 DEF fail_outbox_untrimmed
    <3>2. /\ claimed >= MaxAttempts /\ rows'[cur].state = "failed"
          /\ rows'[cur].attempts = rows[cur].attempts
          /\ \A i \in Ids \ {cur} : rows'[i] = rows[i]
      BY <1>t, <2>1, <2>2, UntrimmedFacts
    <3> QED BY <2>1, <3>1, <3>2, MapsAbandon
  <2> QED BY <1>1, <1>7, <2>1, <2>2 DEF FailError
<1> QED BY <1>2, <1>3, <1>4, <1>5, <1>6, <1>7, MapsClaim, MapsDispatch, MapsAcknowledge
        DEF Next, Dispatcher

(* The dispatcher, with its leases, retries, crashes and recovery,         *)
(* implements EventDelivery.                                               *)
THEOREM Refinement == Spec => ImplementsDelivery
<1>1. Init => Delivery!Init
  BY StatusFacts DEF Init, TableInit, NoRow, Delivery!Init
<1>2. IInv /\ [Next]_vars => [Delivery!Next]_(Delivery!dvars)
  <2>1. ASSUME IInv, Next PROVE [Delivery!Next]_(Delivery!dvars)
    BY <2>1, StepMaps
  <2>2. ASSUME UNCHANGED vars PROVE UNCHANGED Delivery!dvars
    BY <2>2, SameDelivery DEF vars
  <2> QED BY <2>1, <2>2
<1> QED BY <1>1, <1>2, Invariance, PTL DEF Spec, ImplementsDelivery, Delivery!Spec

=============================================================================
