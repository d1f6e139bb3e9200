----------------------------- MODULE PubSubProofs -----------------------------
(***************************************************************************)
(* Proofs about PubSub for every number of topics, subscriptions, clients, *)
(* streams and messages, and for all of the broker's limits.               *)
(***************************************************************************)
EXTENDS PubSub, FoldLemmas

(* The inductive invariant: beside the properties, what a waiting call and *)
(* a claiming stream know of the tables.                                   *)
IInv ==
  /\ setup \in Setups
  /\ TypeOK /\ RequestsOK /\ NumbersOK
  /\ NoOrphans /\ AckNamesItsRow /\ BacklogBounded
  /\ BudgetOK /\ StreamBounded

-----------------------------------------------------------------------------
(* Facts about the constants and the rows.                                 *)

\* The constants have their types.
LEMMA ConstantFacts ==
  /\ MaxPending \in Nat /\ MaxBytes \in Nat /\ MaxMsgs \in Nat /\ MaxAcks \in Nat
  /\ Retention \in Nat \ {0} /\ AckDeadline \in Nat \ {0} /\ PullCount \in Nat \ {0}
  /\ PullBytes \in Nat \ {0} /\ StreamCount \in Nat \ {0} /\ StreamBytes \in Nat \ {0}
  /\ StreamBatch \in Nat \ {0}
  /\ Size \in [Msgs -> Nat \ {0}] /\ "none" \notin Topics /\ "deleted" \notin Topics
  /\ \A s \in Setups : s.subs \subseteq Subs /\ s.streams \subseteq Streams /\ s.batch \in Nat
  /\ Clients \subseteq Actors /\ Streams \subseteq Actors /\ Clients \cap Streams = {}
BY PubSubAssumption DEF Actors

\* The tables are finite.
LEMMA FiniteFacts ==
  /\ IsFiniteSet(Msgs) /\ IsFiniteSet(Acks) /\ IsFiniteSet(Subs) /\ IsFiniteSet(Keys)
  /\ \A d : Present(d) \subseteq Keys /\ IsFiniteSet(Present(d))
<1>1. IsFiniteSet(Msgs) /\ IsFiniteSet(Acks) /\ IsFiniteSet(Subs)
  BY ConstantFacts, PubSubAssumption, FS_Interval DEF Msgs, Acks
<1>2. IsFiniteSet(Keys)
  BY <1>1, FS_Product DEF Keys
<1>3. \A d : Present(d) \subseteq Keys
  BY DEF Present
<1> QED BY <1>1, <1>2, <1>3, FS_Subset

\* The rows that the broker writes.
LEMMA RowFacts ==
  /\ NoDelivery \in Delivery /\ NoDelivery.state = "none" /\ NoDelivery.ack = 0
  /\ Available \in Delivery /\ Available.state = "available" /\ Available.ack = 0
  /\ \A a, t \in Nat : /\ Leased(a, t) \in Delivery /\ Leased(a, t).state = "in_flight"
                       /\ Leased(a, t).ack = a /\ Leased(a, t).deadline = t
BY DEF NoDelivery, Available, Leased, Delivery, States

\* What a request is.
LEMMA RequestFacts ==
  ASSUME TypeOK, NEW c \in Actors
  PROVE  /\ req[c].op \in {"none", "publish", "claim", "ack", "modify"}
         /\ req[c].op = "none" <=> req[c] = NoReq
         /\ req[c].op = "publish" =>
              req[c].topic \in Topics /\ req[c].n \in 1..setup.batch /\ req[c].now \in Nat
         /\ req[c].op = "claim" =>
              /\ req[c].sub \in Subs /\ req[c].now \in Nat
              /\ req[c].count \in Nat /\ req[c].bytes \in Nat
         /\ req[c].op = "ack" => req[c].sub \in Subs /\ req[c].acks \subseteq Acks
         /\ req[c].op = "modify" =>
              /\ req[c].sub \in Subs /\ req[c].acks \subseteq Acks
              /\ req[c].now \in Nat /\ req[c].seconds \in Nat
<1>1. req[c] \in Request
  BY DEF TypeOK
<1> QED BY <1>1 DEF Request, NoReq

\* The ids that a client may name.
LEMMA IssuedFacts ==
  ASSUME TypeOK
  PROVE  Issued \subseteq Acks /\ 0 \notin Acks
BY ConstantFacts DEF TypeOK, Issued, Acks

\* The sum of the sizes of some messages.
LEMMA BytesFacts ==
  ASSUME NEW S \in SUBSET Msgs
  PROVE  IsFiniteSet(S) /\ Bytes(S) = Total(Size, S) /\ Bytes(S) \in Nat
<1>1. IsFiniteSet(S) /\ \A m \in S : Size[m] \in Nat
  BY FiniteFacts, ConstantFacts, FS_Subset
<1>2. Bytes(S) = Total(Size, S)
  BY DEF Bytes, Total
<1> QED BY <1>1, <1>2, TotalFacts

\* The bytes of a table's rows.
LEMMA UsageFacts ==
  ASSUME NEW d
  PROVE  Usage(d) = Total([k \in Keys |-> Size[k[2]]], Present(d)) /\ Usage(d) \in Nat
<1> DEFINE f == [k \in Keys |-> Size[k[2]]]
           S == Present(d)
           g == CHOOSE g : g = [s \in SUBSET S |->
                  IF s = {} THEN 0
                  ELSE Size[(CHOOSE x \in s : TRUE)[2]] + g[s \ {CHOOSE x \in s : TRUE}]]
<1>1. IsFiniteSet(S) /\ S \subseteq Keys /\ \A k \in Keys : f[k] = Size[k[2]] /\ f[k] \in Nat
  BY FiniteFacts, ConstantFacts DEF Keys
<1>2. Usage(d) = g[S]
  BY DEF Usage, MapThenSumSet, MapThenFoldSet
<1> HIDE DEF S, f
<1>3. PICK h \in [SUBSET S -> Nat] : IsSum(h, f, S)
  BY <1>1, SumExists
<1>4. h = [s \in SUBSET S |->
             IF s = {} THEN 0
             ELSE Size[(CHOOSE x \in s : TRUE)[2]] + h[s \ {CHOOSE x \in s : TRUE}]]
  <2>1. ASSUME NEW s \in SUBSET S
        PROVE  h[s] = IF s = {} THEN 0
                      ELSE Size[(CHOOSE x \in s : TRUE)[2]] + h[s \ {CHOOSE x \in s : TRUE}]
    <3>1. s # {} => (CHOOSE x \in s : TRUE) \in Keys
      BY <1>1
    <3> QED BY <1>1, <1>3, <3>1 DEF IsSum
  <2> QED BY <2>1
<1>5. g = [s \in SUBSET S |->
             IF s = {} THEN 0
             ELSE Size[(CHOOSE x \in s : TRUE)[2]] + g[s \ {CHOOSE x \in s : TRUE}]]
  BY <1>4
<1> HIDE DEF g
<1>6. IsSum(g, f, S)
  <2> SUFFICES ASSUME NEW s \in SUBSET S
               PROVE  g[s] = IF s = {} THEN 0
                             ELSE f[CHOOSE x \in s : TRUE] + g[s \ {CHOOSE x \in s : TRUE}]
    BY DEF IsSum
  <2>1. s # {} => (CHOOSE x \in s : TRUE) \in Keys
    BY <1>1
  <2> QED BY <1>1, <1>5, <2>1
<1>7. PICK e : IsSum(e, f, S) /\ Total(f, S) = e[S]
  BY <1>1, TotalIsSum
<1>8. Usage(d) = Total(f, S)
  BY <1>1, <1>2, <1>6, <1>7, SumUnique
<1>9. Total(f, S) \in Nat
  BY <1>1, TotalFacts
<1> QED BY <1>8, <1>9 DEF f, S

\* What a map with the ack ids A counts when they were issued as iss tells.
HeldIn(A, iss) == MapThenSumSet(LAMBDA a : Size[iss[a][2]], A)

LEMMA HeldFacts ==
  ASSUME NEW A \in SUBSET Acks, NEW iss, \A a \in A : iss[a] \in Keys
  PROVE  /\ HeldIn(A, iss) = Total([a \in Acks |-> Size[iss[a][2]]], A)
         /\ HeldIn(A, iss) \in Nat /\ IsFiniteSet(A)
<1> DEFINE f == [a \in Acks |-> Size[iss[a][2]]]
           g == CHOOSE g : g = [s \in SUBSET A |->
                  IF s = {} THEN 0
                  ELSE Size[iss[CHOOSE x \in s : TRUE][2]] + g[s \ {CHOOSE x \in s : TRUE}]]
<1>1. /\ IsFiniteSet(A) /\ \A a \in A : f[a] \in Nat
      /\ \A a \in Acks : f[a] = Size[iss[a][2]]
  BY FiniteFacts, ConstantFacts, FS_Subset DEF Keys
<1>2. HeldIn(A, iss) = g[A]
  BY DEF HeldIn, MapThenSumSet, MapThenFoldSet
<1> HIDE DEF f
<1>3. PICK h \in [SUBSET A -> Nat] : IsSum(h, f, A)
  BY <1>1, SumExists
<1>4. h = [s \in SUBSET A |->
             IF s = {} THEN 0
             ELSE Size[iss[CHOOSE x \in s : TRUE][2]] + h[s \ {CHOOSE x \in s : TRUE}]]
  <2>1. ASSUME NEW s \in SUBSET A
        PROVE  h[s] = IF s = {} THEN 0
                      ELSE Size[iss[CHOOSE x \in s : TRUE][2]] + h[s \ {CHOOSE x \in s : TRUE}]
    <3>1. s # {} => (CHOOSE x \in s : TRUE) \in Acks
      OBVIOUS
    <3> QED BY <1>1, <1>3, <3>1 DEF IsSum
  <2> QED BY <2>1
<1>5. g = [s \in SUBSET A |->
             IF s = {} THEN 0
             ELSE Size[iss[CHOOSE x \in s : TRUE][2]] + g[s \ {CHOOSE x \in s : TRUE}]]
  BY <1>4
<1> HIDE DEF g
<1>6. IsSum(g, f, A)
  <2> SUFFICES ASSUME NEW s \in SUBSET A
               PROVE  g[s] = IF s = {} THEN 0
                             ELSE f[CHOOSE x \in s : TRUE] + g[s \ {CHOOSE x \in s : TRUE}]
    BY DEF IsSum
  <2>1. s # {} => (CHOOSE x \in s : TRUE) \in Acks
    OBVIOUS
  <2> QED BY <1>1, <1>5, <2>1
<1>7. PICK e : IsSum(e, f, A) /\ Total(f, A) = e[A]
  BY <1>1, TotalIsSum
<1>8. HeldIn(A, iss) = Total(f, A)
  BY <1>1, <1>2, <1>6, <1>7, SumUnique
<1>9. Total(f, A) \in Nat
  BY <1>1, TotalFacts
<1> QED BY <1>1, <1>8, <1>9 DEF f

\* The smaller of two numbers.
LEMMA MinFacts ==
  ASSUME NEW a \in Nat, NEW b \in Nat
  PROVE  Min({a, b}) \in {a, b} /\ Min({a, b}) <= a /\ Min({a, b}) <= b
<1>1. \E x \in {a, b} : \A y \in {a, b} : x <= y
  <2>1. CASE a <= b
    BY <2>1
  <2>2. CASE b <= a
    BY <2>2
  <2> QED BY <2>1, <2>2
<1>2. Min({a, b}) = CHOOSE x \in {a, b} : \A y \in {a, b} : x <= y
  BY DEF Min
<1> DEFINE S == {a, b}
           m == Min(S)
<1>3. S = {a, b}
  OBVIOUS
<1> HIDE DEF S
<1>4. m \in S /\ \A y \in S : m <= y
  BY <1>1, <1>2, <1>3
<1> HIDE DEF m
<1>5. m \in {a, b} /\ m <= a /\ m <= b
  BY <1>3, <1>4
<1> QED BY <1>5 DEF m, S

\* A claim picks among the candidates: within both limits, or one message.
LEMMA SelectionFacts ==
  ASSUME NEW C, NEW count, NEW bytes, NEW R \in Selections(C, count, bytes)
  PROVE  /\ R \subseteq C
         /\ \/ Cardinality(R) <= count /\ Bytes(R) <= bytes
            \/ Cardinality(R) = 1 \/ R = {}
BY DEF Selections

\* The ids of one claim are the next ones, one for each message.
LEMMA FreshFacts ==
  ASSUME NEW R \in SUBSET Msgs, nextAck \in Nat
  PROVE  /\ IsFiniteSet(R) /\ Cardinality(R) \in Nat
         /\ \A m \in R : FreshAck(R, m) \in nextAck..(nextAck + Cardinality(R) - 1)
         /\ \A m, n \in R : FreshAck(R, m) = FreshAck(R, n) => m = n
<1> DEFINE B(m) == {n \in R : n < m}
<1>1. IsFiniteSet(R) /\ Cardinality(R) \in Nat /\ R \subseteq Nat
  <2>1. R \subseteq Nat
    BY ConstantFacts DEF Msgs
  <2>2. IsFiniteSet(R)
    BY FiniteFacts, FS_Subset
  <2> QED BY <2>1, <2>2, FS_CardinalityType
<1>2. ASSUME NEW m \in R
      PROVE  IsFiniteSet(B(m)) /\ Cardinality(B(m)) \in Nat /\ Cardinality(B(m)) <= Cardinality(R) - 1
  <2>1. B(m) \subseteq R \ {m}
    BY <1>1
  <2>2. IsFiniteSet(R \ {m}) /\ Cardinality(R \ {m}) = Cardinality(R) - 1
    BY <1>1, FS_RemoveElement
  <2> HIDE DEF B
  <2>3. IsFiniteSet(B(m)) /\ Cardinality(B(m)) <= Cardinality(R \ {m})
    BY <2>1, <2>2, FS_Subset
  <2> QED BY <2>2, <2>3, FS_CardinalityType
<1>3. ASSUME NEW m \in R, NEW n \in R, m < n
      PROVE  Cardinality(B(m)) < Cardinality(B(n))
  <2>1. B(m) \subseteq B(n) \ {m} /\ m \in B(n)
    <3>1. ASSUME NEW x \in R, x < m PROVE x < n /\ x # m
      <4>1. x \in Nat /\ m \in Nat /\ n \in Nat
        BY <1>1
      <4> QED BY <1>3, <3>1, <4>1
    <3> QED BY <1>3, <3>1
  <2> HIDE DEF B
  <2>2. IsFiniteSet(B(n) \ {m}) /\ Cardinality(B(n) \ {m}) = Cardinality(B(n)) - 1
    BY <1>2, <2>1, FS_RemoveElement
  <2>3. Cardinality(B(m)) <= Cardinality(B(n) \ {m})
    BY <2>1, <2>2, FS_Subset
  <2> QED BY <1>2, <2>2, <2>3
<1>4. \A m \in R : FreshAck(R, m) = nextAck + Cardinality(B(m))
  BY DEF FreshAck
<1> HIDE DEF B
<1>5. ASSUME NEW m \in R PROVE FreshAck(R, m) \in nextAck..(nextAck + Cardinality(R) - 1)
  BY <1>1, <1>2, <1>4
<1>6. ASSUME NEW m \in R, NEW n \in R, FreshAck(R, m) = FreshAck(R, n) PROVE m = n
  <2>1. Cardinality(B(m)) = Cardinality(B(n))
    BY <1>2, <1>4, <1>6
  <2>2. m \in Nat /\ n \in Nat /\ ~(m < n) /\ ~(n < m)
    BY <1>1, <1>2, <1>3, <2>1
  <2> QED BY <2>2
<1> QED BY <1>1, <1>5, <1>6

-----------------------------------------------------------------------------
(* The steps and the types.                                                *)

\* The ids A are modified for a caller, or given back at the end of their stream.
ModifiedFor(A, seconds) ==
  \/ \E c \in Actors : Ended(c, "modify") /\ req[c].acks = A /\ req[c].seconds = seconds
  \/ \E x \in Streams : outstanding[x] = A /\ stream'[x] = "closed"

\* What a step does to the tables.
LEMMA NextCases ==
  ASSUME IInv, Next
  PROVE  /\ setup' = setup
         /\ \/ UNCHANGED tables
            \/ \E t \in Topics : create_topic(t)
            \/ \E t \in Topics : delete_topic(t)
            \/ \E s \in Subs, t \in Topics : create_subscription(s, t)
            \/ \E s \in Subs : delete_subscription(s)
            \/ \E c \in Actors : publish_values(c)
            \/ \E c \in Actors :
                 /\ req[c].op = "claim" /\ claim_rows(req[c])
                 /\ UNCHANGED <<topics, subTopic, nextMsg>>
            \/ \E c \in Actors : acknowledge_ids(c)
            \/ \E s \in Subs, A \in SUBSET Acks, now \in Nat, seconds \in Nat :
                 /\ modify_rows(s, A, now, seconds) /\ ModifiedFor(A, seconds)
                 /\ UNCHANGED <<topics, subTopic, expiry, nextMsg, nextAck, issued>>
<1>t. TypeOK /\ RequestsOK /\ setup \in Setups
  BY DEF IInv
<1>0. setup' = setup
  BY DEF Next
<1>1. ASSUME Admin PROVE \/ \E t \in Topics : create_topic(t) \/ delete_topic(t)
                         \/ \E s \in Subs : \/ delete_subscription(s)
                                            \/ \E t \in Topics : create_subscription(s, t)
  BY <1>1, <1>t, ConstantFacts DEF Admin
<1>2. ASSUME Restart \/ Tick PROVE UNCHANGED tables
  BY <1>2 DEF Restart, Tick
<1>3. ASSUME NEW c, NEW s, NEW A, CallAck(c, s, A) \/ \E q \in Seconds : CallModify(c, s, A, q)
      PROVE  UNCHANGED tables
  BY <1>3 DEF CallAck, CallModify
<1>4. ASSUME NEW c \in Actors, modify_ack_ids(c)
      PROVE  \E s \in Subs, A \in SUBSET Acks, now \in Nat, seconds \in Nat :
               /\ modify_rows(s, A, now, seconds) /\ ModifiedFor(A, seconds)
               /\ UNCHANGED <<topics, subTopic, expiry, nextMsg, nextAck, issued>>
  <2>1. /\ req[c].sub \in Subs /\ req[c].acks \in SUBSET Acks
        /\ req[c].now \in Nat /\ req[c].seconds \in Nat
    BY <1>4, <1>t, RequestFacts DEF modify_ack_ids
  <2>2. ModifiedFor(req[c].acks, req[c].seconds)
    BY <1>4, <1>t DEF ModifiedFor, Ended, modify_ack_ids, Return, TypeOK
  <2> QED BY <1>4, <2>1, <2>2 DEF modify_ack_ids
<1>5. ASSUME NEW c \in Clients, Unary(c)
      PROVE  \/ UNCHANGED tables \/ publish_values(c) \/ claim(c) \/ acknowledge_ids(c)
             \/ modify_ack_ids(c)
  BY <1>3, <1>5 DEF Unary, CallPublish, CallPull, CallDropped
<1>6. ASSUME NEW x \in Streams, Streaming(x)
      PROVE  \/ UNCHANGED tables \/ StreamClaim(x) \/ acknowledge_ids(x)
             \/ modify_ack_ids(x) \/ StreamEnd(x)
  BY <1>3, <1>6 DEF Streaming, StreamOpen, StreamRequest, StreamRefresh, CallStreamClaim
<1>7. ASSUME NEW c \in Actors, claim(c)
      PROVE  /\ req[c].op = "claim" /\ claim_rows(req[c])
             /\ UNCHANGED <<topics, subTopic, nextMsg>>
  BY <1>7 DEF claim
<1>8. ASSUME NEW x \in Streams, StreamClaim(x)
      PROVE  /\ req[x].op = "claim" /\ claim_rows(req[x])
             /\ UNCHANGED <<topics, subTopic, nextMsg>>
  <2>1. stream[x] = "claim" /\ req[x] # NoReq /\ x \in Actors
    BY <1>8, ConstantFacts DEF StreamClaim
  <2>2. req[x].op = "claim"
    BY <1>t, <2>1, RequestFacts DEF RequestsOK
  <2> QED BY <1>8, <2>2 DEF StreamClaim
<1>9. ASSUME NEW x \in Streams, StreamEnd(x)
      PROVE  \/ UNCHANGED tables
             \/ \E s \in Subs, A \in SUBSET Acks, now \in Nat, seconds \in Nat :
                  /\ modify_rows(s, A, now, seconds) /\ ModifiedFor(A, seconds)
                  /\ UNCHANGED <<topics, subTopic, expiry, nextMsg, nextAck, issued>>
  <2>1. /\ UNCHANGED <<topics, subTopic, expiry, nextMsg, nextAck, issued>>
        /\ \/ modify_rows(streamSub[x], outstanding[x], clock, 0)
           \/ UNCHANGED deliveries
    BY <1>9 DEF StreamEnd
  <2>2. streamSub[x] \in Subs /\ outstanding[x] \in SUBSET Acks /\ clock \in Nat
    BY <1>9, <1>t DEF StreamEnd, RequestsOK, TypeOK
  <2>3. ModifiedFor(outstanding[x], 0)
    BY <1>9, <1>t DEF StreamEnd, ModifiedFor, TypeOK
  <2> QED BY <2>1, <2>2, <2>3 DEF tables
<1> HIDE DEF tables
<1> QED BY <1>0, <1>1, <1>2, <1>4, <1>5, <1>6, <1>7, <1>8, <1>9, <1>t, ConstantFacts DEF Next

\* The types of the tables.
TablesType ==
  /\ topics \subseteq Topics /\ subTopic \in [Subs -> topics \cup {"none", "deleted"}]
  /\ expiry \in [Msgs -> Nat] /\ deliveries \in [Keys -> Delivery]
  /\ nextMsg \in 1..(MaxMsgs + 1) /\ nextAck \in 1..(MaxAcks + 1)
  /\ issued \in [Acks -> Keys \cup {<<>>}]

\* Cleaning and taking leases back keeps the types of the rows.
LEMMA CleanFacts ==
  ASSUME TypeOK, NEW now \in Nat
  PROVE  /\ cleanup(now) \in [Keys -> Delivery]
         /\ \A s : Returned(cleanup(now), s, now) \in [Keys -> Delivery]
         /\ \A S : Without(S) \in [Msgs -> Nat]
         /\ Expired(now) \subseteq Msgs
<1>1. deliveries \in [Keys -> Delivery] /\ expiry \in [Msgs -> Nat]
  BY DEF TypeOK
<1>2. cleanup(now) \in [Keys -> Delivery]
  BY <1>1, RowFacts DEF cleanup
<1>3. ASSUME NEW d \in [Keys -> Delivery], NEW s PROVE Returned(d, s, now) \in [Keys -> Delivery]
  BY <1>3, RowFacts DEF Returned
<1>4. \A S : Without(S) \in [Msgs -> Nat]
  BY <1>1 DEF Without
<1>5. Expired(now) \subseteq Msgs
  BY DEF Expired, messages
<1> QED BY <1>2, <1>3, <1>4, <1>5

\* A claim keeps the types of the tables.
LEMMA ClaimType ==
  ASSUME TypeOK, NEW r, r.sub \in Subs, r.now \in Nat, claim_rows(r),
         UNCHANGED <<topics, subTopic, nextMsg>>
  PROVE  TablesType'
<1> DEFINE d == Returned(cleanup(r.now), r.sub, r.now)
           C == {m \in Msgs : d[<<r.sub, m>>].state = "available"}
<1>1. PICK R \in Selections(C, r.count, r.bytes) :
       /\ nextAck + Cardinality(R) <= MaxAcks + 1
       /\ deliveries' = [k \in Keys |-> IF k[1] = r.sub /\ k[2] \in R
                                        THEN Leased(FreshAck(R, k[2]), r.now + AckDeadline)
                                        ELSE d[k]]
       /\ expiry' = Without(Expired(r.now))
       /\ nextAck' = nextAck + Cardinality(R)
       /\ issued' = [a \in Acks |-> IF \E m \in R : FreshAck(R, m) = a
                                    THEN <<r.sub, CHOOSE m \in R : FreshAck(R, m) = a>>
                                    ELSE issued[a]]
  BY DEF claim_rows
<1>2. d \in [Keys -> Delivery] /\ expiry' \in [Msgs -> Nat]
  BY <1>1, CleanFacts
<1>3. R \subseteq Msgs
  BY <1>1, SelectionFacts
<1> HIDE DEF d, C
<1>4. nextAck \in 1..(MaxAcks + 1) /\ issued \in [Acks -> Keys \cup {<<>>}]
  BY DEF TypeOK
<1>5. /\ IsFiniteSet(R) /\ Cardinality(R) \in Nat
      /\ \A m \in R : FreshAck(R, m) \in nextAck..(nextAck + Cardinality(R) - 1)
  BY <1>3, <1>4, FreshFacts
<1>6. \A m \in R : FreshAck(R, m) \in Nat
  BY <1>4, <1>5
<1>7. r.now + AckDeadline \in Nat
  BY ConstantFacts
<1>8. deliveries' \in [Keys -> Delivery]
  <2>1. \A k \in Keys : k[1] = r.sub /\ k[2] \in R =>
          Leased(FreshAck(R, k[2]), r.now + AckDeadline) \in Delivery
    BY <1>6, <1>7, RowFacts
  <2> QED BY <1>1, <1>2, <2>1
<1>9. nextAck' \in 1..(MaxAcks + 1)
  BY <1>1, <1>4, <1>5, ConstantFacts
<1>10. issued' \in [Acks -> Keys \cup {<<>>}]
  <2>1. ASSUME NEW a \in Acks, \E m \in R : FreshAck(R, m) = a
        PROVE  <<r.sub, CHOOSE m \in R : FreshAck(R, m) = a>> \in Keys
    BY <1>3, <2>1 DEF Keys
  <2> QED BY <1>1, <1>4, <2>1
<1> QED BY <1>2, <1>8, <1>9, <1>10 DEF TablesType, TypeOK

\* A change of some leases keeps the types of the tables.
LEMMA ModifyType ==
  ASSUME TypeOK, NEW s, NEW A, NEW now \in Nat, NEW seconds \in Nat,
         modify_rows(s, A, now, seconds),
         UNCHANGED <<topics, subTopic, expiry, nextMsg, nextAck, issued>>
  PROVE  TablesType'
<1>1. deliveries \in [Keys -> Delivery] /\ \A k \in Keys : deliveries[k].ack \in Nat
  BY DEF TypeOK, Delivery
<1>2. \A k \in Keys : Leased(deliveries[k].ack, now + seconds) \in Delivery
  BY <1>1, RowFacts
<1>3. deliveries' \in [Keys -> Delivery]
  BY <1>1, <1>2, RowFacts DEF modify_rows
<1> QED BY <1>3 DEF TablesType, TypeOK

\* The fan-out of n messages to some subscriptions, with the clock's reading now.
Published(now, n, fanout) ==
  LET d == cleanup(now)
      new == nextMsg..(nextMsg + n - 1)
  IN /\ new \subseteq Msgs /\ HasRoom(d, fanout, new)
     /\ deliveries' = [k \in Keys |-> IF k[1] \in fanout /\ k[2] \in new THEN Available ELSE d[k]]
     /\ expiry' = [m \in Msgs |-> IF m \in new THEN now + Retention
                                  ELSE Without(Expired(now))[m]]
     /\ nextMsg' = nextMsg + n

\* A publish does nothing, cleans up, or fans out.
LEMMA PublishCases ==
  ASSUME TypeOK, NEW c \in Actors, publish_values(c)
  PROVE  /\ req[c].now \in Nat /\ UNCHANGED <<topics, subTopic, nextAck, issued>>
         /\ \/ UNCHANGED <<deliveries, expiry, nextMsg>>
            \/ /\ deliveries' = cleanup(req[c].now) /\ expiry' = Without(Expired(req[c].now))
               /\ UNCHANGED nextMsg
            \/ \E n \in Nat \ {0}, fanout \in SUBSET Subs :
                 /\ fanout # {} /\ \A s \in fanout : Exists(s)
                 /\ Published(req[c].now, n, fanout)
<1>1. req[c].n \in Nat \ {0} /\ req[c].now \in Nat /\ req[c].topic \in Topics
  BY RequestFacts DEF publish_values
<1> DEFINE now == req[c].now
           d == cleanup(now)
           fanout == {s \in Subs : subTopic[s] = req[c].topic}
           new == nextMsg..(nextMsg + req[c].n - 1)
<1>2. \A s \in fanout : Exists(s)
  BY <1>1, ConstantFacts DEF Exists
<1>3. fanout \in SUBSET Subs
  OBVIOUS
<1>4. \/ UNCHANGED <<deliveries, expiry, nextMsg>>
      \/ /\ deliveries' = cleanup(now) /\ expiry' = Without(Expired(now))
         /\ UNCHANGED nextMsg
      \/ /\ fanout # {} /\ new \subseteq Msgs /\ HasRoom(d, fanout, new)
         /\ deliveries' = [k \in Keys |-> IF k[1] \in fanout /\ k[2] \in new THEN Available ELSE d[k]]
         /\ expiry' = [m \in Msgs |-> IF m \in new THEN now + Retention
                                      ELSE Without(Expired(now))[m]]
         /\ nextMsg' = nextMsg + req[c].n
  BY DEF publish_values
<1>5. \/ UNCHANGED <<deliveries, expiry, nextMsg>>
      \/ /\ deliveries' = cleanup(now) /\ expiry' = Without(Expired(now))
         /\ UNCHANGED nextMsg
      \/ fanout # {} /\ Published(now, req[c].n, fanout)
  BY <1>4 DEF Published
<1> HIDE DEF fanout
<1>6. UNCHANGED <<topics, subTopic, nextAck, issued>>
  BY DEF publish_values
<1> QED BY <1>1, <1>2, <1>3, <1>5, <1>6

\* The new messages are the next numbers.
LEMMA NewFacts ==
  ASSUME TypeOK, NEW n \in Nat \ {0}, nextMsg..(nextMsg + n - 1) \subseteq Msgs
  PROVE  nextMsg \in Nat \ {0} /\ nextMsg + n \in 1..(MaxMsgs + 1)
<1>1. nextMsg \in Nat \ {0} /\ MaxMsgs \in Nat
  BY ConstantFacts DEF TypeOK
<1>2. nextMsg + n - 1 \in nextMsg..(nextMsg + n - 1)
  BY <1>1
<1>3. nextMsg + n - 1 \in 1..MaxMsgs
  BY <1>2 DEF Msgs
<1> QED BY <1>1, <1>3

\* A publish keeps the types of the tables.
LEMMA PublishType ==
  ASSUME TypeOK, NEW c \in Actors, publish_values(c)
  PROVE  TablesType'
<1>1. deliveries \in [Keys -> Delivery] /\ expiry \in [Msgs -> Nat] /\ nextMsg \in 1..(MaxMsgs + 1)
  BY DEF TypeOK
<1>2. req[c].now \in Nat /\ UNCHANGED <<topics, subTopic, nextAck, issued>>
  BY PublishCases
<1>3. /\ cleanup(req[c].now) \in [Keys -> Delivery]
      /\ Without(Expired(req[c].now)) \in [Msgs -> Nat]
  BY <1>2, CleanFacts
<1>4. ASSUME NEW now \in Nat, NEW n \in Nat \ {0}, NEW fanout, Published(now, n, fanout),
             cleanup(now) \in [Keys -> Delivery], Without(Expired(now)) \in [Msgs -> Nat]
      PROVE  /\ deliveries' \in [Keys -> Delivery] /\ expiry' \in [Msgs -> Nat]
             /\ nextMsg' \in 1..(MaxMsgs + 1)
  <2>1. deliveries' \in [Keys -> Delivery]
    BY <1>4, RowFacts DEF Published
  <2>2. now + Retention \in Nat
    BY ConstantFacts
  <2>3. expiry' \in [Msgs -> Nat]
    BY <1>4, <2>2 DEF Published
  <2> QED BY <1>4, <2>1, <2>3, NewFacts DEF Published
<1>5. /\ deliveries' \in [Keys -> Delivery] /\ expiry' \in [Msgs -> Nat]
      /\ nextMsg' \in 1..(MaxMsgs + 1)
  BY <1>1, <1>2, <1>3, <1>4, PublishCases
<1> QED BY <1>2, <1>5 DEF TablesType, TypeOK

\* Every step keeps the types of the tables.
LEMMA TablesTypeStep ==
  ASSUME IInv, Next
  PROVE  TablesType'
<1>t. TypeOK
  BY DEF IInv
<1>0. TablesType
  BY <1>t DEF TypeOK, TablesType
<1>1. ASSUME UNCHANGED tables PROVE TablesType'
  BY <1>0, <1>1 DEF tables, TablesType
<1>2. ASSUME NEW t \in Topics, create_topic(t) PROVE TablesType'
  <2>1. subTopic' \in [Subs -> topics' \cup {"none", "deleted"}]
    BY <1>0, <1>2 DEF create_topic, TablesType
  <2> QED BY <1>0, <1>2, <2>1 DEF create_topic, TablesType
<1>3. ASSUME NEW t \in Topics, delete_topic(t) PROVE TablesType'
  <2>1. subTopic' \in [Subs -> topics' \cup {"none", "deleted"}]
    BY <1>0, <1>3 DEF delete_topic, TablesType
  <2> QED BY <1>0, <1>3, <2>1 DEF delete_topic, TablesType
<1>4. ASSUME NEW s \in Subs, NEW t \in Topics, create_subscription(s, t) PROVE TablesType'
  BY <1>0, <1>4 DEF create_subscription, TablesType
<1>5. ASSUME NEW s \in Subs, delete_subscription(s) PROVE TablesType'
  <2>1. expiry' \in [Msgs -> Nat]
    BY <1>0, <1>5 DEF delete_subscription, Needed, Without, TablesType
  <2>2. deliveries' \in [Keys -> Delivery]
    BY <1>0, <1>5, RowFacts DEF delete_subscription, TablesType
  <2> QED BY <1>0, <1>5, <2>1, <2>2 DEF delete_subscription, TablesType
<1>6. ASSUME NEW c \in Actors, acknowledge_ids(c) PROVE TablesType'
  <2>1. expiry' \in [Msgs -> Nat]
    BY <1>0, <1>6 DEF acknowledge_ids, acknowledge_rows, Needed, Without, TablesType
  <2>2. deliveries' \in [Keys -> Delivery]
    BY <1>0, <1>6, RowFacts DEF acknowledge_ids, acknowledge_rows, TablesType
  <2> QED BY <1>0, <1>6, <2>1, <2>2 DEF acknowledge_ids, TablesType
<1>7. ASSUME NEW c \in Actors, req[c].op = "claim", claim_rows(req[c]),
             UNCHANGED <<topics, subTopic, nextMsg>>
      PROVE  TablesType'
  BY <1>7, <1>t, ClaimType, RequestFacts
<1> QED BY <1>1, <1>2, <1>3, <1>4, <1>5, <1>6, <1>7, <1>t, PublishType, ModifyType, NextCases

\* What a stream holds is a number of messages and of bytes.
LEMMA MapFacts ==
  ASSUME IInv, NEW x \in Streams
  PROVE  /\ IsFiniteSet(outstanding[x]) /\ Cardinality(outstanding[x]) \in Nat
         /\ Held(outstanding[x]) \in Nat
<1>1. outstanding[x] \in SUBSET Acks /\ \A a \in outstanding[x] : issued[a] \in Keys
  BY DEF IInv, TypeOK, NumbersOK
<1>2. Held(outstanding[x]) = HeldIn(outstanding[x], issued)
  BY DEF Held, HeldIn
<1> QED BY <1>1, <1>2, HeldFacts, FS_CardinalityType

\* What a stream asks for: numbers within its limits and those of one response.
LEMMA StreamClaimFacts ==
  ASSUME IInv, NEW x \in Streams, stream[x] = "claim"
  PROVE  LET count == Min({StreamCount - Cardinality(outstanding[x]), StreamBatch})
             bytes == Min({StreamBytes - Held(outstanding[x]), PullBytes})
         IN /\ count \in Nat /\ count <= StreamCount - Cardinality(outstanding[x])
            /\ bytes \in Nat /\ bytes <= StreamBytes - Held(outstanding[x])
<1> DEFINE n == Cardinality(outstanding[x])
           b == Held(outstanding[x])
<1>1. n \in Nat /\ b \in Nat
  BY MapFacts
<1>2. n < StreamCount /\ b < StreamBytes
  BY DEF IInv, BudgetOK, HasBudget
<1> HIDE DEF n, b
<1>3. StreamCount - n \in Nat /\ StreamBatch \in Nat /\ StreamBytes - b \in Nat /\ PullBytes \in Nat
  BY <1>1, <1>2, ConstantFacts
<1>4. /\ Min({StreamCount - n, StreamBatch}) \in {StreamCount - n, StreamBatch}
      /\ Min({StreamCount - n, StreamBatch}) <= StreamCount - n
      /\ Min({StreamBytes - b, PullBytes}) \in {StreamBytes - b, PullBytes}
      /\ Min({StreamBytes - b, PullBytes}) <= StreamBytes - b
  <2> DEFINE i == StreamCount - n
             j == StreamBytes - b
  <2>1. i \in Nat /\ j \in Nat
    BY <1>3
  <2> HIDE DEF i, j
  <2>2. /\ Min({i, StreamBatch}) \in {i, StreamBatch} /\ Min({i, StreamBatch}) <= i
        /\ Min({j, PullBytes}) \in {j, PullBytes} /\ Min({j, PullBytes}) <= j
    BY <1>3, <2>1, MinFacts
  <2> QED BY <2>2 DEF i, j
<1>5. Min({StreamCount - n, StreamBatch}) \in Nat /\ Min({StreamBytes - b, PullBytes}) \in Nat
  BY <1>3, <1>4
<1> QED BY <1>4, <1>5 DEF n, b

\* The requests that the calls begin with.
LEMMA CallTypes ==
  ASSUME TypeOK
  PROVE  /\ NoReq \in Request
         /\ \A t \in Topics, n \in 1..setup.batch :
              [op |-> "publish", topic |-> t, n |-> n, now |-> clock] \in Request
         /\ \A s \in Subs, count, bytes \in Nat :
              [op |-> "claim", sub |-> s, now |-> clock, count |-> count, bytes |-> bytes] \in Request
         /\ \A s \in Subs, A \in SUBSET Acks : [op |-> "ack", sub |-> s, acks |-> A] \in Request
         /\ \A s \in Subs, A \in SUBSET Acks, q \in Nat :
              [op |-> "modify", sub |-> s, acks |-> A, now |-> clock, seconds |-> q] \in Request
<1>1. clock \in Nat
  BY DEF TypeOK
<1> QED BY <1>1 DEF Request

\* The types of the calls and of the streams.
StreamsType ==
  /\ stream \in [Streams -> {"closed", "wait", "claim"}]
  /\ streamSub \in [Streams -> Subs \cup {"none"}]
  /\ outstanding \in [Streams -> SUBSET Acks]

\* Every step keeps them.
LEMMA CallsTypeStep ==
  ASSUME IInv, Next
  PROVE  /\ clock' \in Nat /\ req' \in [Actors -> Request] /\ StreamsType'
<1>t. /\ TypeOK /\ clock \in Nat /\ req \in [Actors -> Request] /\ StreamsType
      /\ setup \in Setups /\ RequestsOK
  BY DEF IInv, TypeOK, StreamsType
<1>1. ASSUME UNCHANGED <<req, streams>>, clock' = clock \/ clock' = clock + 1
      PROVE  clock' \in Nat /\ req' \in [Actors -> Request] /\ StreamsType'
  BY <1>1, <1>t DEF streams, StreamsType
<1>2. ASSUME NEW c \in Actors, NEW r \in Request, Call(c, r)
      PROVE  req' \in [Actors -> Request]
  BY <1>2, <1>t DEF Call
<1>3. ASSUME NEW c \in Actors, Return(c) \/ req' = [req EXCEPT ![c] = NoReq]
      PROVE  req' \in [Actors -> Request]
  BY <1>3, <1>t, CallTypes DEF Return
<1>4. ASSUME UNCHANGED <<clock, streams>>, req' \in [Actors -> Request]
      PROVE  clock' \in Nat /\ req' \in [Actors -> Request] /\ StreamsType'
  BY <1>4, <1>t DEF streams, StreamsType
<1>5. ASSUME NEW A PROVE \A c : Forget(c, A) => outstanding' \in [Streams -> SUBSET Acks]
  BY <1>t DEF Forget, StreamsType
<1>6. ASSUME NEW c \in Actors, NEW s \in Subs, NEW a \in Issued,
             CallAck(c, s, {a}) \/ \E q \in Seconds : CallModify(c, s, {a}, q)
      PROVE  clock' \in Nat /\ req' \in [Actors -> Request] /\ StreamsType'
  <2>1. {a} \in SUBSET Acks /\ Seconds \subseteq Nat
    BY <1>t, IssuedFacts, ConstantFacts DEF Seconds
  <2> QED BY <1>2, <1>4, <1>6, <1>t, <2>1, CallTypes DEF CallAck, CallModify
<1>7. ASSUME NEW c \in Actors, acknowledge_ids(c) \/ modify_ack_ids(c)
      PROVE  clock' \in Nat /\ req' \in [Actors -> Request] /\ StreamsType'
  <2>1. Return(c) /\ UNCHANGED <<clock, stream, streamSub>> /\ \E A : Forget(c, A)
    BY <1>7 DEF acknowledge_ids, modify_ack_ids
  <2> QED BY <1>3, <1>5, <1>t, <2>1 DEF StreamsType
<1>8. ASSUME NEW c \in Clients, Unary(c)
      PROVE  clock' \in Nat /\ req' \in [Actors -> Request] /\ StreamsType'
  <2>1. c \in Actors /\ PullCount \in Nat /\ PullBytes \in Nat
    BY ConstantFacts
  <2>2. ASSUME NEW t \in Topics, NEW n \in 1..setup.batch, CallPublish(c, t, n)
        PROVE  clock' \in Nat /\ req' \in [Actors -> Request] /\ StreamsType'
    BY <1>2, <1>4, <1>t, <2>1, <2>2, CallTypes DEF CallPublish
  <2>3. ASSUME NEW s \in Subs, CallPull(c, s)
        PROVE  clock' \in Nat /\ req' \in [Actors -> Request] /\ StreamsType'
    BY <1>2, <1>4, <1>t, <2>1, <2>3, CallTypes DEF CallPull
  <2>4. ASSUME CallDropped(c) \/ publish_values(c) \/ claim(c)
        PROVE  clock' \in Nat /\ req' \in [Actors -> Request] /\ StreamsType'
    BY <1>3, <1>4, <2>1, <2>4 DEF CallDropped, publish_values, claim
  <2> QED BY <1>6, <1>7, <1>8, <2>1, <2>2, <2>3, <2>4 DEF Unary
<1>9. ASSUME NEW x \in Streams, Streaming(x)
      PROVE  clock' \in Nat /\ req' \in [Actors -> Request] /\ StreamsType'
  <2>0. x \in Actors
    BY ConstantFacts
  <2>1. ASSUME NEW s \in Subs, StreamOpen(x, s)
        PROVE  clock' \in Nat /\ req' \in [Actors -> Request] /\ StreamsType'
    BY <1>t, <2>1 DEF StreamOpen, StreamsType
  <2>2. CASE StreamRequest(x)
    <3>1. streamSub[x] \in Subs
      BY <1>t, <2>2 DEF StreamRequest, RequestsOK
    <3> QED BY <1>6, <2>0, <2>2, <3>1 DEF StreamRequest
  <2>3. CASE StreamRefresh(x)
    <3>1. active_ack_ids(streamSub[x], outstanding[x]) \in SUBSET Acks
      BY <1>t DEF active_ack_ids, StreamsType
    <3>2. outstanding' \in [Streams -> SUBSET Acks]
      BY <1>t, <2>3, <3>1 DEF StreamRefresh, StreamsType
    <3>3. stream' \in [Streams -> {"closed", "wait", "claim"}]
      BY <1>t, <2>3 DEF StreamRefresh, StreamsType
    <3> QED BY <1>t, <2>3, <3>2, <3>3 DEF StreamRefresh, StreamsType
  <2>4. CASE CallStreamClaim(x)
    <3>1. streamSub[x] \in Subs /\ stream[x] = "claim"
      BY <1>t, <2>4 DEF CallStreamClaim, RequestsOK
    <3> QED BY <1>2, <1>4, <1>t, <2>0, <2>4, <3>1, CallTypes, StreamClaimFacts DEF CallStreamClaim
  <2>5. CASE StreamClaim(x)
    <3>1. TablesType'
      BY TablesTypeStep
    <3>2. nextAck \in 1..(MaxAcks + 1) /\ nextAck' \in 1..(MaxAcks + 1)
      BY <1>t, <3>1 DEF TypeOK, TablesType
    <3>3. ASSUME NEW i \in 1..(MaxAcks + 1), NEW j \in 1..(MaxAcks + 1) PROVE i..(j - 1) \subseteq Acks
      BY ConstantFacts DEF Acks
    <3>5. nextAck..(nextAck' - 1) \subseteq Acks
      BY <3>2, <3>3
    <3>4. outstanding' \in [Streams -> SUBSET Acks]
      BY <1>t, <2>5, <3>5 DEF StreamClaim, StreamsType
    <3> QED BY <1>3, <1>t, <2>0, <2>5, <3>4 DEF StreamClaim, StreamsType
  <2>6. CASE StreamEnd(x)
    BY <1>3, <1>t, <2>0, <2>6 DEF StreamEnd, StreamsType
  <2> QED BY <1>7, <1>9, <2>0, <2>1, <2>2, <2>3, <2>4, <2>5, <2>6 DEF Streaming
<1>10. ASSUME Admin \/ Tick PROVE clock' \in Nat /\ req' \in [Actors -> Request] /\ StreamsType'
  BY <1>1, <1>10 DEF Admin, Tick, create_topic, delete_topic, create_subscription, delete_subscription
<1>11. ASSUME Restart PROVE clock' \in Nat /\ req' \in [Actors -> Request] /\ StreamsType'
  BY <1>11, <1>t, CallTypes DEF Restart, StreamsType
<1> QED BY <1>8, <1>9, <1>10, <1>11, <1>t, ConstantFacts DEF Next

\* Every step keeps the types.
LEMMA TypeStep ==
  ASSUME IInv, Next
  PROVE  TypeOK'
<1>1. setup' = setup
  BY DEF Next
<1>2. Request' = Request
  BY <1>1 DEF Request
<1> QED BY <1>2, TablesTypeStep, CallsTypeStep DEF TypeOK, TablesType, StreamsType

-----------------------------------------------------------------------------
(* A claim.                                                                *)

\* The messages R are leased with the next ids, one id for each.
Claimed(r, R) ==
  LET d == Returned(cleanup(r.now), r.sub, r.now) IN
  /\ R \subseteq Msgs /\ IsFiniteSet(R) /\ Cardinality(R) \in Nat
  /\ \/ Cardinality(R) <= r.count /\ Bytes(R) <= r.bytes
     \/ Cardinality(R) = 1 \/ R = {}
  /\ \A k \in Keys :
       IF k[1] = r.sub /\ k[2] \in R
       THEN /\ d[k].state = "available"
            /\ deliveries'[k] = Leased(FreshAck(R, k[2]), r.now + AckDeadline)
       ELSE deliveries'[k] = d[k]
  /\ expiry' = Without(Expired(r.now))
  /\ nextAck' = nextAck + Cardinality(R)
  /\ \A m \in R : /\ FreshAck(R, m) \in nextAck..(nextAck + Cardinality(R) - 1)
                  /\ issued'[FreshAck(R, m)] = <<r.sub, m>>
  /\ \A m, n \in R : FreshAck(R, m) = FreshAck(R, n) => m = n
  /\ \A a \in nextAck..(nextAck + Cardinality(R) - 1) : \E m \in R : FreshAck(R, m) = a
  /\ \A a \in Issued : issued'[a] = issued[a]

LEMMA ClaimFacts ==
  ASSUME TypeOK, NEW r, r.sub \in Subs, r.now \in Nat, claim_rows(r)
  PROVE  \E R : Claimed(r, R)
<1> DEFINE d == Returned(cleanup(r.now), r.sub, r.now)
           C == {m \in Msgs : d[<<r.sub, m>>].state = "available"}
<1>1. PICK R \in Selections(C, r.count, r.bytes) :
       /\ nextAck + Cardinality(R) <= MaxAcks + 1
       /\ deliveries' = [k \in Keys |-> IF k[1] = r.sub /\ k[2] \in R
                                        THEN Leased(FreshAck(R, k[2]), r.now + AckDeadline)
                                        ELSE d[k]]
       /\ expiry' = Without(Expired(r.now))
       /\ nextAck' = nextAck + Cardinality(R)
       /\ issued' = [a \in Acks |-> IF \E m \in R : FreshAck(R, m) = a
                                    THEN <<r.sub, CHOOSE m \in R : FreshAck(R, m) = a>>
                                    ELSE issued[a]]
  BY DEF claim_rows
<1>2. /\ R \subseteq Msgs /\ \A m \in R : d[<<r.sub, m>>].state = "available"
      /\ \/ Cardinality(R) <= r.count /\ Bytes(R) <= r.bytes
         \/ Cardinality(R) = 1 \/ R = {}
  BY <1>1, SelectionFacts
<1> HIDE DEF d, C
<1>3. nextAck \in 1..(MaxAcks + 1) /\ nextAck \in Nat
  BY ConstantFacts DEF TypeOK
<1> DEFINE n == Cardinality(R)
           top == nextAck + n - 1
<1>4. /\ IsFiniteSet(R) /\ n \in Nat
      /\ \A m \in R : FreshAck(R, m) \in nextAck..top
      /\ \A m, k \in R : FreshAck(R, m) = FreshAck(R, k) => m = k
  BY <1>2, <1>3, FreshFacts
<1>5. \A k \in Keys :
        IF k[1] = r.sub /\ k[2] \in R
        THEN /\ d[k].state = "available"
             /\ deliveries'[k] = Leased(FreshAck(R, k[2]), r.now + AckDeadline)
        ELSE deliveries'[k] = d[k]
  BY <1>1, <1>2 DEF Keys
<1>6. \A a \in nextAck..top : a \in Acks /\ a \in Int
  BY <1>1, <1>3, <1>4, ConstantFacts DEF Acks
<1> HIDE DEF top
<1>7. ASSUME NEW m \in R PROVE issued'[FreshAck(R, m)] = <<r.sub, m>>
  <2> DEFINE a == FreshAck(R, m)
  <2>1. a \in Acks
    BY <1>4, <1>6
  <2>2. (CHOOSE k \in R : FreshAck(R, k) = a) = m
    BY <1>4
  <2> HIDE DEF a
  <2>3. \E k \in R : FreshAck(R, k) = a
    BY DEF a
  <2>4. issued'[a] = <<r.sub, m>>
    BY <1>1, <2>1, <2>2, <2>3
  <2> QED BY <2>4 DEF a
<1>8. ASSUME NEW a \in nextAck..top PROVE \E m \in R : FreshAck(R, m) = a
  <2> DEFINE fr == [m \in R |-> FreshAck(R, m)]
             I == {fr[m] : m \in R}
  <2>1. \A m \in R : fr[m] = FreshAck(R, m) /\ fr[m] \in nextAck..top
    BY <1>4
  <2>2. \A m, k \in R : fr[m] = fr[k] => m = k
    BY <1>4
  <2> HIDE DEF fr
  <2>3. IsFiniteSet(I) /\ Cardinality(I) = n
    BY <1>4, <2>2, CardinalityImage
  <2>4. IsFiniteSet(nextAck..top) /\ Cardinality(nextAck..top) = n
    <3> HIDE DEF n
    <3>1. top \in Int /\ nextAck \in Int /\ (nextAck > top <=> n = 0) /\ top - nextAck + 1 = n
      BY <1>3, <1>4 DEF top
    <3>2. /\ IsFiniteSet(nextAck..top)
          /\ Cardinality(nextAck..top) = IF nextAck > top THEN 0 ELSE top - nextAck + 1
      BY <3>1, FS_Interval
    <3> QED BY <3>1, <3>2
  <2>5. I \in SUBSET (nextAck..top)
    BY <2>1
  <2> HIDE DEF I
  <2>6. I = nextAck..top
    BY <2>3, <2>4, <2>5, FS_Subset
  <2> QED BY <2>1, <2>6 DEF I
<1>9. ASSUME NEW a \in Issued PROVE issued'[a] = issued[a]
  <2>1. a \in Acks /\ a \notin nextAck..top
    BY <1>3, ConstantFacts DEF Issued, Acks
  <2>2. \A m \in R : FreshAck(R, m) # a
    BY <1>4, <2>1
  <2> QED BY <1>1, <2>1, <2>2
<1>10. Claimed(r, R)
  BY <1>1, <1>2, <1>4, <1>5, <1>7, <1>8, <1>9 DEF Claimed, d, top
<1> QED BY <1>10

-----------------------------------------------------------------------------
(* Rows and messages.                                                      *)

\* Every row of the table d has its message in e and its subscription in st,
\* every message has a row.
RowsOK(d, e, st) ==
  /\ \A k \in Keys : d[k].state # "none" => e[k[2]] # 0 /\ st[k[1]] # "none"
  /\ \A m \in Msgs : e[m] # 0 => \E k \in Keys : k[2] = m /\ d[k].state # "none"

LEMMA RowsFacts ==
  ASSUME TypeOK
  PROVE  NoOrphans <=> RowsOK(deliveries, expiry, subTopic)
<1>1. \A s \in Subs : subTopic[s] \in topics \cup {"none", "deleted"}
  BY DEF TypeOK
<1>2. \A k \in Keys : k[1] \in Subs /\ k[2] \in Msgs
  BY DEF Keys
<1> QED BY <1>1, <1>2 DEF NoOrphans, RowsOK, Present, messages, Exists

\* The same of the next state.
LEMMA RowsFactsNext ==
  ASSUME TypeOK', RowsOK(deliveries', expiry', subTopic')
  PROVE  NoOrphans'
<1>1. \A s \in Subs : subTopic'[s] \in topics' \cup {"none", "deleted"}
  BY DEF TypeOK
<1>2. \A k \in Keys : k[1] \in Subs /\ k[2] \in Msgs
  BY DEF Keys
<1> QED BY <1>1, <1>2 DEF NoOrphans, RowsOK, Present, messages, Exists

\* Cleaning up leaves every row its message, and no message without a row.
LEMMA CleanRows ==
  ASSUME RowsOK(deliveries, expiry, subTopic), NEW now
  PROVE  RowsOK(cleanup(now), Without(Expired(now)), subTopic)
<1>1. \A k \in Keys : k[2] \in Msgs
  BY DEF Keys
<1>2. \A k \in Keys : cleanup(now)[k] = IF k[2] \in Expired(now) THEN NoDelivery ELSE deliveries[k]
  BY DEF cleanup
<1>3. \A m \in Msgs : Without(Expired(now))[m] = IF m \in Expired(now) THEN 0 ELSE expiry[m]
  BY DEF Without
<1> QED BY <1>1, <1>2, <1>3, RowFacts DEF RowsOK

\* A lease that is taken back leaves its row.
LEMMA ReturnedFacts ==
  ASSUME NEW d, NEW s, NEW now
  PROVE  \A k \in Keys :
           /\ Returned(d, s, now)[k].state = "none" <=> d[k].state = "none"
           /\ \/ Returned(d, s, now)[k] = d[k]
              \/ /\ Returned(d, s, now)[k] = Available /\ d[k].state = "in_flight"
                 /\ d[k].deadline <= now
BY RowFacts DEF Returned

\* The messages that no row needs go with the rows that are removed.
LEMMA NeededRows ==
  ASSUME RowsOK(deliveries, expiry, subTopic), NEW d, NEW st,
         \A k \in Keys : d[k].state # "none" => deliveries[k].state # "none" /\ st[k[1]] # "none"
  PROVE  RowsOK(d, Needed(d), st)
<1>1. \A m \in Msgs : Needed(d)[m] = IF \A k \in Keys : d[k].state # "none" => k[2] # m
                                    THEN 0 ELSE expiry[m]
  BY DEF Needed, Without, Present
<1>2. \A k \in Keys : k[2] \in Msgs
  BY DEF Keys
<1> QED BY <1>1, <1>2 DEF RowsOK

\* A fan-out gives every new message its rows.
LEMMA PublishedRows ==
  ASSUME RowsOK(deliveries, expiry, subTopic), NEW now \in Nat, NEW n \in Nat \ {0},
         NEW fanout \in SUBSET Subs, fanout # {}, \A s \in fanout : Exists(s),
         Published(now, n, fanout), TypeOK
  PROVE  RowsOK(deliveries', expiry', subTopic)
<1> DEFINE new == nextMsg..(nextMsg + n - 1)
           d == cleanup(now)
           e == Without(Expired(now))
<1>1. /\ new \subseteq Msgs
      /\ \A k \in Keys : deliveries'[k] = IF k[1] \in fanout /\ k[2] \in new THEN Available ELSE d[k]
      /\ \A m \in Msgs : expiry'[m] = IF m \in new THEN now + Retention ELSE e[m]
  BY DEF Published
<1>2. RowsOK(d, e, subTopic)
  BY CleanRows
<1>3. now + Retention # 0
  BY ConstantFacts
<1> HIDE DEF d, e, new
<1>4. \A s \in fanout : subTopic[s] # "none"
  BY DEF Exists
<1>5. ASSUME NEW k \in Keys, deliveries'[k].state # "none"
      PROVE  expiry'[k[2]] # 0 /\ subTopic[k[1]] # "none"
  <2>1. k[2] \in Msgs
    BY DEF Keys
  <2> QED BY <1>1, <1>2, <1>3, <1>4, <1>5, <2>1 DEF RowsOK
<1>6. ASSUME NEW m \in Msgs, expiry'[m] # 0
      PROVE  \E k \in Keys : k[2] = m /\ deliveries'[k].state # "none"
  <2>1. CASE m \in new
    <3>1. PICK s \in fanout : TRUE
      OBVIOUS
    <3>2. <<s, m>> \in Keys /\ <<s, m>>[1] = s /\ <<s, m>>[2] = m
      BY DEF Keys
    <3> QED BY <1>1, <2>1, <3>1, <3>2, RowFacts
  <2>2. CASE m \notin new
    <3>1. PICK k \in Keys : k[2] = m /\ d[k].state # "none"
      BY <1>1, <1>2, <1>6, <2>2 DEF RowsOK
    <3> QED BY <1>1, <2>2, <3>1
  <2> QED BY <2>1, <2>2
<1> QED BY <1>5, <1>6 DEF RowsOK

\* A claim removes no row but those of expired messages.
LEMMA ClaimedRows ==
  ASSUME RowsOK(deliveries, expiry, subTopic), TypeOK, NEW r, r.now \in Nat, NEW R, Claimed(r, R)
  PROVE  RowsOK(deliveries', expiry', subTopic)
<1> DEFINE c == cleanup(r.now)
           d == Returned(c, r.sub, r.now)
<1>1. RowsOK(c, expiry', subTopic)
  BY CleanRows DEF Claimed
<1>2. \A k \in Keys : d[k].state = "none" <=> c[k].state = "none"
  BY ReturnedFacts
<1>3. nextAck \in Nat /\ r.now + AckDeadline \in Nat
  BY ConstantFacts DEF TypeOK
<1>4. \A m \in R : FreshAck(R, m) \in Nat
  BY <1>3 DEF Claimed
<1>5. \A k \in Keys : IF k[1] = r.sub /\ k[2] \in R
                      THEN d[k].state = "available" /\ deliveries'[k].state = "in_flight"
                      ELSE deliveries'[k] = d[k]
  BY <1>3, <1>4, RowFacts DEF Claimed
<1> HIDE DEF c, d
<1>6. \A k \in Keys : deliveries'[k].state = "none" <=> c[k].state = "none"
  BY <1>2, <1>5
<1> QED BY <1>1, <1>6 DEF RowsOK

\* No step leaves a row without its message or a message without a row.
LEMMA NoOrphansStep ==
  ASSUME IInv, Next
  PROVE  NoOrphans'
<1>t. /\ TypeOK /\ TypeOK' /\ RowsOK(deliveries, expiry, subTopic)
      /\ subTopic \in [Subs -> topics \cup {"none", "deleted"}]
  BY RowsFacts, TypeStep DEF IInv, TypeOK
<1> SUFFICES RowsOK(deliveries', expiry', subTopic')
  BY <1>t, RowsFactsNext
<1>k. \A k \in Keys : k[1] \in Subs /\ k[2] \in Msgs
  BY DEF Keys
<1>1. ASSUME UNCHANGED <<subTopic, expiry, deliveries>> PROVE RowsOK(deliveries', expiry', subTopic')
  BY <1>1, <1>t
<1>2. ASSUME UNCHANGED <<expiry, deliveries>>,
             \A s \in Subs : subTopic[s] # "none" => subTopic'[s] # "none"
      PROVE  RowsOK(deliveries', expiry', subTopic')
  BY <1>2, <1>k, <1>t DEF RowsOK
<1>3. ASSUME NEW t \in Topics, create_topic(t) \/ delete_topic(t)
      PROVE  RowsOK(deliveries', expiry', subTopic')
  <2>1. \A s \in Subs : subTopic[s] # "none" => subTopic'[s] # "none"
    BY <1>3 DEF create_topic, delete_topic
  <2> QED BY <1>2, <1>3, <2>1 DEF create_topic, delete_topic
<1>4. ASSUME NEW s \in Subs, NEW t \in Topics, create_subscription(s, t)
      PROVE  RowsOK(deliveries', expiry', subTopic')
  <2>1. \A u \in Subs : subTopic[u] # "none" => subTopic'[u] # "none"
    BY <1>4, <1>t, ConstantFacts DEF create_subscription
  <2> QED BY <1>2, <1>4, <2>1 DEF create_subscription
<1>5. ASSUME NEW s \in Subs, delete_subscription(s)
      PROVE  RowsOK(deliveries', expiry', subTopic')
  <2> DEFINE d == [k \in Keys |-> IF k[1] = s THEN NoDelivery ELSE deliveries[k]]
  <2>1. deliveries' = d /\ expiry' = Needed(d)
    BY <1>5 DEF delete_subscription
  <2>2. \A k \in Keys : d[k].state # "none" => deliveries[k].state # "none" /\ k[1] # s
    BY RowFacts
  <2>3. \A u \in Subs : u # s => subTopic'[u] = subTopic[u]
    BY <1>5, <1>t DEF delete_subscription
  <2> HIDE DEF d
  <2>4. \A k \in Keys : d[k].state # "none" => deliveries[k].state # "none" /\ subTopic'[k[1]] # "none"
    BY <1>k, <1>t, <2>2, <2>3 DEF RowsOK
  <2> QED BY <1>t, <2>1, <2>4, NeededRows
<1>6. ASSUME NEW c \in Actors, acknowledge_ids(c)
      PROVE  RowsOK(deliveries', expiry', subTopic')
  <2> DEFINE N == Named(req[c].sub, req[c].acks)
             d == [k \in Keys |-> IF k \in N THEN NoDelivery ELSE deliveries[k]]
  <2>1. deliveries' = d /\ expiry' = Needed(d) /\ subTopic' = subTopic
    BY <1>6 DEF acknowledge_ids, acknowledge_rows
  <2>2. \A k \in Keys : d[k].state # "none" => deliveries[k].state # "none" /\ subTopic[k[1]] # "none"
    BY <1>t, RowFacts DEF RowsOK
  <2> HIDE DEF d
  <2> QED BY <1>t, <2>1, <2>2, NeededRows
<1>7. ASSUME NEW c \in Actors, publish_values(c)
      PROVE  RowsOK(deliveries', expiry', subTopic')
  BY <1>1, <1>7, <1>t, CleanRows, PublishCases, PublishedRows
<1>8. ASSUME NEW c \in Actors, req[c].op = "claim", claim_rows(req[c]),
             UNCHANGED <<topics, subTopic, nextMsg>>
      PROVE  RowsOK(deliveries', expiry', subTopic')
  <2>1. req[c].sub \in Subs /\ req[c].now \in Nat
    BY <1>8, <1>t, RequestFacts
  <2>2. PICK R : Claimed(req[c], R)
    BY <1>8, <1>t, <2>1, ClaimFacts
  <2> QED BY <1>8, <1>t, <2>1, <2>2, ClaimedRows
<1>9. ASSUME NEW s, NEW A, NEW now \in Nat, NEW q \in Nat, modify_rows(s, A, now, q),
             UNCHANGED <<topics, subTopic, expiry, nextMsg, nextAck, issued>>
      PROVE  RowsOK(deliveries', expiry', subTopic')
  <2>1. \A k \in Keys : deliveries[k].ack \in Nat
    BY <1>t DEF TypeOK, Delivery
  <2>2. \A k \in Keys : deliveries'[k].state = "none" <=> deliveries[k].state = "none"
    BY <1>9, <2>1, RowFacts DEF modify_rows, Named
  <2> QED BY <1>9, <1>t, <2>2 DEF RowsOK
<1> QED BY <1>1, <1>3, <1>4, <1>5, <1>6, <1>7, <1>8, <1>9, NextCases DEF tables

-----------------------------------------------------------------------------
(* Ack ids.                                                                *)

\* The row r of the key k has the id that iss tells for k, one below next.
RowNamed(r, k, iss, next) ==
  IF r.state = "in_flight" THEN r.ack \in 1..(next - 1) /\ iss[r.ack] = k ELSE r.ack = 0

\* The ids below the next one when n more were issued.
LEMMA IdsBelow ==
  ASSUME NEW next \in Nat \ {0}, NEW n \in Nat, NEW next1, next1 = next + n
  PROVE  /\ next1 \in Nat \ {0} /\ next <= next1
         /\ 1..(next1 - 1) = 1..(next - 1) \cup next..(next + n - 1)
         /\ next..(next1 - 1) = next..(next + n - 1)
OBVIOUS

\* A row keeps its id while others are issued.
LEMMA RowNamedLater ==
  ASSUME NEW r, NEW k, NEW iss, NEW next \in Nat, RowNamed(r, k, iss, next),
         NEW iss1, NEW next1 \in Nat, next <= next1, \A a \in 1..(next - 1) : iss1[a] = iss[a]
  PROVE  RowNamed(r, k, iss1, next1)
BY DEF RowNamed

\* Ids are not given out twice, and a row is not given the id of another.
LEMMA AckStep ==
  ASSUME IInv, Next
  PROVE  AckNamesItsRow'
<1>t. TypeOK /\ nextAck \in Nat \ {0} /\ \A k \in Keys : RowNamed(deliveries[k], k, issued, nextAck)
  BY ConstantFacts DEF IInv, AckNamesItsRow, RowNamed, Issued, TypeOK
<1> SUFFICES \A k \in Keys : RowNamed(deliveries'[k], k, issued', nextAck')
  BY DEF AckNamesItsRow, RowNamed, Issued
<1>n. \A k : RowNamed(NoDelivery, k, issued, nextAck) /\ RowNamed(Available, k, issued, nextAck)
  BY RowFacts DEF RowNamed
<1>c. ASSUME NEW now, NEW k \in Keys
      PROVE  RowNamed(cleanup(now)[k], k, issued, nextAck)
  <2>1. cleanup(now)[k] = NoDelivery \/ cleanup(now)[k] = deliveries[k]
    BY DEF cleanup
  <2> QED BY <1>n, <1>t, <2>1
<1>1. ASSUME UNCHANGED <<nextAck, issued>>,
             \A k \in Keys : deliveries'[k] \in {deliveries[k], NoDelivery, Available}
      PROVE  \A k \in Keys : RowNamed(deliveries'[k], k, issued', nextAck')
  BY <1>1, <1>n, <1>t
<1>2. ASSUME UNCHANGED <<nextAck, issued, deliveries>>
      PROVE  \A k \in Keys : RowNamed(deliveries'[k], k, issued', nextAck')
  BY <1>2, <1>t
<1>3. ASSUME NEW s \in Subs, delete_subscription(s)
      PROVE  \A k \in Keys : RowNamed(deliveries'[k], k, issued', nextAck')
  BY <1>1, <1>3 DEF delete_subscription
<1>4. ASSUME NEW c \in Actors, acknowledge_ids(c)
      PROVE  \A k \in Keys : RowNamed(deliveries'[k], k, issued', nextAck')
  BY <1>1, <1>4 DEF acknowledge_ids, acknowledge_rows
<1>5. ASSUME NEW c \in Actors, publish_values(c)
      PROVE  \A k \in Keys : RowNamed(deliveries'[k], k, issued', nextAck')
  <2>1. UNCHANGED <<nextAck, issued>>
    BY <1>5, <1>t, PublishCases
  <2>2. ASSUME NEW n, NEW fanout, Published(req[c].now, n, fanout), NEW k \in Keys
        PROVE  RowNamed(deliveries'[k], k, issued, nextAck)
    <3>1. deliveries'[k] = Available \/ deliveries'[k] = cleanup(req[c].now)[k]
      BY <2>2 DEF Published
    <3> QED BY <1>c, <1>n, <3>1
  <2> QED BY <1>5, <1>c, <1>t, <2>1, <2>2, PublishCases
<1>6. ASSUME NEW c \in Actors, req[c].op = "claim", claim_rows(req[c])
      PROVE  \A k \in Keys : RowNamed(deliveries'[k], k, issued', nextAck')
  <2> DEFINE r == req[c]
             d == Returned(cleanup(r.now), r.sub, r.now)
  <2>1. r.sub \in Subs /\ r.now \in Nat /\ r.now + AckDeadline \in Nat
    BY <1>6, <1>t, ConstantFacts, RequestFacts
  <2>2. PICK R : Claimed(r, R)
    BY <1>6, <1>t, <2>1, ClaimFacts
  <2>3. \A k \in Keys : RowNamed(d[k], k, issued, nextAck)
    BY <1>c, <1>n, ReturnedFacts
  <2>4. \A k \in Keys : RowNamed(d[k], k, issued', nextAck')
    <3>1. nextAck' = nextAck + Cardinality(R) /\ Cardinality(R) \in Nat
      BY <2>2 DEF Claimed
    <3>2. \A a \in 1..(nextAck - 1) : issued'[a] = issued[a]
      BY <2>2 DEF Claimed, Issued
    <3>3. nextAck' \in Nat /\ nextAck <= nextAck' /\ nextAck \in Nat
      BY <1>t, <3>1
    <3> HIDE DEF d
    <3> QED BY <2>3, <3>2, <3>3, RowNamedLater
  <2>5. ASSUME NEW k \in Keys, k[1] = r.sub, k[2] \in R
        PROVE  RowNamed(deliveries'[k], k, issued', nextAck')
    <3> DEFINE a == FreshAck(R, k[2])
    <3>1. /\ deliveries'[k] = Leased(a, r.now + AckDeadline)
          /\ a \in nextAck..(nextAck + Cardinality(R) - 1) /\ issued'[a] = <<r.sub, k[2]>>
          /\ nextAck' = nextAck + Cardinality(R) /\ Cardinality(R) \in Nat
      BY <2>2, <2>5 DEF Claimed
    <3>2. k = <<r.sub, k[2]>>
      BY <2>5 DEF Keys
    <3> HIDE DEF a
    <3>3. a \in Nat /\ a \in 1..(nextAck + Cardinality(R) - 1)
      BY <1>t, <3>1
    <3>4. deliveries'[k].state = "in_flight" /\ deliveries'[k].ack = a
      BY <2>1, <3>1, <3>3, RowFacts
    <3>5. a \in 1..(nextAck' - 1)
      BY <1>t, <3>1, IdsBelow
    <3>6. issued'[a] = k
      BY <3>1, <3>2
    <3> QED BY <3>4, <3>5, <3>6 DEF RowNamed
  <2>6. \A k \in Keys : ~(k[1] = r.sub /\ k[2] \in R) => deliveries'[k] = d[k]
    BY <2>2 DEF Claimed
  <2> HIDE DEF d, r
  <2> QED BY <2>4, <2>5, <2>6
<1>7. ASSUME NEW s, NEW A \in SUBSET Acks, NEW now \in Nat, NEW q \in Nat, modify_rows(s, A, now, q),
             UNCHANGED <<topics, subTopic, expiry, nextMsg, nextAck, issued>>
      PROVE  \A k \in Keys : RowNamed(deliveries'[k], k, issued', nextAck')
  <2> SUFFICES ASSUME NEW k \in Keys PROVE RowNamed(deliveries'[k], k, issued, nextAck)
    BY <1>7
  <2>1. CASE k \notin Named(s, A)
    BY <1>7, <1>t, <2>1 DEF modify_rows
  <2>2. CASE k \in Named(s, A) /\ q = 0
    BY <1>7, <1>n, <2>2 DEF modify_rows
  <2>3. CASE k \in Named(s, A) /\ q # 0
    <3>1. deliveries[k].ack # 0 /\ deliveries[k].ack \in Nat
      BY <1>t, <2>3, IssuedFacts DEF Named, TypeOK, Delivery
    <3>2. deliveries[k].state = "in_flight"
      BY <1>t, <3>1 DEF RowNamed
    <3>3. deliveries'[k] = Leased(deliveries[k].ack, now + q)
      BY <1>7, <2>3 DEF modify_rows
    <3>4. deliveries'[k].state = "in_flight" /\ deliveries'[k].ack = deliveries[k].ack
      BY <3>1, <3>3, RowFacts
    <3> QED BY <1>t, <3>2, <3>4 DEF RowNamed
  <2> QED BY <2>1, <2>2, <2>3
<1>8. ASSUME NEW t \in Topics, create_topic(t) \/ delete_topic(t) \/ \E s \in Subs : create_subscription(s, t)
      PROVE  \A k \in Keys : RowNamed(deliveries'[k], k, issued', nextAck')
  BY <1>2, <1>8 DEF create_topic, delete_topic, create_subscription
<1> QED BY <1>2, <1>3, <1>4, <1>5, <1>6, <1>7, <1>8, NextCases DEF tables

\* Stored messages and issued ids have smaller numbers than the next ones.
LEMMA TableNumbersStep ==
  ASSUME IInv, Next
  PROVE  /\ \A m \in Msgs : expiry'[m] # 0 => m < nextMsg'
         /\ \A a \in 1..(nextAck' - 1) : issued'[a] \in Keys
         /\ nextAck' \in Nat /\ nextAck <= nextAck' /\ nextMsg <= nextMsg'
         /\ \A a \in Issued : issued'[a] = issued[a]
<1>t. /\ TypeOK /\ nextAck \in Nat \ {0} /\ nextMsg \in Nat \ {0} /\ Msgs \subseteq Nat
      /\ \A m \in Msgs : expiry[m] # 0 => m < nextMsg
      /\ \A a \in 1..(nextAck - 1) : issued[a] \in Keys
  BY ConstantFacts DEF IInv, TypeOK, NumbersOK, messages, Issued, Msgs
<1> DEFINE Goal == /\ \A m \in Msgs : expiry'[m] # 0 => m < nextMsg'
                   /\ \A a \in 1..(nextAck' - 1) : issued'[a] \in Keys
                   /\ nextAck' \in Nat /\ nextAck <= nextAck' /\ nextMsg <= nextMsg'
                   /\ \A a \in Issued : issued'[a] = issued[a]
<1>w. \A S : \A m \in Msgs : Without(S)[m] # 0 => expiry[m] # 0
  BY DEF Without
<1>d. \A d : \A m \in Msgs : Needed(d)[m] # 0 => expiry[m] # 0
  BY DEF Needed, Without
<1>1. ASSUME UNCHANGED <<nextMsg, nextAck, issued>>,
             \A m \in Msgs : expiry'[m] # 0 => expiry[m] # 0
      PROVE  Goal
  BY <1>1, <1>t
<1>2. ASSUME NEW s \in Subs, delete_subscription(s) PROVE Goal
  BY <1>1, <1>2, <1>d DEF delete_subscription
<1>3. ASSUME NEW c \in Actors, acknowledge_ids(c) PROVE Goal
  BY <1>1, <1>3, <1>d DEF acknowledge_ids, acknowledge_rows
<1>4. ASSUME NEW c \in Actors, publish_values(c) PROVE Goal
  <2>1. UNCHANGED <<nextAck, issued>>
    BY <1>4, <1>t, PublishCases
  <2>2. ASSUME NEW n \in Nat \ {0}, NEW fanout, Published(req[c].now, n, fanout) PROVE Goal
    <3>1. nextMsg' = nextMsg + n
      BY <2>2 DEF Published
    <3>2. ASSUME NEW m \in Msgs, expiry'[m] # 0 PROVE m < nextMsg'
      <4>1. m \in nextMsg..(nextMsg + n - 1) \/ Without(Expired(req[c].now))[m] # 0
        BY <2>2, <3>2 DEF Published
      <4>2. CASE m \in nextMsg..(nextMsg + n - 1)
        BY <1>t, <3>1, <4>2
      <4>3. CASE Without(Expired(req[c].now))[m] # 0
        <5>1. expiry[m] # 0
          BY <1>w, <4>3
        <5>2. m < nextMsg /\ m \in Nat
          BY <1>t, <5>1
        <5> QED BY <1>t, <3>1, <5>2
      <4> QED BY <4>1, <4>2, <4>3
    <3>3. nextMsg <= nextMsg'
      BY <1>t, <3>1
    <3>4. \A a \in 1..(nextAck' - 1) : issued'[a] \in Keys
      BY <1>t, <2>1
    <3> QED BY <1>t, <2>1, <3>2, <3>3, <3>4
  <2>3. ASSUME UNCHANGED <<deliveries, expiry, nextMsg>> PROVE Goal
    BY <1>1, <2>1, <2>3
  <2>4. ASSUME expiry' = Without(Expired(req[c].now)), UNCHANGED nextMsg PROVE Goal
    BY <1>1, <1>w, <2>1, <2>4
  <2> HIDE DEF Goal
  <2> QED BY <1>4, <1>t, <2>2, <2>3, <2>4, PublishCases
<1>5. ASSUME NEW c \in Actors, req[c].op = "claim", claim_rows(req[c]),
             UNCHANGED <<topics, subTopic, nextMsg>>
      PROVE  Goal
  <2>1. req[c].sub \in Subs /\ req[c].now \in Nat
    BY <1>5, <1>t, RequestFacts
  <2>2. PICK R : Claimed(req[c], R)
    BY <1>5, <1>t, <2>1, ClaimFacts
  <2>3. /\ nextAck' = nextAck + Cardinality(R) /\ Cardinality(R) \in Nat /\ R \subseteq Msgs
        /\ \A a \in 1..(nextAck - 1) : issued'[a] = issued[a]
        /\ \A m \in R : issued'[FreshAck(R, m)] = <<req[c].sub, m>>
        /\ \A a \in nextAck..(nextAck + Cardinality(R) - 1) : \E m \in R : FreshAck(R, m) = a
        /\ expiry' = Without(Expired(req[c].now))
    BY <2>2 DEF Claimed, Issued
  <2>4. ASSUME NEW a \in 1..(nextAck' - 1) PROVE issued'[a] \in Keys
    <3>1. CASE a \in 1..(nextAck - 1)
      BY <1>t, <2>3, <3>1
    <3>2. CASE a \in nextAck..(nextAck + Cardinality(R) - 1)
      <4>1. PICK m \in R : FreshAck(R, m) = a
        BY <2>3, <3>2
      <4>2. issued'[a] = <<req[c].sub, m>> /\ m \in Msgs
        BY <2>3, <4>1
      <4> QED BY <2>1, <4>2 DEF Keys
    <3>3. a \in 1..(nextAck - 1) \/ a \in nextAck..(nextAck + Cardinality(R) - 1)
      BY <1>t, <2>3, IdsBelow
    <3> QED BY <3>1, <3>2, <3>3
  <2>5. \A m \in Msgs : expiry'[m] # 0 => m < nextMsg'
    BY <1>5, <1>t, <1>w, <2>3
  <2>6. nextAck' \in Nat /\ nextAck <= nextAck' /\ nextMsg <= nextMsg'
    BY <1>5, <1>t, <2>3
  <2>7. \A a \in Issued : issued'[a] = issued[a]
    BY <2>3 DEF Issued
  <2> QED BY <2>4, <2>5, <2>6, <2>7
<1>6. ASSUME NEW t \in Topics, create_topic(t) \/ delete_topic(t) \/ \E s \in Subs : create_subscription(s, t)
      PROVE  Goal
  BY <1>1, <1>6 DEF create_topic, delete_topic, create_subscription
<1>7. ASSUME UNCHANGED tables PROVE Goal
  BY <1>1, <1>7 DEF tables
<1>8. ASSUME UNCHANGED <<topics, subTopic, expiry, nextMsg, nextAck, issued>> PROVE Goal
  BY <1>1, <1>8
<1> HIDE DEF Goal
<1>9. Goal
  BY <1>2, <1>3, <1>4, <1>5, <1>6, <1>7, <1>8, NextCases
<1> QED BY <1>9 DEF Goal
-----------------------------------------------------------------------------
(* The calls and the streams.                                              *)

\* What a step does to one stream: nothing but the end of an answer to its client
\* or the loss of some ids; a move to "wait"; a refresh that leaves it room; the
\* call and the transaction of its claim; its end.
LEMMA StreamCases ==
  ASSUME IInv, Next, NEW y \in Streams
  PROVE  \/ /\ stream'[y] = stream[y] /\ streamSub'[y] = streamSub[y]
            /\ \/ req'[y] = req[y]
               \/ req[y].op \in {"ack", "modify"} /\ req'[y] = NoReq
            /\ outstanding'[y] \subseteq outstanding[y]
         \/ /\ stream'[y] = "wait" /\ streamSub'[y] \in Subs /\ req'[y].op # "claim"
            /\ outstanding'[y] \subseteq outstanding[y]
         \/ /\ stream'[y] = "claim" /\ streamSub'[y] \in Subs /\ req'[y] = NoReq
            /\ outstanding'[y] \subseteq outstanding[y] /\ HasBudget(outstanding'[y])
            /\ issued' = issued
         \/ CallStreamClaim(y)
         \/ StreamClaim(y)
         \/ stream'[y] = "closed" /\ req'[y] = NoReq /\ outstanding'[y] = {}
<1>t. /\ TypeOK /\ RequestsOK /\ req \in [Actors -> Request] /\ StreamsType /\ y \in Actors
      /\ setup \in Setups
  BY ConstantFacts DEF IInv, TypeOK, StreamsType
<1> DEFINE Same == /\ stream'[y] = stream[y] /\ streamSub'[y] = streamSub[y]
                   /\ \/ req'[y] = req[y]
                      \/ req[y].op \in {"ack", "modify"} /\ req'[y] = NoReq
                   /\ outstanding'[y] \subseteq outstanding[y]
           Waits == /\ stream'[y] = "wait" /\ streamSub'[y] \in Subs /\ req'[y].op # "claim"
                    /\ outstanding'[y] \subseteq outstanding[y]
           Room == /\ stream'[y] = "claim" /\ streamSub'[y] \in Subs /\ req'[y] = NoReq
                   /\ outstanding'[y] \subseteq outstanding[y] /\ HasBudget(outstanding'[y])
                   /\ issued' = issued
           Ends == stream'[y] = "closed" /\ req'[y] = NoReq /\ outstanding'[y] = {}
           Goal == Same \/ Waits \/ Room \/ CallStreamClaim(y) \/ StreamClaim(y) \/ Ends
<1>1. ASSUME NEW c \in Actors, c # y, NEW r, UNCHANGED streams, req' = [req EXCEPT ![c] = r]
      PROVE  Goal
  <2>1. Same
    BY <1>1, <1>t DEF streams
  <2> QED BY <2>1
<1>2. ASSUME UNCHANGED <<req, streams>> PROVE Goal
  <2>1. Same
    BY <1>2 DEF streams
  <2> QED BY <2>1
<1>3. ASSUME Restart PROVE Goal
  <2>1. Ends
    BY <1>3, <1>t DEF Restart
  <2> QED BY <2>1
<1>4. ASSUME NEW c \in Actors, acknowledge_ids(c) \/ modify_ack_ids(c) PROVE Goal
  <2>1. /\ Return(c) /\ stream' = stream /\ streamSub' = streamSub /\ \E A : Forget(c, A)
        /\ req[c].op \in {"ack", "modify"}
    BY <1>4 DEF acknowledge_ids, modify_ack_ids
  <2>2. outstanding'[y] \subseteq outstanding[y]
    BY <2>1 DEF Forget
  <2>3. req'[y] = req[y] \/ (req[y].op \in {"ack", "modify"} /\ req'[y] = NoReq)
    BY <1>t, <2>1 DEF Return
  <2>4. Same
    BY <2>1, <2>2, <2>3
  <2> QED BY <2>4
<1>5. ASSUME Admin \/ Tick PROVE Goal
  <2>1. UNCHANGED <<req, streams>>
    BY <1>5 DEF Admin, Tick, create_topic, delete_topic, create_subscription, delete_subscription
  <2> HIDE DEF Goal
  <2> QED BY <1>2, <2>1
<1>6. ASSUME NEW c \in Clients, Unary(c) PROVE Goal
  <2>1. c \in Actors /\ c # y
    BY ConstantFacts
  <2>2. \/ UNCHANGED streams /\ \E r : req' = [req EXCEPT ![c] = r]
        \/ acknowledge_ids(c) \/ modify_ack_ids(c)
    BY <1>6 DEF Unary, CallPublish, CallPull, CallAck, CallModify, CallDropped, Call, Return,
                publish_values, claim
  <2> HIDE DEF Goal
  <2> QED BY <1>1, <1>4, <2>1, <2>2
<1>7. ASSUME NEW x \in Streams, x # y, Streaming(x) PROVE Goal
  <2>1. x \in Actors
    BY ConstantFacts
  <2>2. CASE acknowledge_ids(x) \/ modify_ack_ids(x)
    <3> HIDE DEF Goal
    <3> QED BY <1>4, <2>1, <2>2
  <2>3. ASSUME \/ \E s \in Subs : StreamOpen(x, s)
               \/ StreamRefresh(x) \/ StreamClaim(x) \/ StreamEnd(x)
        PROVE  Same
    BY <1>7, <1>t, <2>1, <2>3 DEF StreamOpen, StreamRefresh, StreamClaim, StreamEnd, Return, StreamsType
  <2>4. ASSUME StreamRequest(x) \/ CallStreamClaim(x) PROVE Same
    BY <1>7, <1>t, <2>1, <2>4 DEF StreamRequest, CallStreamClaim, CallAck, CallModify, Call, streams
  <2>5. Streaming(x) => \/ acknowledge_ids(x) \/ modify_ack_ids(x)
                        \/ \E s \in Subs : StreamOpen(x, s)
                        \/ StreamRefresh(x) \/ StreamClaim(x) \/ StreamEnd(x)
                        \/ StreamRequest(x) \/ CallStreamClaim(x)
    BY DEF Streaming
  <2>6. Same => Goal
    OBVIOUS
  <2> HIDE DEF Goal, Same
  <2> QED BY <1>7, <2>2, <2>3, <2>4, <2>5, <2>6
<1>8. ASSUME Streaming(y) PROVE Goal
  <2>1. ASSUME NEW s \in Subs, StreamOpen(y, s) PROVE Waits
    BY <1>t, <2>1 DEF StreamOpen, StreamsType, RequestsOK
  <2>2. ASSUME StreamRequest(y) PROVE Waits
    <3>1. /\ stream[y] = "wait" /\ UNCHANGED streams /\ streamSub[y] \in Subs
          /\ \E r \in [op : {"ack"}, sub : {streamSub[y]}, acks : {{a} : a \in Issued}]
                 \cup [op : {"modify"}, sub : {streamSub[y]}, acks : {{a} : a \in Issued},
                       now : {clock}, seconds : Seconds] :
               req' = [req EXCEPT ![y] = r]
      BY <1>t, <2>2 DEF StreamRequest, CallAck, CallModify, Call, RequestsOK
    <3> QED BY <1>t, <3>1 DEF streams
  <2>3. ASSUME StreamRefresh(y) PROVE Waits \/ Room
    <3> DEFINE active == active_ack_ids(streamSub[y], outstanding[y])
    <3>1. /\ stream[y] = "wait" /\ streamSub[y] \in Subs /\ req[y] = NoReq
          /\ UNCHANGED <<req, streamSub>>
      BY <1>t, <2>3 DEF StreamRefresh, RequestsOK
    <3>2. /\ outstanding'[y] = active
          /\ stream'[y] = IF HasBudget(active) THEN "claim" ELSE "wait"
      BY <1>t, <2>3 DEF StreamRefresh, StreamsType
    <3>3. active \subseteq outstanding[y]
      BY DEF active_ack_ids
    <3>4. issued' = issued
      BY <2>3 DEF StreamRefresh, tables
    <3>5. NoReq.op # "claim"
      BY DEF NoReq
    <3> HIDE DEF active
    <3> QED BY <3>1, <3>2, <3>3, <3>4, <3>5
  <2>4. ASSUME acknowledge_ids(y) \/ modify_ack_ids(y) PROVE Goal
    <3> HIDE DEF Goal
    <3> QED BY <1>4, <1>t, <2>4
  <2>5. ASSUME StreamEnd(y) PROVE Ends
    BY <1>t, <2>5 DEF StreamEnd, Return, StreamsType
  <2>6. Waits \/ Room \/ CallStreamClaim(y) \/ StreamClaim(y) \/ Ends => Goal
    OBVIOUS
  <2> HIDE DEF Goal, Waits, Room, Ends
  <2> QED BY <1>8, <2>1, <2>2, <2>3, <2>4, <2>5, <2>6 DEF Streaming
<1> HIDE DEF Goal
<1>9. Goal
  BY <1>2, <1>3, <1>5, <1>6, <1>7, <1>8, <1>t, ConstantFacts DEF Next
<1> QED BY <1>9 DEF Goal

\* Numbers in use stay below the next ones.
LEMMA NumbersStep ==
  ASSUME IInv, Next
  PROVE  NumbersOK'
<1>t. /\ TypeOK /\ NumbersOK /\ TypeOK' /\ nextAck \in Nat \ {0}
  BY TypeStep, ConstantFacts DEF IInv, TypeOK
<1>1. /\ \A m \in Msgs : expiry'[m] # 0 => m < nextMsg'
      /\ \A a \in 1..(nextAck' - 1) : issued'[a] \in Keys
      /\ nextAck' \in Nat /\ nextAck <= nextAck'
  BY TableNumbersStep
<1>2. \A i, j \in Nat : i <= j => 1..(i - 1) \subseteq 1..(j - 1)
  OBVIOUS
<1>3. 1..(nextAck - 1) \subseteq 1..(nextAck' - 1)
  BY <1>1, <1>2, <1>t
<1>4. ASSUME NEW y \in Streams PROVE outstanding'[y] \subseteq 1..(nextAck' - 1)
  <2>0. outstanding[y] \subseteq 1..(nextAck - 1)
    BY <1>t DEF NumbersOK, Issued
  <2>1. ASSUME outstanding'[y] \subseteq outstanding[y]
        PROVE  outstanding'[y] \subseteq 1..(nextAck' - 1)
    BY <1>3, <2>0, <2>1
  <2>2. CASE CallStreamClaim(y)
    BY <2>1, <2>2 DEF CallStreamClaim, streams
  <2>3. CASE StreamClaim(y)
    <3>1. outstanding'[y] = outstanding[y] \cup nextAck..(nextAck' - 1)
      BY <1>t, <2>3 DEF StreamClaim, TypeOK
    <3>2. \A i \in Nat \ {0}, j \in Nat : i..(j - 1) \subseteq 1..(j - 1)
      OBVIOUS
    <3>3. nextAck..(nextAck' - 1) \subseteq 1..(nextAck' - 1)
      BY <1>1, <1>t, <3>2
    <3> QED BY <1>3, <2>0, <3>1, <3>3
  <2> QED BY <2>1, <2>2, <2>3, StreamCases
<1> QED BY <1>1, <1>4 DEF NumbersOK, messages, Issued

\* A call is unchanged, over, an acknowledgement, or has just read the clock.
LEMMA RequestCases ==
  ASSUME IInv, Next, NEW y \in Actors
  PROVE  /\ clock \in Nat /\ clock' \in Nat /\ clock <= clock'
         /\ req'[y] = req[y] \/ req'[y] = NoReq \/ req'[y].op = "ack" \/ req'[y].now = clock
<1>t. req \in [Actors -> Request] /\ clock \in Nat /\ setup \in Setups
  BY DEF IInv, TypeOK
<1> DEFINE Goal == req'[y] = req[y] \/ req'[y] = NoReq \/ req'[y].op = "ack" \/ req'[y].now = clock
           Slow == clock' = clock \/ clock' = clock + 1
<1>1. ASSUME NEW c \in Actors, NEW r, req' = [req EXCEPT ![c] = r],
             r = NoReq \/ r.op = "ack" \/ r.now = clock
      PROVE  Goal
  BY <1>1, <1>t
<1>2. ASSUME UNCHANGED req PROVE Goal
  BY <1>2
<1>3. ASSUME NEW c \in Actors, NEW s, NEW A, CallAck(c, s, A) \/ \E q \in Seconds : CallModify(c, s, A, q)
      PROVE  Goal /\ Slow
  <2>1. CASE CallAck(c, s, A)
    BY <1>t, <2>1 DEF CallAck, Call
  <2>2. CASE \E q \in Seconds : CallModify(c, s, A, q)
    BY <1>t, <2>2 DEF CallModify, Call
  <2> QED BY <1>3, <2>1, <2>2
<1>4. ASSUME NEW c \in Actors, Return(c) \/ req' = [req EXCEPT ![c] = NoReq], clock' = clock
      PROVE  Goal /\ Slow
  BY <1>4, <1>t DEF Return
<1>5. ASSUME Admin \/ Tick PROVE Goal /\ Slow
  BY <1>2, <1>5 DEF Admin, Tick, create_topic, delete_topic, create_subscription, delete_subscription
<1>6. ASSUME Restart PROVE Goal /\ Slow
  BY <1>6 DEF Restart
<1>7. ASSUME NEW c \in Actors, acknowledge_ids(c) \/ modify_ack_ids(c) PROVE Goal /\ Slow
  BY <1>4, <1>7 DEF acknowledge_ids, modify_ack_ids
<1>8. ASSUME NEW c \in Clients, Unary(c) PROVE Goal /\ Slow
  <2>0. c \in Actors
    BY ConstantFacts
  <2>1. ASSUME NEW t, NEW n, CallPublish(c, t, n) PROVE Goal /\ Slow
    BY <1>t, <2>0, <2>1 DEF CallPublish, Call
  <2>2. ASSUME NEW s, CallPull(c, s) PROVE Goal /\ Slow
    BY <1>t, <2>0, <2>2 DEF CallPull, Call
  <2>3. ASSUME CallDropped(c) \/ publish_values(c) \/ claim(c) PROVE Goal /\ Slow
    BY <1>4, <2>0, <2>3 DEF CallDropped, publish_values, claim
  <2> HIDE DEF Goal, Slow
  <2> QED BY <1>3, <1>7, <1>8, <2>0, <2>1, <2>2, <2>3 DEF Unary
<1>9. ASSUME NEW x \in Streams, Streaming(x) PROVE Goal /\ Slow
  <2>0. x \in Actors
    BY ConstantFacts
  <2>1. ASSUME NEW s, StreamOpen(x, s) PROVE Goal /\ Slow
    BY <1>2, <2>1 DEF StreamOpen
  <2>2. ASSUME StreamRefresh(x) PROVE Goal /\ Slow
    BY <1>2, <2>2 DEF StreamRefresh
  <2>3. ASSUME StreamClaim(x) \/ StreamEnd(x) PROVE Goal /\ Slow
    BY <1>4, <2>0, <2>3 DEF StreamClaim, StreamEnd
  <2>4. ASSUME CallStreamClaim(x) PROVE Goal /\ Slow
    BY <1>t, <2>0, <2>4 DEF CallStreamClaim, Call
  <2> HIDE DEF Goal, Slow
  <2>5. ASSUME StreamRequest(x) PROVE Goal /\ Slow
    BY <1>3, <2>0, <2>5 DEF StreamRequest
  <2> QED BY <1>7, <1>9, <2>0, <2>1, <2>2, <2>3, <2>4, <2>5 DEF Streaming
<1> HIDE DEF Goal, Slow
<1>10. Goal /\ Slow
  BY <1>5, <1>6, <1>8, <1>9, <1>t, ConstantFacts DEF Next
<1> QED BY <1>10, <1>t DEF Goal, Slow

\* What a waiting call and an open stream know stays true.
LEMMA RequestsStep ==
  ASSUME IInv, Next
  PROVE  RequestsOK'
<1>t. TypeOK /\ RequestsOK /\ TypeOK' /\ NoReq.op = "none"
  BY TypeStep DEF IInv, NoReq
<1>1. ASSUME NEW c \in Actors, req'[c].op \in {"publish", "claim", "modify"}
      PROVE  req'[c].now <= clock'
  <2>1. CASE req'[c] = req[c]
    <3>1. req[c].now \in Nat /\ req[c].now <= clock
      BY <1>1, <1>t, <2>1, RequestFacts DEF RequestsOK
    <3> QED BY <2>1, <3>1, RequestCases
  <2>2. CASE req'[c].now = clock
    BY <2>2, RequestCases
  <2> QED BY <1>1, <1>t, <2>1, <2>2, RequestCases
<1>2. ASSUME NEW x \in Streams
      PROVE  /\ stream'[x] = "claim" => req'[x].op \in {"none", "claim"}
             /\ req'[x].op = "claim" => stream'[x] = "claim"
             /\ stream'[x] # "closed" => streamSub'[x] \in Subs
  <2>0. /\ stream[x] = "claim" => req[x].op \in {"none", "claim"}
        /\ req[x].op = "claim" => stream[x] = "claim"
        /\ stream[x] # "closed" => streamSub[x] \in Subs
        /\ x \in Actors
    BY <1>t, ConstantFacts DEF RequestsOK
  <2>1. CASE CallStreamClaim(x)
    <3>1. /\ req'[x].op = "claim" /\ stream[x] = "claim" /\ UNCHANGED streams
      BY <1>t, <2>0, <2>1 DEF CallStreamClaim, Call, TypeOK
    <3> QED BY <2>0, <3>1 DEF streams
  <2>2. CASE StreamClaim(x)
    <3>1. /\ req'[x] = NoReq /\ stream'[x] = "wait" /\ stream[x] = "claim" /\ UNCHANGED streamSub
      BY <1>t, <2>0, <2>2 DEF StreamClaim, Return, TypeOK
    <3> QED BY <1>t, <2>0, <3>1
  <2> QED BY <1>t, <2>0, <2>1, <2>2, StreamCases
<1> QED BY <1>1, <1>2 DEF RequestsOK

-----------------------------------------------------------------------------
(* The backlog.                                                            *)

\* A table with fewer rows has fewer bytes.
LEMMA FewerRows ==
  ASSUME NEW d, NEW e, \A k \in Keys : d[k].state = "none" => e[k].state = "none"
  PROVE  /\ Cardinality(Present(d)) \in Nat /\ Cardinality(Present(e)) <= Cardinality(Present(d))
         /\ Usage(e) \in Nat /\ Usage(d) \in Nat /\ Usage(e) <= Usage(d)
<1> DEFINE S == Present(d)
           T == Present(e)
           w == [k \in Keys |-> Size[k[2]]]
<1>1. T \in SUBSET S
  BY DEF Present
<1>2. IsFiniteSet(S) /\ S \subseteq Keys
  BY FiniteFacts
<1>3. \A k \in Keys : w[k] \in Nat
  BY ConstantFacts DEF Keys
<1>4. Usage(e) = Total(w, T) /\ Usage(d) = Total(w, S) /\ Usage(d) \in Nat /\ Usage(e) \in Nat
  BY UsageFacts
<1> HIDE DEF S, T, w
<1>5. Cardinality(T) <= Cardinality(S)
  BY <1>1, <1>2, FS_Subset
<1>6. Cardinality(S) \in Nat
  BY <1>2, FS_CardinalityType
<1>7. Total(w, T) <= Total(w, S)
  BY <1>1, <1>2, <1>3, TotalSubset
<1> QED BY <1>4, <1>5, <1>6, <1>7 DEF S, T

\* A fan-out adds as many rows and bytes as HasRoom counted.
LEMMA PublishedBacklog ==
  ASSUME NEW now, NEW n, NEW fanout \in SUBSET Subs, Published(now, n, fanout),
         \A k \in Keys : k[2] \in nextMsg..(nextMsg + n - 1) => cleanup(now)[k].state = "none"
  PROVE  /\ Cardinality(Present(deliveries')) <= MaxPending
         /\ Usage(deliveries') <= MaxBytes
<1> DEFINE new == nextMsg..(nextMsg + n - 1)
           d == cleanup(now)
           S == Present(d)
           T == fanout \X new
           U == Present(deliveries')
           w == [k \in Keys |-> Size[k[2]]]
<1>1. /\ new \subseteq Msgs /\ HasRoom(d, fanout, new)
      /\ \A k \in Keys : deliveries'[k] = IF k[1] \in fanout /\ k[2] \in new THEN Available ELSE d[k]
  BY DEF Published
<1>2. IsFiniteSet(fanout) /\ IsFiniteSet(new)
  BY <1>1, FiniteFacts, FS_Subset
<1>3. T \subseteq Keys
  BY <1>1 DEF Keys
<1>4. U = S \cup T /\ S \cap T = {}
  <2> HIDE DEF new, d
  <2>1. \A k \in Keys : k \in T <=> k[1] \in fanout /\ k[2] \in new
    BY DEF Keys
  <2>2. \A k \in Keys : k \in U <=> deliveries'[k].state # "none"
    BY DEF Present
  <2>3. \A k \in Keys : k \in S <=> d[k].state # "none"
    BY DEF Present
  <2>4. U \subseteq Keys /\ S \subseteq Keys
    BY FiniteFacts
  <2>5. \A k \in T : d[k].state = "none"
    BY <1>3, <2>1 DEF new, d
  <2> HIDE DEF T, U, S
  <2>6. \A k \in Keys : k \in U <=> k \in S \/ k \in T
    BY <1>1, <2>1, <2>2, <2>3, RowFacts
  <2> QED BY <1>3, <2>3, <2>4, <2>5, <2>6
<1>5. IsFiniteSet(T) /\ Cardinality(T) = Cardinality(fanout) * Cardinality(new)
  <2> HIDE DEF new
  <2> QED BY <1>2, FS_Product
<1>6. \A k \in Keys : w[k] = Size[k[2]] /\ w[k] \in Nat
  BY ConstantFacts DEF Keys
<1>7. Bytes(new) = Total(Size, new) /\ \A m \in new : Size[m] \in Nat
  BY <1>1, BytesFacts, ConstantFacts
<1>8. Usage(d) = Total(w, S) /\ Usage(deliveries') = Total(w, U)
  BY UsageFacts
<1>9. IsFiniteSet(S) /\ S \subseteq Keys
  BY FiniteFacts
<1>10. /\ Cardinality(S) + Cardinality(fanout) * Cardinality(new) <= MaxPending
       /\ Usage(d) + Cardinality(fanout) * Bytes(new) <= MaxBytes
  BY <1>1 DEF HasRoom
<1> HIDE DEF S, U, w, d, new
<1>11. Total(w, T) = Cardinality(fanout) * Total(Size, new)
  <2>1. \A k \in fanout \X new : w[k] = Size[k[2]]
    BY <1>3, <1>6
  <2> QED BY <1>2, <1>7, <2>1, TotalProduct
<1> HIDE DEF T
<1>12. Total(w, U) = Total(w, S) + Total(w, T)
  BY <1>3, <1>4, <1>5, <1>6, <1>9, TotalUnion
<1>13. Cardinality(U) = Cardinality(S) + Cardinality(T)
  <2>1. /\ Cardinality(S \cup T) = Cardinality(S) + Cardinality(T) - Cardinality(S \cap T)
    BY <1>5, <1>9, FS_Union
  <2>2. Cardinality(S \cap T) = 0
    BY <1>4, FS_EmptySet
  <2>3. Cardinality(S) \in Nat /\ Cardinality(T) \in Nat
    BY <1>5, <1>9, FS_CardinalityType
  <2> QED BY <1>4, <2>1, <2>2, <2>3
<1>14. Cardinality(U) <= MaxPending
  BY <1>5, <1>10, <1>13
<1>15. Total(w, U) <= MaxBytes
  BY <1>7, <1>8, <1>10, <1>11, <1>12
<1> QED BY <1>8, <1>14, <1>15 DEF U

\* The backlog stays within its limits.
LEMMA BacklogStep ==
  ASSUME IInv, Next
  PROVE  BacklogBounded'
<1> DEFINE Goal == /\ Cardinality(Present(deliveries')) <= MaxPending
                   /\ Usage(deliveries') <= MaxBytes
<1>t. /\ TypeOK /\ NumbersOK /\ MaxPending \in Nat /\ MaxBytes \in Nat
      /\ Cardinality(Present(deliveries)) <= MaxPending /\ Usage(deliveries) <= MaxBytes
      /\ RowsOK(deliveries, expiry, subTopic)
  BY ConstantFacts, RowsFacts DEF IInv, BacklogBounded
<1>1. ASSUME \A k \in Keys : deliveries[k].state = "none" => deliveries'[k].state = "none" PROVE Goal
  <2> DEFINE d == deliveries'
  <2>1. \A k \in Keys : deliveries[k].state = "none" => d[k].state = "none"
    BY <1>1
  <2> HIDE DEF d
  <2>2. /\ Cardinality(Present(deliveries)) \in Nat /\ Usage(deliveries) \in Nat
        /\ Cardinality(Present(d)) <= Cardinality(Present(deliveries))
        /\ Usage(d) \in Nat /\ Usage(d) <= Usage(deliveries)
    BY <2>1, FewerRows
  <2>3. Cardinality(Present(d)) \in Nat
    BY FiniteFacts, FS_CardinalityType
  <2> QED BY <1>t, <2>2, <2>3 DEF d
<1>c. \A now : \A k \in Keys : deliveries[k].state = "none" => cleanup(now)[k].state = "none"
  BY RowFacts DEF cleanup
<1>2. ASSUME UNCHANGED deliveries PROVE Goal
  <2> HIDE DEF Goal
  <2> QED BY <1>1, <1>2
<1>3. ASSUME NEW s \in Subs, delete_subscription(s) PROVE Goal
  <2>1. \A k \in Keys : deliveries[k].state = "none" => deliveries'[k].state = "none"
    BY <1>3, RowFacts DEF delete_subscription
  <2> HIDE DEF Goal
  <2> QED BY <1>1, <2>1
<1>4. ASSUME NEW c \in Actors, acknowledge_ids(c) PROVE Goal
  <2>1. \A k \in Keys : deliveries[k].state = "none" => deliveries'[k].state = "none"
    BY <1>4, RowFacts DEF acknowledge_ids, acknowledge_rows
  <2> HIDE DEF Goal
  <2> QED BY <1>1, <2>1
<1>5. ASSUME NEW c \in Actors, publish_values(c) PROVE Goal
  <2>1. ASSUME NEW n \in Nat \ {0}, NEW fanout \in SUBSET Subs, Published(req[c].now, n, fanout)
        PROVE  Goal
    <3>1. \A k \in Keys : k[2] \in nextMsg..(nextMsg + n - 1) => cleanup(req[c].now)[k].state = "none"
      <4>1. SUFFICES ASSUME NEW k \in Keys, k[2] \in nextMsg..(nextMsg + n - 1)
                     PROVE  deliveries[k].state = "none"
        BY <1>c
      <4>2. nextMsg \in Nat /\ k[2] \in Msgs /\ k[2] \in Nat
        BY <1>t, ConstantFacts DEF TypeOK, Keys, Msgs
      <4>3. expiry[k[2]] # 0 => k[2] < nextMsg
        BY <1>t, <4>2 DEF NumbersOK, messages
      <4>4. expiry[k[2]] = 0
        BY <4>1, <4>2, <4>3
      <4> QED BY <1>t, <4>4 DEF RowsOK
    <3> QED BY <2>1, <3>1, PublishedBacklog
  <2>2. ASSUME deliveries' = cleanup(req[c].now) PROVE Goal
    <3> HIDE DEF Goal
    <3> QED BY <1>1, <1>c, <2>2
  <2> HIDE DEF Goal
  <2> QED BY <1>2, <1>5, <1>t, <2>1, <2>2, PublishCases
<1>6. ASSUME NEW c \in Actors, req[c].op = "claim", claim_rows(req[c]) PROVE Goal
  <2>1. req[c].sub \in Subs /\ req[c].now \in Nat /\ nextAck \in Nat
        /\ req[c].now + AckDeadline \in Nat
    BY <1>6, <1>t, ConstantFacts, RequestFacts DEF TypeOK
  <2>2. PICK R : Claimed(req[c], R)
    BY <1>6, <1>t, <2>1, ClaimFacts
  <2> DEFINE e == cleanup(req[c].now)
             d == Returned(e, req[c].sub, req[c].now)
  <2>3. \A k \in Keys : (d[k].state = "available" \/ d[k] = deliveries'[k])
    BY <2>2 DEF Claimed
  <2>4. \A k \in Keys : d[k].state = "none" <=> e[k].state = "none"
    BY ReturnedFacts
  <2>5. \A k \in Keys : deliveries[k].state = "none" => e[k].state = "none"
    BY <1>c
  <2> HIDE DEF e, d, Goal
  <2>6. \A k \in Keys : deliveries[k].state = "none" => deliveries'[k].state = "none"
    BY <2>3, <2>4, <2>5
  <2> QED BY <1>1, <2>6
<1>7. ASSUME NEW s, NEW A, NEW now, NEW q, modify_rows(s, A, now, q) PROVE Goal
  <2>1. \A k \in Keys : deliveries[k].state = "none" => deliveries'[k].state = "none"
    BY <1>7 DEF modify_rows, Named
  <2> HIDE DEF Goal
  <2> QED BY <1>1, <2>1
<1>8. ASSUME NEW t \in Topics, create_topic(t) \/ delete_topic(t) \/ \E s \in Subs : create_subscription(s, t)
      PROVE  Goal
  <2> HIDE DEF Goal
  <2> QED BY <1>2, <1>8 DEF create_topic, delete_topic, create_subscription
<1> HIDE DEF Goal
<1>9. Goal
  BY <1>2, <1>3, <1>4, <1>5, <1>6, <1>7, <1>8, NextCases DEF tables
<1> QED BY <1>9 DEF Goal, BacklogBounded

-----------------------------------------------------------------------------
(* The flow control of streams.                                            *)

\* Less of a map holds less.
LEMMA HeldSubset ==
  ASSUME NEW B \in SUBSET Acks, NEW A \in SUBSET B, NEW iss, \A a \in B : iss[a] \in Keys
  PROVE  /\ IsFiniteSet(A) /\ Cardinality(A) \in Nat /\ Cardinality(B) \in Nat
         /\ Cardinality(A) <= Cardinality(B)
         /\ HeldIn(A, iss) \in Nat /\ HeldIn(B, iss) \in Nat /\ HeldIn(A, iss) <= HeldIn(B, iss)
<1> DEFINE w == [a \in Acks |-> Size[iss[a][2]]]
<1>1. HeldIn(B, iss) = Total(w, B) /\ HeldIn(B, iss) \in Nat /\ IsFiniteSet(B)
  BY HeldFacts
<1>2. A \in SUBSET Acks /\ \A a \in A : iss[a] \in Keys
  OBVIOUS
<1>3. HeldIn(A, iss) = Total(w, A) /\ HeldIn(A, iss) \in Nat
  BY <1>2, HeldFacts
<1>4. \A a \in B : w[a] \in Nat
  BY ConstantFacts DEF Keys
<1> HIDE DEF w
<1>5. Total(w, A) <= Total(w, B)
  BY <1>1, <1>4, TotalSubset
<1>6. IsFiniteSet(A) /\ Cardinality(A) <= Cardinality(B)
  BY <1>1, FS_Subset
<1>7. Cardinality(A) \in Nat /\ Cardinality(B) \in Nat
  BY <1>1, <1>6, FS_CardinalityType
<1> QED BY <1>1, <1>3, <1>5, <1>6, <1>7

\* What is held does not depend on the ids of others.
LEMMA HeldSame ==
  ASSUME NEW A \in SUBSET Acks, NEW iss, NEW iss1, \A a \in A : iss[a] \in Keys /\ iss1[a] = iss[a]
  PROVE  HeldIn(A, iss1) = HeldIn(A, iss)
<1> DEFINE w == [a \in Acks |-> Size[iss[a][2]]]
           v == [a \in Acks |-> Size[iss1[a][2]]]
<1>0. \A a \in A : iss1[a] \in Keys
  OBVIOUS
<1>1. HeldIn(A, iss) = Total(w, A) /\ IsFiniteSet(A)
  BY HeldFacts
<1>2. HeldIn(A, iss1) = Total(v, A)
  BY <1>0, HeldFacts
<1>3. \A a \in A : w[a] \in Nat /\ v[a] = w[a]
  BY ConstantFacts DEF Keys
<1> HIDE DEF w, v
<1> QED BY <1>1, <1>2, <1>3, TotalSame

\* Two parts of a map hold what both hold.
LEMMA HeldUnion ==
  ASSUME NEW A \in SUBSET Acks, NEW B \in SUBSET Acks, A \cap B = {},
         NEW iss, \A a \in A \cup B : iss[a] \in Keys
  PROVE  /\ HeldIn(A \cup B, iss) = HeldIn(A, iss) + HeldIn(B, iss)
         /\ Cardinality(A \cup B) = Cardinality(A) + Cardinality(B)
<1> DEFINE w == [a \in Acks |-> Size[iss[a][2]]]
           C == A \cup B
<1>1. HeldIn(A, iss) = Total(w, A) /\ IsFiniteSet(A)
  BY HeldFacts
<1>2. HeldIn(B, iss) = Total(w, B) /\ IsFiniteSet(B)
  BY HeldFacts
<1>3. HeldIn(C, iss) = Total(w, C)
  <2>1. C \in SUBSET Acks /\ \A a \in C : iss[a] \in Keys
    OBVIOUS
  <2> HIDE DEF C, w
  <2> QED BY <2>1, HeldFacts DEF w
<1>4. \A a \in A \cup B : w[a] \in Nat
  BY ConstantFacts DEF Keys
<1> HIDE DEF w
<1>5. Total(w, A \cup B) = Total(w, A) + Total(w, B)
  BY <1>1, <1>2, <1>4, TotalUnion
<1>6. Cardinality(A \cup B) = Cardinality(A) + Cardinality(B)
  <2>1. Cardinality(A \cup B) = Cardinality(A) + Cardinality(B) - Cardinality(A \cap B)
    BY <1>1, <1>2, FS_Union
  <2>2. Cardinality(A \cap B) = 0
    BY FS_EmptySet
  <2>3. Cardinality(A) \in Nat /\ Cardinality(B) \in Nat
    BY <1>1, <1>2, FS_CardinalityType
  <2> QED BY <2>1, <2>2, <2>3
<1> QED BY <1>1, <1>2, <1>3, <1>5, <1>6 DEF C

\* The ids of a claim hold the bytes of its messages.
LEMMA HeldImage ==
  ASSUME NEW R \in SUBSET Msgs, NEW I \in SUBSET Acks, NEW fr, NEW iss,
         \A m, n \in R : fr[m] = fr[n] => m = n,
         \A m \in R : fr[m] \in I /\ iss[fr[m]] \in Keys /\ iss[fr[m]][2] = m,
         \A a \in I : \E m \in R : a = fr[m]
  PROVE  HeldIn(I, iss) = Bytes(R) /\ Cardinality(I) = Cardinality(R)
<1> DEFINE w == [a \in Acks |-> Size[iss[a][2]]]
<1>0. \A a \in I : iss[a] \in Keys
  OBVIOUS
<1>1. HeldIn(I, iss) = Total(w, I)
  BY <1>0, HeldFacts
<1>2. Bytes(R) = Total(Size, R) /\ IsFiniteSet(R)
  BY BytesFacts
<1>3. \A m \in R : w[fr[m]] = Size[m] /\ Size[m] \in Nat
  BY ConstantFacts
<1> HIDE DEF w
<1>4. Total(w, I) = Total(Size, R) /\ Cardinality(I) = Cardinality(R)
  BY <1>2, <1>3, TotalImage
<1> QED BY <1>1, <1>2, <1>4

\* A map within the limits of StreamBounded.
MapBounded(A, iss) ==
  /\ Cardinality(A) <= StreamCount
  /\ A # {} => \E a \in A : HeldIn(A \ {a}, iss) < StreamBytes

\* It stays within them when it loses ids.
LEMMA SmallerMap ==
  ASSUME NEW B \in SUBSET Acks, NEW A \in SUBSET B, NEW iss, \A a \in B : iss[a] \in Keys,
         MapBounded(B, iss)
  PROVE  MapBounded(A, iss)
<1>1. Cardinality(A) <= StreamCount
  BY HeldSubset, ConstantFacts DEF MapBounded
<1>2. ASSUME NEW a \in A PROVE \E x \in A : HeldIn(A \ {x}, iss) < StreamBytes
  <2>1. PICK b \in B : HeldIn(B \ {b}, iss) < StreamBytes
    BY <1>2 DEF MapBounded
  <2> DEFINE x == IF b \in A THEN b ELSE a
             D == B \ {b}
             E == A \ {x}
  <2>2. D \in SUBSET Acks /\ E \in SUBSET D /\ (\A y \in D : iss[y] \in Keys) /\ x \in A
    BY <1>2
  <2> HIDE DEF D, E, x
  <2>3. HeldIn(E, iss) <= HeldIn(D, iss) /\ HeldIn(E, iss) \in Nat /\ HeldIn(D, iss) \in Nat
    BY <2>2, HeldSubset
  <2>4. HeldIn(E, iss) < StreamBytes
    BY <2>1, <2>3, ConstantFacts DEF D
  <2> QED BY <2>2, <2>4 DEF E
<1> QED BY <1>1, <1>2 DEF MapBounded

\* It stays within them when it gains what its budget left, or one id.
LEMMA GrownMap ==
  ASSUME NEW A \in SUBSET Acks, NEW I \in SUBSET Acks, A \cap I = {},
         NEW iss, \A a \in A \cup I : iss[a] \in Keys,
         MapBounded(A, iss), Cardinality(A) < StreamCount, HeldIn(A, iss) < StreamBytes,
         \/ Cardinality(A) + Cardinality(I) <= StreamCount /\ HeldIn(A, iss) + HeldIn(I, iss) <= StreamBytes
         \/ Cardinality(I) = 1
         \/ I = {}
  PROVE  MapBounded(A \cup I, iss)
<1>0. /\ IsFiniteSet(A) /\ IsFiniteSet(I) /\ HeldIn(A, iss) \in Nat /\ HeldIn(I, iss) \in Nat
  BY HeldFacts
<1>c. Cardinality(A) \in Nat /\ Cardinality(I) \in Nat
  BY <1>0, FS_CardinalityType
<1>u. /\ HeldIn(A \cup I, iss) = HeldIn(A, iss) + HeldIn(I, iss)
      /\ Cardinality(A \cup I) = Cardinality(A) + Cardinality(I)
  BY HeldUnion
<1>1. CASE I = {}
  BY <1>1
<1>2. CASE Cardinality(I) = 1
  <2>1. PICK a : I = {a}
    BY <1>0, <1>2, FS_Singleton
  <2>2. (A \cup I) \ {a} = A /\ a \in A \cup I
    BY <2>1
  <2>3. HeldIn((A \cup I) \ {a}, iss) < StreamBytes
    BY <2>2
  <2>4. Cardinality(A \cup I) <= StreamCount
    BY <1>2, <1>c, <1>u, ConstantFacts
  <2> QED BY <2>2, <2>3, <2>4 DEF MapBounded
<1>3. CASE Cardinality(A) + Cardinality(I) <= StreamCount /\ HeldIn(A, iss) + HeldIn(I, iss) <= StreamBytes
  <2> DEFINE C == A \cup I
             w == [a \in Acks |-> Size[iss[a][2]]]
  <2>1. ASSUME NEW a \in C PROVE HeldIn(C \ {a}, iss) < StreamBytes
    <3>1. C \in SUBSET Acks /\ C \ {a} \in SUBSET Acks /\ a \in Acks
          /\ \A x \in C : iss[x] \in Keys /\ w[x] \in Nat \ {0}
      BY ConstantFacts DEF Keys
    <3> DEFINE D == C \ {a}
    <3>2. D \in SUBSET Acks /\ \A x \in D : iss[x] \in Keys
      BY <3>1
    <3>3. HeldIn(C, iss) <= StreamBytes
      BY <1>3, <1>u
    <3> HIDE DEF C, D
    <3>4. HeldIn(C, iss) = Total(w, C) /\ IsFiniteSet(C) /\ HeldIn(C, iss) \in Nat
      BY <3>1, HeldFacts
    <3>5. HeldIn(D, iss) = Total(w, D) /\ HeldIn(D, iss) \in Nat
      BY <3>2, HeldFacts
    <3> HIDE DEF w
    <3>6. \A x \in C : w[x] \in Nat
      BY <3>1
    <3>7. Total(w, C) = w[a] + Total(w, C \ {a})
      BY <2>1, <3>4, <3>6, TotalFacts
    <3>8. w[a] \in Nat \ {0}
      BY <2>1, <3>1
    <3>9. HeldIn(D, iss) < HeldIn(C, iss)
      BY <3>4, <3>5, <3>7, <3>8 DEF D
    <3> QED BY <3>3, <3>4, <3>5, <3>9, ConstantFacts DEF D
  <2>2. Cardinality(C) <= StreamCount
    BY <1>3, <1>u
  <2> HIDE DEF C
  <2>3. MapBounded(C, iss)
    BY <2>1, <2>2 DEF MapBounded
  <2> QED BY <2>3 DEF C
<1> QED BY <1>1, <1>2, <1>3

\* What remains of a stream's map holds as much after the step as before.
LEMMA MapStep ==
  ASSUME IInv, Next, NEW y \in Streams, NEW A \in SUBSET outstanding[y]
  PROVE  /\ HeldIn(A, issued') = HeldIn(A, issued) /\ HeldIn(A, issued) \in Nat
         /\ Cardinality(A) \in Nat /\ Cardinality(A) <= Cardinality(outstanding[y])
         /\ Cardinality(outstanding[y]) \in Nat /\ HeldIn(outstanding[y], issued) \in Nat
         /\ HeldIn(A, issued) <= HeldIn(outstanding[y], issued)
         /\ MapBounded(A, issued') /\ \A a \in A : issued'[a] \in Keys
<1> DEFINE B == outstanding[y]
           iss1 == issued'
<1>1. /\ B \in SUBSET Acks /\ \A a \in B : issued[a] \in Keys
      /\ B \subseteq Issued /\ MapBounded(B, issued)
  BY DEF IInv, TypeOK, NumbersOK, StreamBounded, MapBounded, Held, HeldIn
<1>2. \A a \in Issued : iss1[a] = issued[a]
  BY TableNumbersStep
<1> HIDE DEF B, iss1
<1>3. A \in SUBSET B
  BY DEF B
<1>4. A \in SUBSET Acks /\ \A a \in B : issued[a] \in Keys /\ iss1[a] = issued[a] /\ iss1[a] \in Keys
  BY <1>1, <1>2, <1>3
<1>5. HeldIn(A, iss1) = HeldIn(A, issued)
  BY <1>3, <1>4, HeldSame
<1>6. /\ Cardinality(A) \in Nat /\ Cardinality(B) \in Nat /\ Cardinality(A) <= Cardinality(B)
      /\ HeldIn(A, issued) \in Nat /\ HeldIn(B, issued) \in Nat
      /\ HeldIn(A, issued) <= HeldIn(B, issued)
  BY <1>1, <1>3, <1>4, HeldSubset
<1>7. MapBounded(B, iss1)
  <2>1. \A a \in B : HeldIn(B \ {a}, iss1) = HeldIn(B \ {a}, issued)
    <3> SUFFICES ASSUME NEW a \in B PROVE HeldIn(B \ {a}, iss1) = HeldIn(B \ {a}, issued)
      OBVIOUS
    <3> DEFINE D == B \ {a}
    <3>1. D \in SUBSET Acks /\ \A x \in D : issued[x] \in Keys /\ iss1[x] = issued[x]
      BY <1>1, <1>4
    <3> HIDE DEF D
    <3>2. HeldIn(D, iss1) = HeldIn(D, issued)
      BY <3>1, HeldSame
    <3> QED BY <3>2 DEF D
  <2> QED BY <1>1, <2>1 DEF MapBounded
<1>8. MapBounded(A, iss1)
  BY <1>1, <1>3, <1>4, <1>7, SmallerMap
<1> QED BY <1>3, <1>4, <1>5, <1>6, <1>8 DEF B, iss1

\* A claim of a stream adds ids with the bytes of what it picked to its map.
LEMMA StreamClaimStep ==
  ASSUME IInv, Next, NEW y \in Streams, StreamClaim(y)
  PROVE  MapBounded(outstanding'[y], issued')
<1>t. TypeOK /\ RequestsOK /\ BudgetOK /\ NumbersOK /\ nextAck \in Nat \ {0} /\ y \in Actors
      /\ outstanding[y] \in SUBSET Acks
  BY ConstantFacts DEF IInv, TypeOK
<1>1. stream[y] = "claim" /\ req[y].op = "claim" /\ claim_rows(req[y])
  <2>1. stream[y] = "claim" /\ req[y] # NoReq /\ claim_rows(req[y])
    BY DEF StreamClaim
  <2> QED BY <1>t, <2>1, RequestFacts DEF RequestsOK
<1>2. /\ req[y].sub \in Subs /\ req[y].now \in Nat /\ req[y].count \in Nat /\ req[y].bytes \in Nat
  BY <1>1, <1>t, RequestFacts
<1> DEFINE A == outstanding[y]
           iss1 == issued'
           next1 == nextAck'
           I == nextAck..(next1 - 1)
<1>3. /\ HasBudget(A) /\ req[y].count <= StreamCount - Cardinality(A)
      /\ req[y].bytes <= StreamBytes - HeldIn(A, issued)
  BY <1>1, <1>t DEF BudgetOK, Held, HeldIn
<1>4. PICK R : Claimed(req[y], R)
  BY <1>1, <1>2, <1>t, ClaimFacts
<1> DEFINE n == Cardinality(R)
           fr == [m \in R |-> FreshAck(R, m)]
<1>5. /\ R \in SUBSET Msgs /\ IsFiniteSet(R) /\ n \in Nat /\ next1 = nextAck + n
      /\ \/ n <= req[y].count /\ Bytes(R) <= req[y].bytes
         \/ n = 1 \/ R = {}
      /\ \A m \in R : /\ fr[m] \in nextAck..(nextAck + n - 1)
                      /\ iss1[fr[m]] = <<req[y].sub, m>>
      /\ \A m, k \in R : fr[m] = fr[k] => m = k
      /\ \A a \in nextAck..(nextAck + n - 1) : \E m \in R : a = fr[m]
  BY <1>4 DEF Claimed
<1>6. outstanding'[y] = A \cup I
  BY <1>t DEF StreamClaim, TypeOK
<1>7. /\ HeldIn(A, iss1) = HeldIn(A, issued) /\ HeldIn(A, issued) \in Nat
      /\ Cardinality(A) \in Nat /\ MapBounded(A, iss1) /\ \A a \in A : iss1[a] \in Keys
  BY MapStep
<1>8. A \subseteq 1..(nextAck - 1)
  BY <1>t DEF NumbersOK, Issued
<1>9. I \in SUBSET Acks
  <2>1. next1 \in 1..(MaxAcks + 1)
    BY TypeStep DEF TypeOK
  <2> HIDE DEF next1
  <2> QED BY <1>t, <2>1, ConstantFacts DEF Acks
<1>10. Cardinality(A) < StreamCount /\ HeldIn(A, issued) < StreamBytes
  BY <1>3 DEF HasBudget, Held, HeldIn
<1> HIDE DEF A, iss1, next1, fr, n
<1>11. I = nextAck..(nextAck + n - 1)
  BY <1>5, <1>t, IdsBelow
<1>12. A \cap I = {}
  <2> HIDE DEF I
  <2>1. \A i \in 1..(nextAck - 1) : i \notin nextAck..(nextAck + n - 1)
    BY <1>5, <1>t
  <2> QED BY <1>8, <1>11, <2>1
<1> HIDE DEF I
<1>13. ASSUME NEW m \in R PROVE fr[m] \in I /\ iss1[fr[m]] \in Keys /\ iss1[fr[m]][2] = m
  <2>1. fr[m] \in I /\ iss1[fr[m]] = <<req[y].sub, m>> /\ m \in Msgs
    BY <1>5, <1>11
  <2> QED BY <1>2, <2>1 DEF Keys
<1>14. \A a \in I : \E m \in R : a = fr[m]
  BY <1>5, <1>11
<1>15. HeldIn(I, iss1) = Bytes(R) /\ Cardinality(I) = Cardinality(R)
  <2>1. R \in SUBSET Msgs /\ \A m, k \in R : fr[m] = fr[k] => m = k
    BY <1>5
  <2>2. \A m \in R : fr[m] \in I /\ iss1[fr[m]] \in Keys /\ iss1[fr[m]][2] = m
    BY <1>13
  <2> QED BY <1>9, <1>14, <2>1, <2>2, HeldImage
<1>r. Cardinality(I) = n
  BY <1>15 DEF n
<1>16. Bytes(R) \in Nat
  BY <1>5, BytesFacts
<1>17. \/ Cardinality(A) + Cardinality(I) <= StreamCount /\ HeldIn(A, iss1) + HeldIn(I, iss1) <= StreamBytes
       \/ Cardinality(I) = 1
       \/ I = {}
  <2>1. CASE n <= req[y].count /\ Bytes(R) <= req[y].bytes
    BY <1>2, <1>3, <1>5, <1>7, <1>15, <1>16, <1>r, <2>1, ConstantFacts
  <2>2. CASE R = {}
    BY <1>14, <2>2
  <2> QED BY <1>5, <1>r, <2>1, <2>2
<1>18. \A a \in A \cup I : iss1[a] \in Keys
  BY <1>7, <1>13, <1>14
<1>19. A \in SUBSET Acks
  BY <1>t DEF A
<1>20. MapBounded(A \cup I, iss1)
  BY <1>7, <1>9, <1>10, <1>12, <1>17, <1>18, <1>19, GrownMap
<1> QED BY <1>6, <1>20 DEF iss1

\* What a map counts in the next state.
LEMMA HeldNext ==
  ASSUME NEW A
  PROVE  Held(A) = HeldIn(A, issued) /\ Held(A)' = HeldIn(A, issued')
<1>1. Held(A) = HeldIn(A, issued)
  BY DEF Held, HeldIn
<1>2. Held(A)' = HeldIn(A, issued')
  BY DEF Held, HeldIn, MapThenSumSet, MapThenFoldSet
<1> QED BY <1>1, <1>2

\* The maps of the streams stay within their limits.
LEMMA StreamBoundedStep ==
  ASSUME IInv, Next
  PROVE  StreamBounded'
<1> SUFFICES ASSUME NEW y \in Streams PROVE MapBounded(outstanding'[y], issued')
  BY HeldNext DEF StreamBounded, MapBounded
<1>1. ASSUME outstanding'[y] \subseteq outstanding[y] PROVE MapBounded(outstanding'[y], issued')
  <2> DEFINE A == outstanding'[y]
  <2>1. A \in SUBSET outstanding[y]
    BY <1>1
  <2> HIDE DEF A
  <2>2. MapBounded(A, issued')
    BY <2>1, MapStep
  <2> QED BY <2>2 DEF A
<1>2. CASE CallStreamClaim(y)
  BY <1>1, <1>2 DEF CallStreamClaim, streams
<1> QED BY <1>1, <1>2, StreamCases, StreamClaimStep

\* A stream claims no more than its limits leave.
LEMMA BudgetStep ==
  ASSUME IInv, Next
  PROVE  BudgetOK'
<1>t. TypeOK /\ RequestsOK /\ BudgetOK /\ TypeOK' /\ NoReq.op = "none"
  BY TypeStep DEF IInv, NoReq
<1>c. StreamCount \in Nat /\ StreamBytes \in Nat
  BY ConstantFacts
<1> DEFINE Budget(A, iss) == Cardinality(A) < StreamCount /\ HeldIn(A, iss) < StreamBytes
           Fits(A, iss, r) == /\ r.count <= StreamCount - Cardinality(A)
                              /\ r.bytes <= StreamBytes - HeldIn(A, iss)
<1> SUFFICES ASSUME NEW y \in Streams
             PROVE  /\ stream'[y] = "claim" => Budget(outstanding'[y], issued')
                    /\ req'[y].op = "claim" => Fits(outstanding'[y], issued', req'[y])
  BY HeldNext DEF BudgetOK, HasBudget
<1>0. /\ stream[y] = "claim" => Budget(outstanding[y], issued)
      /\ req[y].op = "claim" => Fits(outstanding[y], issued, req[y])
      /\ stream[y] = "claim" => req[y].op \in {"none", "claim"}
      /\ y \in Actors
  BY <1>t, ConstantFacts DEF BudgetOK, HasBudget, Held, HeldIn, RequestsOK
<1>1. ASSUME outstanding'[y] \subseteq outstanding[y]
      PROVE  /\ Budget(outstanding[y], issued) => Budget(outstanding'[y], issued')
             /\ req[y].op = "claim" /\ Fits(outstanding[y], issued, req[y]) =>
                  Fits(outstanding'[y], issued', req[y])
  <2> DEFINE A == outstanding'[y]
             B == outstanding[y]
  <2>1. A \in SUBSET outstanding[y]
    BY <1>1
  <2> HIDE DEF A
  <2>2. /\ HeldIn(A, issued') = HeldIn(A, issued) /\ HeldIn(A, issued) \in Nat
        /\ Cardinality(A) \in Nat /\ Cardinality(A) <= Cardinality(B)
        /\ Cardinality(B) \in Nat /\ HeldIn(B, issued) \in Nat
        /\ HeldIn(A, issued) <= HeldIn(B, issued)
    BY <2>1, MapStep
  <2> HIDE DEF B
  <2>3. req[y].op = "claim" => req[y].count \in Nat /\ req[y].bytes \in Nat
    BY <1>0, <1>t, RequestFacts
  <2>4. Budget(B, issued) => Budget(A, issued')
    BY <1>c, <2>2
  <2>5. req[y].op = "claim" /\ Fits(B, issued, req[y]) => Fits(A, issued', req[y])
    BY <1>c, <2>2, <2>3
  <2> QED BY <2>4, <2>5 DEF A, B
<1>2. CASE CallStreamClaim(y)
  <2>1. /\ stream[y] = "claim" /\ UNCHANGED streams /\ issued' = issued
        /\ req'[y].count = Min({StreamCount - Cardinality(outstanding[y]), StreamBatch})
        /\ req'[y].bytes = Min({StreamBytes - Held(outstanding[y]), PullBytes})
    BY <1>0, <1>2, <1>t DEF CallStreamClaim, Call, tables, TypeOK
  <2>2. /\ req'[y].count <= StreamCount - Cardinality(outstanding[y])
        /\ req'[y].bytes <= StreamBytes - Held(outstanding[y])
    BY <2>1, StreamClaimFacts
  <2>3. Held(outstanding[y]) = HeldIn(outstanding[y], issued)
    BY DEF Held, HeldIn
  <2>4. outstanding' = outstanding
    BY <2>1 DEF streams
  <2> QED BY <1>0, <2>1, <2>2, <2>3, <2>4
<1>3. CASE StreamClaim(y)
  <2>1. stream'[y] = "wait" /\ req'[y] = NoReq
    BY <1>0, <1>3, <1>t DEF StreamClaim, Return, TypeOK
  <2> QED BY <1>t, <2>1
<1>4. ASSUME HasBudget(outstanding'[y]), issued' = issued PROVE Budget(outstanding'[y], issued')
  BY <1>4 DEF HasBudget, Held, HeldIn
<1> HIDE DEF Budget, Fits
<1>5. CASE /\ stream'[y] = stream[y]
           /\ \/ req'[y] = req[y]
              \/ req[y].op \in {"ack", "modify"} /\ req'[y] = NoReq
           /\ outstanding'[y] \subseteq outstanding[y]
  BY <1>0, <1>1, <1>5, <1>t
<1> QED BY <1>2, <1>3, <1>4, <1>5, <1>t, StreamCases

-----------------------------------------------------------------------------
(* The steps of one delivery.                                              *)

\* What one row can become: it stays; it is removed for one of three causes; a new
\* message makes it available; a lease ends, is given back or moves its deadline;
\* it is leased.
Kept(k) == deliveries'[k] = deliveries[k]

Removed(k) ==
  /\ deliveries'[k].state = "none"
  /\ \/ deliveries[k].state = "none"
     \/ expiry[k[2]] <= clock \/ subTopic'[k[1]] = "none"
     \/ \E c \in Actors : Ended(c, "ack") /\ deliveries[k].ack \in req[c].acks

Created(k) == nextMsg <= k[2] /\ deliveries[k].state = "none"

Modified(k) ==
  /\ deliveries[k].state # "none" /\ deliveries'[k].state # "none"
  /\ \/ deliveries'[k].ack = deliveries[k].ack
     \/ \E A : deliveries[k].ack \in A /\ ModifiedFor(A, 0)

Taken(k) ==
  /\ deliveries'[k].state # "none"
  /\ \/ deliveries[k].state = "available"
     \/ deliveries[k].state = "in_flight" /\ deliveries[k].deadline <= clock

RowStep(k) == Kept(k) \/ Removed(k) \/ Created(k) \/ Modified(k) \/ Taken(k)

\* Cleaning up removes a row only when its message has expired.
LEMMA CleanStep ==
  ASSUME IInv, NEW now \in Nat, now <= clock, NEW k \in Keys
  PROVE  \/ cleanup(now)[k] = deliveries[k]
         \/ cleanup(now)[k].state = "none" /\ expiry[k[2]] <= clock
<1>1. clock \in Nat /\ k[2] \in Msgs /\ expiry[k[2]] \in Nat
  BY DEF IInv, TypeOK, Keys
<1>2. k[2] \in Expired(now) => expiry[k[2]] <= clock
  BY <1>1 DEF Expired
<1> QED BY <1>2, RowFacts DEF cleanup

\* Every step does one of these to every row.
LEMMA RowSteps ==
  ASSUME IInv, Next, NEW k \in Keys
  PROVE  RowStep(k)
<1>t. /\ TypeOK /\ RequestsOK /\ NumbersOK /\ RowsOK(deliveries, expiry, subTopic)
      /\ deliveries[k].state \in States /\ deliveries[k].ack \in Nat /\ clock \in Nat
      /\ nextAck \in Nat /\ k[1] \in Subs /\ k[2] \in Msgs
      /\ req \in [Actors -> Request] /\ subTopic \in [Subs -> topics \cup {"none", "deleted"}]
  BY RowsFacts, ConstantFacts DEF IInv, TypeOK, Delivery, Keys
<1>1. ASSUME UNCHANGED deliveries PROVE RowStep(k)
  BY <1>1 DEF RowStep, Kept
<1>2. ASSUME NEW s \in Subs, delete_subscription(s) PROVE RowStep(k)
  <2>1. CASE k[1] = s
    <3>1. deliveries'[k].state = "none" /\ subTopic'[s] = "none"
      BY <1>2, <1>t, <2>1, RowFacts DEF delete_subscription
    <3> QED BY <2>1, <3>1 DEF RowStep, Removed
  <2>2. CASE k[1] # s
    BY <1>2, <2>2 DEF delete_subscription, RowStep, Kept
  <2> QED BY <2>1, <2>2
<1>3. ASSUME NEW c \in Actors, acknowledge_ids(c) PROVE RowStep(k)
  <2>1. CASE k \in Named(req[c].sub, req[c].acks)
    <3>1. deliveries'[k].state = "none" /\ deliveries[k].ack \in req[c].acks
      BY <1>3, <2>1, RowFacts DEF acknowledge_ids, acknowledge_rows, Named
    <3>2. Ended(c, "ack")
      BY <1>3, <1>t DEF acknowledge_ids, Return, Ended
    <3> QED BY <3>1, <3>2 DEF RowStep, Removed
  <2>2. CASE k \notin Named(req[c].sub, req[c].acks)
    BY <1>3, <2>2 DEF acknowledge_ids, acknowledge_rows, RowStep, Kept
  <2> QED BY <2>1, <2>2
<1>4. ASSUME NEW c \in Actors, publish_values(c) PROVE RowStep(k)
  <2>1. req[c].now \in Nat /\ req[c].now <= clock
    BY <1>4, <1>t, RequestFacts DEF publish_values, RequestsOK
  <2>2. ASSUME deliveries'[k] = cleanup(req[c].now)[k] PROVE RowStep(k)
    BY <2>1, <2>2, CleanStep DEF RowStep, Kept, Removed
  <2>3. ASSUME NEW n \in Nat \ {0}, NEW fanout, Published(req[c].now, n, fanout) PROVE RowStep(k)
    <3>1. CASE k[1] \in fanout /\ k[2] \in nextMsg..(nextMsg + n - 1)
      <4>1. nextMsg \in Nat
        BY <1>t, ConstantFacts DEF TypeOK
      <4>2. nextMsg <= k[2] /\ ~(k[2] < nextMsg)
        BY <3>1, <4>1
      <4>3. expiry[k[2]] = 0
        BY <1>t, <4>2 DEF NumbersOK, messages
      <4>4. deliveries[k].state = "none"
        BY <1>t, <4>3 DEF RowsOK
      <4> QED BY <4>2, <4>4 DEF RowStep, Created
    <3>2. CASE ~(k[1] \in fanout /\ k[2] \in nextMsg..(nextMsg + n - 1))
      <4>1. deliveries'[k] = cleanup(req[c].now)[k]
        BY <2>3, <3>2 DEF Published
      <4> QED BY <2>2, <4>1
    <3> QED BY <3>1, <3>2
  <2> QED BY <1>1, <1>4, <1>t, <2>2, <2>3, PublishCases
<1>5. ASSUME NEW c \in Actors, req[c].op = "claim", claim_rows(req[c]) PROVE RowStep(k)
  <2>1. req[c].sub \in Subs /\ req[c].now \in Nat /\ req[c].now <= clock
    BY <1>5, <1>t, RequestFacts DEF RequestsOK
  <2>2. PICK R : Claimed(req[c], R)
    BY <1>5, <1>t, <2>1, ClaimFacts
  <2> DEFINE e == cleanup(req[c].now)
             d == Returned(e, req[c].sub, req[c].now)
  <2>3. \/ d[k].state = "available" /\ deliveries'[k].state = "in_flight"
        \/ deliveries'[k] = d[k]
    <3>1. /\ \A m \in R : FreshAck(R, m) \in nextAck..(nextAck + Cardinality(R) - 1)
          /\ Cardinality(R) \in Nat
      BY <2>2 DEF Claimed
    <3>2. \A m \in R : FreshAck(R, m) \in Nat
      BY <1>t, <3>1
    <3> HIDE DEF d
    <3>3. IF k[1] = req[c].sub /\ k[2] \in R
          THEN /\ d[k].state = "available"
               /\ deliveries'[k] = Leased(FreshAck(R, k[2]), req[c].now + AckDeadline)
          ELSE deliveries'[k] = d[k]
      BY <2>2 DEF Claimed, d
    <3>4. req[c].now + AckDeadline \in Nat
      BY <2>1, ConstantFacts
    <3> QED BY <3>2, <3>3, <3>4, RowFacts
  <2>4. \/ d[k] = e[k]
        \/ d[k] = Available /\ e[k].state = "in_flight" /\ e[k].deadline <= req[c].now
    BY ReturnedFacts
  <2>5. e[k] = deliveries[k] \/ (e[k].state = "none" /\ expiry[k[2]] <= clock)
    BY <2>1, CleanStep
  <2> HIDE DEF d, e
  <2>6. CASE e[k].state = "none" /\ expiry[k[2]] <= clock
    <3>1. deliveries'[k].state = "none"
      BY <2>3, <2>4, <2>6
    <3> QED BY <2>6, <3>1 DEF RowStep, Removed
  <2>7. CASE e[k] = deliveries[k]
    <3>1. CASE d[k] = e[k]
      BY <2>3, <2>7, <3>1 DEF RowStep, Kept, Taken
    <3>2. CASE e[k].state = "in_flight" /\ e[k].deadline <= req[c].now
      <4>1. deliveries[k].deadline \in Nat
        BY <1>t DEF TypeOK, Delivery
      <4>2. deliveries[k].deadline <= clock
        BY <1>t, <2>1, <2>7, <3>2, <4>1
      <4>3. d[k].state # "none"
        BY <2>4, <3>2, RowFacts
      <4>4. deliveries'[k].state # "none"
        BY <2>3, <4>3
      <4> QED BY <2>7, <3>2, <4>2, <4>4 DEF RowStep, Taken
    <3> QED BY <2>4, <3>1, <3>2
  <2> QED BY <2>5, <2>6, <2>7
<1>6. ASSUME NEW s, NEW A, NEW now \in Nat, NEW q \in Nat, modify_rows(s, A, now, q), ModifiedFor(A, q)
      PROVE  RowStep(k)
  <2>1. CASE k \notin Named(s, A)
    BY <1>6, <2>1 DEF modify_rows, RowStep, Kept
  <2>2. CASE k \in Named(s, A) /\ q = 0
    <3>1. deliveries[k].state # "none" /\ deliveries[k].ack \in A
      BY <2>2 DEF Named
    <3>2. deliveries'[k].state # "none"
      BY <1>6, <2>2, RowFacts DEF modify_rows
    <3> QED BY <1>6, <2>2, <3>1, <3>2 DEF RowStep, Modified
  <2>3. CASE k \in Named(s, A) /\ q # 0
    <3>1. deliveries[k].state # "none"
      BY <2>3 DEF Named
    <3>2. deliveries'[k] = Leased(deliveries[k].ack, now + q)
      BY <1>6, <2>3 DEF modify_rows
    <3>3. deliveries'[k].ack = deliveries[k].ack /\ deliveries'[k].state # "none"
      BY <1>t, <3>2, RowFacts
    <3> QED BY <3>1, <3>3 DEF RowStep, Modified
  <2> QED BY <2>1, <2>2, <2>3
<1>7. ASSUME NEW t \in Topics, create_topic(t) \/ delete_topic(t) \/ \E s \in Subs : create_subscription(s, t)
      PROVE  RowStep(k)
  BY <1>1, <1>7 DEF create_topic, delete_topic, create_subscription
<1> QED BY <1>1, <1>2, <1>3, <1>4, <1>5, <1>6, <1>7, NextCases DEF tables

-----------------------------------------------------------------------------
(* The theorems.                                                           *)

LEMMA InitIInv == Init => IInv
<1> SUFFICES ASSUME Init PROVE IInv
  OBVIOUS
<1>c. NoReq.op = "none" /\ NoReq \in Request
  BY DEF NoReq, Request
<1>1. setup \in Setups /\ TypeOK
  <2>1. nextMsg \in 1..(MaxMsgs + 1) /\ nextAck \in 1..(MaxAcks + 1)
    BY ConstantFacts DEF Init
  <2> QED BY <1>c, <2>1, RowFacts DEF Init, TypeOK
<1>2. RequestsOK
  BY <1>c, ConstantFacts DEF Init, RequestsOK
<1>3. NumbersOK /\ Issued = {}
  BY DEF Init, NumbersOK, messages, Issued
<1>4. Present(deliveries) = {} /\ messages = {}
  BY RowFacts DEF Init, Present, messages
<1>5. NoOrphans
  BY <1>4 DEF Init, NoOrphans
<1>6. AckNamesItsRow
  BY RowFacts DEF Init, AckNamesItsRow
<1>7. BacklogBounded
  <2>1. Cardinality(Present(deliveries)) = 0
    BY <1>4, FS_EmptySet
  <2>2. Usage(deliveries) = 0
    <3>1. Usage(deliveries) = Total([k \in Keys |-> Size[k[2]]], Present(deliveries))
      BY UsageFacts
    <3> DEFINE w == [k \in Keys |-> Size[k[2]]]
    <3> HIDE DEF w
    <3>2. IsFiniteSet({}) /\ \A x \in {} : w[x] \in Nat
      BY FS_EmptySet
    <3>3. Total(w, {}) = 0
      BY <3>2, TotalFacts
    <3> QED BY <1>4, <3>1, <3>3 DEF w
  <2> QED BY <2>1, <2>2, ConstantFacts DEF BacklogBounded
<1>8. BudgetOK
  BY <1>c, ConstantFacts DEF Init, BudgetOK
<1>9. StreamBounded
  <2>1. Cardinality({}) = 0
    BY FS_EmptySet
  <2> QED BY <2>1, ConstantFacts DEF Init, StreamBounded
<1> QED BY <1>1, <1>2, <1>3, <1>5, <1>6, <1>7, <1>8, <1>9 DEF IInv

LEMMA StutterIInv == IInv /\ UNCHANGED vars => IInv'
<1> SUFFICES ASSUME IInv, UNCHANGED vars PROVE IInv'
  OBVIOUS
<1>1. /\ setup' = setup /\ clock' = clock /\ req' = req /\ topics' = topics
      /\ subTopic' = subTopic /\ expiry' = expiry /\ deliveries' = deliveries
      /\ nextMsg' = nextMsg /\ nextAck' = nextAck /\ issued' = issued
      /\ stream' = stream /\ streamSub' = streamSub /\ outstanding' = outstanding
  BY DEF vars, tables, streams
<1>2. setup' \in Setups /\ TypeOK' /\ RequestsOK'
  BY <1>1 DEF IInv, TypeOK, RequestsOK, Request
<1>3. NumbersOK' /\ NoOrphans' /\ AckNamesItsRow'
  BY <1>1 DEF IInv, NumbersOK, NoOrphans, AckNamesItsRow, messages, Issued, Present, Exists
<1>4. BacklogBounded'
  BY <1>1 DEF IInv, BacklogBounded
<1>5. BudgetOK' /\ StreamBounded'
  BY <1>1, HeldNext DEF IInv, BudgetOK, StreamBounded, HasBudget
<1> QED BY <1>2, <1>3, <1>4, <1>5 DEF IInv

\* The invariant holds in every reachable state.
THEOREM Invariance == Spec => []IInv
<1>1. ASSUME IInv, Next PROVE IInv'
  <2>1. setup' \in Setups
    BY <1>1 DEF IInv, Next
  <2>2. TypeOK' /\ RequestsOK' /\ NumbersOK'
    BY <1>1, TypeStep, RequestsStep, NumbersStep
  <2>3. NoOrphans' /\ AckNamesItsRow' /\ BacklogBounded'
    BY <1>1, NoOrphansStep, AckStep, BacklogStep
  <2>4. BudgetOK' /\ StreamBounded'
    BY <1>1, BudgetStep, StreamBoundedStep
  <2> QED BY <2>1, <2>2, <2>3, <2>4 DEF IInv
<1>2. IInv /\ [Next]_vars => IInv'
  BY <1>1, StutterIInv
<1> QED BY <1>2, InitIInv, PTL DEF Spec

(* Messages and delivery rows always match: whatever removes a row or a    *)
(* message, no row is an orphan and no message outlives its last row.      *)
THEOREM OrphanSafety == Spec => []NoOrphans
<1>1. IInv => NoOrphans
  BY DEF IInv
<1> QED BY <1>1, Invariance, PTL

(* An ack id in a row was issued for that row, under every interleaving of *)
(* claims, late modifications and streams.                                 *)
THEOREM AckSafety == Spec => []AckNamesItsRow
<1>1. IInv => AckNamesItsRow
  BY DEF IInv
<1> QED BY <1>1, Invariance, PTL

(* The backlog keeps to its limits in rows and bytes, for every fan-out.   *)
THEOREM BacklogSafety == Spec => []BacklogBounded
<1>1. IInv => BacklogBounded
  BY DEF IInv
<1> QED BY <1>1, Invariance, PTL

(* The map of a stream keeps to its limits, although a claim that was      *)
(* asked for with one budget makes its transaction after other steps.      *)
THEOREM StreamSafety == Spec => []StreamBounded
<1>1. IInv => StreamBounded
  BY DEF IInv
<1> QED BY <1>1, Invariance, PTL

\* A settled delivery never comes back.
THEOREM SettledSafety == Spec => NeverReturns
<1> DEFINE Step == \A k \in Keys : k[2] < nextMsg /\ deliveries[k].state = "none"
                                  => deliveries'[k].state = "none"
<1>1. IInv /\ [Next]_vars => [Step]_vars
  <2> SUFFICES ASSUME IInv, Next, NEW k \in Keys, k[2] < nextMsg, deliveries[k].state = "none"
               PROVE  deliveries'[k].state = "none"
    OBVIOUS
  <2>1. RowStep(k) /\ ~(nextMsg <= k[2])
    <3>1. nextMsg \in Nat
      BY ConstantFacts DEF IInv, TypeOK
    <3>2. k[2] \in Nat
      BY DEF Keys, Msgs
    <3>3. \A m, n \in Nat : m < n => ~(n <= m)
      OBVIOUS
    <3>4. ~(nextMsg <= k[2])
      BY <3>1, <3>2, <3>3
    <3> QED BY <3>4, RowSteps
  <2> QED BY <2>1 DEF RowStep, Kept, Removed, Created, Modified, Taken
<1> QED BY <1>1, Invariance, PTL DEF Spec, NeverReturns

\* A delivery is removed only by its retention, its subscription's deletion or an
\* acknowledgement of its current ack id.
THEOREM RemovalSafety == Spec => RemovedForCause
<1> DEFINE Step == \A k \in Keys :
                     deliveries[k].state # "none" /\ deliveries'[k].state = "none"
                     => \/ expiry[k[2]] <= clock
                        \/ subTopic'[k[1]] = "none"
                        \/ \E c \in Actors : Ended(c, "ack") /\ deliveries[k].ack \in req[c].acks
<1>1. IInv /\ [Next]_vars => [Step]_vars
  <2> SUFFICES ASSUME IInv, Next, NEW k \in Keys,
                      deliveries[k].state # "none", deliveries'[k].state = "none"
               PROVE  \/ expiry[k[2]] <= clock
                      \/ subTopic'[k[1]] = "none"
                      \/ \E c \in Actors : Ended(c, "ack") /\ deliveries[k].ack \in req[c].acks
    OBVIOUS
  <2>1. RowStep(k)
    BY RowSteps
  <2> QED BY <2>1 DEF RowStep, Kept, Removed, Created, Modified, Taken
<1> QED BY <1>1, Invariance, PTL DEF Spec, RemovedForCause

\* A lease ends before its deadline only by its holder's nack or with its stream.
THEOREM LeaseSafety == Spec => LeaseHonoured
<1> DEFINE Step ==
      \A k \in Keys :
        LET a == deliveries[k].ack IN
        /\ deliveries[k].state = "in_flight" /\ deliveries[k].deadline > clock
        /\ deliveries'[k].state # "none" /\ deliveries'[k].ack # a
        => \/ \E c \in Actors : Ended(c, "modify") /\ a \in req[c].acks /\ req[c].seconds = 0
           \/ \E x \in Streams : a \in outstanding[x] /\ stream'[x] = "closed"
<1>1. IInv /\ [Next]_vars => [Step]_vars
  <2> SUFFICES ASSUME IInv, Next, NEW k \in Keys,
                      deliveries[k].state = "in_flight", deliveries[k].deadline > clock,
                      deliveries'[k].state # "none", deliveries'[k].ack # deliveries[k].ack
               PROVE  \/ \E c \in Actors : /\ Ended(c, "modify") /\ deliveries[k].ack \in req[c].acks
                                           /\ req[c].seconds = 0
                      \/ \E x \in Streams : deliveries[k].ack \in outstanding[x] /\ stream'[x] = "closed"
    OBVIOUS
  <2>1. ~(deliveries[k].deadline <= clock)
    <3>1. deliveries[k].deadline \in Nat /\ clock \in Nat
      BY DEF IInv, TypeOK, Delivery
    <3> QED BY <3>1
  <2>2. RowStep(k)
    BY RowSteps
  <2>3. \E A : deliveries[k].ack \in A /\ ModifiedFor(A, 0)
    BY <2>1, <2>2 DEF RowStep, Kept, Removed, Created, Modified, Taken
  <2> QED BY <2>3 DEF ModifiedFor
<1> QED BY <1>1, Invariance, PTL DEF Spec, LeaseHonoured
=============================================================================
