------------------------------- MODULE PubSub -------------------------------
(***************************************************************************)
(* The local Pub/Sub broker (pubsub.rs): topics, subscriptions, messages   *)
(* and one delivery row per subscription and message, with ack deadlines,  *)
(* retention and the streaming-pull flow control.                          *)
(*                                                                         *)
(* A broker call runs in two steps: it checks the subscription and reads   *)
(* the clock, then, after waiting for the lock or the SQLite writer, does  *)
(* its one transaction with the time it read.  Unary callers are Clients   *)
(* (the task of a Functions trigger is one), streams are Streams.          *)
(* Message and ack ids (UUIDs) are fresh numbers.  The SQLite tables and   *)
(* MemoryState hold the same data; where the two modes differ both         *)
(* outcomes are allowed.                                                   *)
(***************************************************************************)
EXTENDS Naturals, FiniteSets, FiniteSetsExt

CONSTANTS
  Topics, Subs, Clients, Streams,
  Size,            \* size_bytes of each message
  MaxPending,      \* MAX_PENDING_DELIVERIES
  MaxBytes,        \* MAX_PENDING_BYTES
  Retention,       \* RETENTION_SECONDS
  AckDeadline,     \* ack_deadline_seconds of every subscription and stream
  PullCount,       \* max_messages of a pull
  PullBytes,       \* MAX_DELIVERY_MESSAGE_BYTES
  StreamCount,     \* max_outstanding_messages of a stream
  StreamBytes,     \* max_outstanding_bytes of a stream
  StreamBatch,     \* messages one claim of a stream may take (100)
  MaxMsgs,         \* bound: messages stored in a behaviour
  MaxAcks,         \* bound: ack ids issued in a behaviour
  Setups           \* bounds: [subs, streams, batch, time], the subscriptions and
                   \* streams that clients make, the messages of one publish and
                   \* the last second of a behaviour

Msgs == 1..MaxMsgs
Acks == 1..MaxAcks
Keys == Subs \X Msgs
Actors == Clients \cup Streams

ASSUME PubSubAssumption ==
  /\ {MaxPending, MaxBytes, MaxMsgs, MaxAcks} \subseteq Nat
  /\ \A s \in Setups : /\ s.subs \subseteq Subs /\ s.streams \subseteq Streams
                       /\ {s.batch, s.time} \subseteq Nat
  /\ {Retention, AckDeadline, PullCount, PullBytes,
      StreamCount, StreamBytes, StreamBatch} \subseteq Nat \ {0}
  /\ Size \in [Msgs -> Nat \ {0}]
  /\ IsFiniteSet(Subs)
  /\ Clients \cap Streams = {}
  /\ \A t \in {"none", "deleted"} : t \notin Topics

VARIABLES
  setup,       \* the bounds of this behaviour
  clock,       \* seconds
  topics,      \* the topics that exist
  subTopic,    \* of each subscription: its topic, "deleted", or "none" when absent
  expiry,      \* expire_at of each stored message; 0 when it is not stored
  deliveries,  \* the delivery row of each subscription and message
  nextMsg, nextAck,
  req,         \* of each actor: its broker call between clock read and transaction
  stream,      \* of each stream: "closed" or where its loop is
  streamSub,   \* of each stream: its subscription, or "none"
  outstanding, \* of each stream: its map's ack ids
  issued       \* history: the delivery each ack id was issued for

tables == <<topics, subTopic, expiry, deliveries, nextMsg, nextAck, issued>>
streams == <<stream, streamSub, outstanding>>
vars == <<setup, clock, tables, req, streams>>

States == {"none", "available", "in_flight"}
Delivery == [state : States, ack : Nat, deadline : Nat]

NoDelivery == [state |-> "none", ack |-> 0, deadline |-> 0]
Available == [state |-> "available", ack |-> 0, deadline |-> 0]
Leased(a, deadline) == [state |-> "in_flight", ack |-> a, deadline |-> deadline]

\* The ack ids a client may name, and the deadlines it may ask for.
Issued == 1..(nextAck - 1)
Seconds == {0, AckDeadline}

NoReq == [op |-> "none"]
Request ==
  {NoReq}
  \cup [op : {"publish"}, topic : Topics, n : 1..setup.batch, now : Nat]
  \cup [op : {"claim"}, sub : Subs, now : Nat, count : Nat, bytes : Nat]
  \cup [op : {"ack"}, sub : Subs, acks : SUBSET Acks]
  \cup [op : {"modify"}, sub : Subs, acks : SUBSET Acks, now : Nat, seconds : Nat]

Exists(s) == subTopic[s] # "none"

Bytes(S) == MapThenSumSet(LAMBDA m : Size[m], S)

Present(d) == {k \in Keys : d[k].state # "none"}

\* memory_usage, and the count(*) and sum(size_bytes) of publish_values.
Usage(d) == MapThenSumSet(LAMBDA k : Size[k[2]], Present(d))

Init ==
  /\ setup \in Setups
  /\ clock = 0
  /\ topics = {} /\ subTopic = [s \in Subs |-> "none"]
  /\ expiry = [m \in Msgs |-> 0]
  /\ deliveries = [k \in Keys |-> NoDelivery]
  /\ nextMsg = 1 /\ nextAck = 1
  /\ req = [c \in Actors |-> NoReq]
  /\ stream = [x \in Streams |-> "closed"] /\ streamSub = [x \in Streams |-> "none"]
  /\ outstanding = [x \in Streams |-> {}]
  /\ issued = [a \in Acks |-> <<>>]

-----------------------------------------------------------------------------
(* The delivery table.                                                     *)
messages == {m \in Msgs : expiry[m] # 0}

Expired(now) == {m \in messages : expiry[m] <= now}

\* What is stored once the messages S are gone.
Without(S) == [m \in Msgs |-> IF m \in S THEN 0 ELSE expiry[m]]

\* cleanup_sql and cleanup_memory: expired messages go, with their deliveries.
cleanup(now) ==
  [k \in Keys |-> IF k[2] \in Expired(now) THEN NoDelivery ELSE deliveries[k]]

\* memory_gc and the NOT EXISTS deletions: the messages no row of d needs go.
Needed(d) == Without({m \in Msgs : \A k \in Present(d) : k[2] # m})

\* The rows of subscription s that carry one of the ack ids A.
Named(s, A) == {k \in Keys : k[1] = s /\ deliveries[k].state # "none" /\ deliveries[k].ack \in A}

\* Mutant of acknowledge_rows: deletes the message of the ack id, not the row.
acknowledge_message(s, A) ==
  LET d == [k \in Keys |-> IF \E n \in Named(s, A) : n[2] = k[2] THEN NoDelivery
                           ELSE deliveries[k]]
  IN deliveries' = d /\ expiry' = Needed(d)

acknowledge_rows(s, A) ==
  LET d == [k \in Keys |-> IF k \in Named(s, A) THEN NoDelivery ELSE deliveries[k]]
  IN deliveries' = d /\ expiry' = Needed(d)

\* Mutant of modify_rows: finds the row by what the id was issued for.
modify_rows_issued(s, A, now, seconds) ==
  deliveries' = [k \in Keys |->
    IF \E a \in A : issued[a] = k
    THEN IF seconds = 0 THEN Available ELSE Leased(deliveries[k].ack, now + seconds)
    ELSE deliveries[k]]

\* Zero seconds give the row back; others move its deadline.
modify_rows(s, A, now, seconds) ==
  deliveries' = [k \in Keys |->
    IF k \in Named(s, A)
    THEN IF seconds = 0 THEN Available ELSE Leased(deliveries[k].ack, now + seconds)
    ELSE deliveries[k]]

-----------------------------------------------------------------------------
(* Topics and subscriptions: one transaction each.                         *)
create_topic(t) ==
  /\ t \notin topics
  /\ topics' = topics \cup {t}
  /\ UNCHANGED <<clock, subTopic, expiry, deliveries, nextMsg, nextAck, issued,
                 req, streams>>

\* Its subscriptions stay, detached, with their deliveries.
delete_topic(t) ==
  /\ t \in topics
  /\ topics' = topics \ {t}
  /\ subTopic' = [s \in Subs |-> IF subTopic[s] = t THEN "deleted" ELSE subTopic[s]]
  /\ UNCHANGED <<clock, expiry, deliveries, nextMsg, nextAck, issued, req, streams>>

create_subscription(s, t) ==
  /\ t \in topics /\ ~Exists(s)
  /\ subTopic' = [subTopic EXCEPT ![s] = t]
  /\ UNCHANGED <<clock, topics, expiry, deliveries, nextMsg, nextAck, issued,
                 req, streams>>

\* Mutant of delete_subscription: leaves the messages to their retention.
delete_subscription_no_gc(s) ==
  /\ Exists(s)
  /\ subTopic' = [subTopic EXCEPT ![s] = "none"]
  /\ deliveries' = [k \in Keys |-> IF k[1] = s THEN NoDelivery ELSE deliveries[k]]
  /\ UNCHANGED <<clock, topics, expiry, nextMsg, nextAck, issued, req, streams>>

delete_subscription(s) ==
  /\ Exists(s)
  /\ subTopic' = [subTopic EXCEPT ![s] = "none"]
  /\ LET d == [k \in Keys |-> IF k[1] = s THEN NoDelivery ELSE deliveries[k]]
     IN deliveries' = d /\ expiry' = Needed(d)
  /\ UNCHANGED <<clock, topics, nextMsg, nextAck, issued, req, streams>>

-----------------------------------------------------------------------------
(* Unary calls begin: the subscription is looked up, the clock is read.    *)
Call(c, r) ==
  /\ req[c] = NoReq
  /\ req' = [req EXCEPT ![c] = r]

CallPublish(c, t, n) ==
  /\ Call(c, [op |-> "publish", topic |-> t, n |-> n, now |-> clock])
  /\ UNCHANGED <<clock, tables, streams>>

CallPull(c, s) ==
  /\ Exists(s)
  /\ Call(c, [op |-> "claim", sub |-> s, now |-> clock, count |-> PullCount, bytes |-> PullBytes])
  /\ UNCHANGED <<clock, tables, streams>>

CallAck(c, s, A) ==
  /\ Exists(s) /\ A # {}
  /\ Call(c, [op |-> "ack", sub |-> s, acks |-> A])
  /\ UNCHANGED <<clock, tables, streams>>

CallModify(c, s, A, seconds) ==
  /\ Exists(s) /\ A # {}
  /\ Call(c, [op |-> "modify", sub |-> s, acks |-> A, now |-> clock, seconds |-> seconds])
  /\ UNCHANGED <<clock, tables, streams>>

\* The caller goes away while its call still waits for the lock.
CallDropped(c) ==
  /\ req[c] # NoReq
  /\ req' = [req EXCEPT ![c] = NoReq]
  /\ UNCHANGED <<clock, tables, streams>>

Return(c) == req' = [req EXCEPT ![c] = NoReq]

-----------------------------------------------------------------------------
(* Unary calls end: their transaction.                                     *)
\* Mutant of HasRoom: counts messages, not deliveries.
HasRoomMessages(d, fanout, new) ==
  /\ Cardinality(Present(d)) + Cardinality(new) <= MaxPending
  /\ Usage(d) + Bytes(new) <= MaxBytes

\* Room for the messages new, times the subscriptions they fan out to.
HasRoom(d, fanout, new) ==
  /\ Cardinality(Present(d)) + Cardinality(fanout) * Cardinality(new) <= MaxPending
  /\ Usage(d) + Cardinality(fanout) * Bytes(new) <= MaxBytes

(* The batch fans out to the subscriptions of the topic, whole or not at   *)
(* all.  On an error the cleanup is rolled back (SQLite) or stays (memory).*)
publish_values(c) ==
  /\ req[c].op = "publish"
  /\ LET now == req[c].now
         d == cleanup(now)
         fanout == {s \in Subs : subTopic[s] = req[c].topic}
         new == nextMsg..(nextMsg + req[c].n - 1)
         cleaned == deliveries' = d /\ expiry' = Without(Expired(now))
     IN \/ /\ \/ req[c].topic \notin topics
              \/ fanout # {} /\ new \subseteq Msgs /\ ~HasRoom(d, fanout, new)
           /\ cleaned \/ UNCHANGED <<deliveries, expiry>>
           /\ UNCHANGED nextMsg
        \/ /\ req[c].topic \in topics /\ fanout = {}
           /\ cleaned
           /\ UNCHANGED nextMsg
        \/ /\ req[c].topic \in topics /\ fanout # {}
           /\ new \subseteq Msgs /\ HasRoom(d, fanout, new)
           /\ deliveries' = [k \in Keys |-> IF k[1] \in fanout /\ k[2] \in new
                                            THEN Available ELSE d[k]]
           /\ expiry' = [m \in Msgs |-> IF m \in new THEN now + Retention
                                        ELSE Without(Expired(now))[m]]
           /\ nextMsg' = nextMsg + req[c].n
  /\ Return(c)
  /\ UNCHANGED <<clock, topics, subTopic, nextAck, issued, streams>>

\* A stream that acknowledged or gave back the ids A drops them from its map.
Forget(c, A) ==
  outstanding' = [x \in Streams |-> IF x = c THEN outstanding[x] \ A ELSE outstanding[x]]

acknowledge_ids(c) ==
  /\ req[c].op = "ack"
  /\ acknowledge_rows(req[c].sub, req[c].acks)
  /\ Forget(c, req[c].acks)
  /\ Return(c)
  /\ UNCHANGED <<clock, topics, subTopic, nextMsg, nextAck, issued, stream, streamSub>>

modify_ack_ids(c) ==
  /\ req[c].op = "modify"
  /\ modify_rows(req[c].sub, req[c].acks, req[c].now, req[c].seconds)
  /\ Forget(c, IF req[c].seconds = 0 THEN req[c].acks ELSE {})
  /\ Return(c)
  /\ UNCHANGED <<clock, topics, subTopic, expiry, nextMsg, nextAck, issued, stream, streamSub>>

\* Mutant of Returned: takes back every lease of the subscription.
ReturnedAll(d, s, now) ==
  [k \in Keys |-> IF k[1] = s /\ d[k].state = "in_flight" THEN Available ELSE d[k]]

\* Table d after the leases of subscription s that ended by now are taken back.
Returned(d, s, now) ==
  [k \in Keys |-> IF k[1] = s /\ d[k].state = "in_flight" /\ d[k].deadline <= now
                  THEN Available ELSE d[k]]

(* The sets the greedy loop of claim can pick from the candidates C, in    *)
(* whatever order it meets them (message ids are random).  When nothing    *)
(* fits the byte target one message is taken all the same.                 *)
Selections(C, count, bytes) ==
  IF \E m \in C : Size[m] <= bytes
  THEN {R \in SUBSET C :
          /\ Cardinality(R) <= count /\ Bytes(R) <= bytes
          /\ \/ Cardinality(R) = count
             \/ \A m \in C \ R : Bytes(R) + Size[m] > bytes}
  ELSE {R \in SUBSET C : Cardinality(R) = 1 \/ (R = {} /\ C = {})}

\* Mutant of FreshAck: one id for the whole batch.
SharedAck(R, m) == nextAck

\* The ack id of message m, one of the messages R a claim picked.
FreshAck(R, m) == nextAck + Cardinality({n \in R : n < m})

\* The transaction of claim, for a unary pull or a stream.
claim_rows(r) ==
  LET d == Returned(cleanup(r.now), r.sub, r.now)
      C == {m \in Msgs : d[<<r.sub, m>>].state = "available"}
  IN \E R \in Selections(C, r.count, r.bytes) :
       /\ nextAck + Cardinality(R) <= MaxAcks + 1
       /\ deliveries' = [k \in Keys |-> IF k[1] = r.sub /\ k[2] \in R
                                        THEN Leased(FreshAck(R, k[2]), r.now + AckDeadline)
                                        ELSE d[k]]
       /\ expiry' = Without(Expired(r.now))
       /\ nextAck' = nextAck + Cardinality(R)
       /\ issued' = [a \in Acks |-> IF \E m \in R : FreshAck(R, m) = a
                                    THEN <<r.sub, CHOOSE m \in R : FreshAck(R, m) = a>>
                                    ELSE issued[a]]

\* The second half of pull and pull_one; an empty result is asked for again.
claim(c) ==
  /\ req[c].op = "claim"
  /\ claim_rows(req[c])
  /\ Return(c)
  /\ UNCHANGED <<clock, topics, subTopic, nextMsg, streams>>

-----------------------------------------------------------------------------
(* streaming_pull.                                                         *)
StreamOpen(x, s) ==
  /\ stream[x] = "closed" /\ Exists(s)
  /\ stream' = [stream EXCEPT ![x] = "wait"]
  /\ streamSub' = [streamSub EXCEPT ![x] = s]
  /\ UNCHANGED <<clock, tables, req, outstanding>>

\* One ack id or deadline change of a client's request on the stream.
StreamRequest(x) ==
  /\ stream[x] = "wait"
  /\ \E a \in Issued :
       \/ CallAck(x, streamSub[x], {a})
       \/ \E q \in Seconds : CallModify(x, streamSub[x], {a}, q)

\* active_ack_ids: the ids of A that still lease a row of s.
active_ack_ids(s, A) ==
  {a \in A : \E k \in Keys : k[1] = s /\ deliveries[k].state = "in_flight"
                            /\ deliveries[k].ack = a /\ deliveries[k].deadline > clock}

\* The bytes the map counts for the ack ids A.
Held(A) == MapThenSumSet(LAMBDA a : Size[issued[a][2]], A)

\* Mutant of HasBudget: off by one.
HasBudgetAtLimit(A) == Cardinality(A) <= StreamCount /\ Held(A) <= StreamBytes

\* The stream may claim more than it holds with the ack ids A.
HasBudget(A) == Cardinality(A) < StreamCount /\ Held(A) < StreamBytes

\* After a request, a wake or the timer: forget the leases that ended.
StreamRefresh(x) ==
  /\ stream[x] = "wait" /\ req[x] = NoReq /\ Exists(streamSub[x])
  /\ LET active == active_ack_ids(streamSub[x], outstanding[x])
     IN /\ outstanding' = [outstanding EXCEPT ![x] = active]
        /\ stream' = [stream EXCEPT ![x] = IF HasBudget(active) THEN "claim" ELSE "wait"]
  /\ UNCHANGED <<clock, tables, req, streamSub>>

\* Claim what is left of the flow-control limits, within those of one response.
CallStreamClaim(x) ==
  /\ stream[x] = "claim" /\ Exists(streamSub[x])
  /\ Call(x, [op |-> "claim", sub |-> streamSub[x], now |-> clock,
              count |-> Min({StreamCount - Cardinality(outstanding[x]), StreamBatch}),
              bytes |-> Min({StreamBytes - Held(outstanding[x]), PullBytes})])
  /\ UNCHANGED <<clock, tables, streams>>

StreamClaim(x) ==
  /\ stream[x] = "claim" /\ req[x] # NoReq
  /\ claim_rows(req[x])
  /\ outstanding' = [outstanding EXCEPT ![x] = @ \cup nextAck..(nextAck' - 1)]
  /\ Return(x)
  /\ stream' = [stream EXCEPT ![x] = "wait"]
  /\ UNCHANGED <<clock, topics, subTopic, nextMsg, streamSub>>

(* The client ends or breaks the stream, sends a bad request, or a call    *)
(* fails: the ids still in the map are given back (release_ids).           *)
StreamEnd(x) ==
  /\ stream[x] # "closed"
  /\ IF Exists(streamSub[x]) THEN modify_rows(streamSub[x], outstanding[x], clock, 0)
                             ELSE UNCHANGED deliveries
  /\ stream' = [stream EXCEPT ![x] = "closed"]
  /\ outstanding' = [outstanding EXCEPT ![x] = {}]
  /\ Return(x)
  /\ UNCHANGED <<clock, topics, subTopic, expiry, nextMsg, nextAck, issued, streamSub>>

-----------------------------------------------------------------------------
(* With a data directory a restart keeps the tables and loses the rest.    *)
Restart ==
  /\ req' = [c \in Actors |-> NoReq]
  /\ stream' = [x \in Streams |-> "closed"]
  /\ outstanding' = [x \in Streams |-> {}]
  /\ UNCHANGED <<clock, tables, streamSub>>

Tick ==
  /\ clock < setup.time
  /\ clock' = clock + 1
  /\ UNCHANGED <<tables, req, streams>>

Admin ==
  \/ \E t \in Topics : create_topic(t) \/ delete_topic(t)
  \/ \E s \in setup.subs :
       delete_subscription(s) \/ \E t \in Topics : create_subscription(s, t)

Unary(c) ==
  \/ \E t \in Topics, n \in 1..setup.batch : CallPublish(c, t, n)
  \/ \E s \in Subs :
       \/ CallPull(c, s)
       \/ \E a \in Issued : CallAck(c, s, {a}) \/ \E q \in Seconds : CallModify(c, s, {a}, q)
  \/ CallDropped(c)
  \/ publish_values(c) \/ claim(c) \/ acknowledge_ids(c) \/ modify_ack_ids(c)

Streaming(x) ==
  \/ \E s \in Subs : StreamOpen(x, s)
  \/ StreamRequest(x) \/ acknowledge_ids(x) \/ modify_ack_ids(x)
  \/ StreamRefresh(x) \/ CallStreamClaim(x) \/ StreamClaim(x) \/ StreamEnd(x)

Next ==
  /\ \/ Admin \/ Restart \/ Tick
     \/ \E c \in Clients : Unary(c)
     \/ \E x \in setup.streams : Streaming(x)
  /\ UNCHANGED setup

Spec == Init /\ [][Next]_vars
-----------------------------------------------------------------------------
TypeOK ==
  /\ clock \in Nat /\ topics \subseteq Topics
  /\ subTopic \in [Subs -> topics \cup {"none", "deleted"}]  \* an existing topic's name
  /\ expiry \in [Msgs -> Nat]
  /\ deliveries \in [Keys -> Delivery]
  /\ nextMsg \in 1..(MaxMsgs + 1) /\ nextAck \in 1..(MaxAcks + 1)
  /\ req \in [Actors -> Request]
  /\ stream \in [Streams -> {"closed", "wait", "claim"}]
  /\ streamSub \in [Streams -> Subs \cup {"none"}]
  /\ outstanding \in [Streams -> SUBSET Acks]
  /\ issued \in [Acks -> Keys \cup {<<>>}]

(* Messages and delivery rows always match: a row has its message and its  *)
(* subscription (claim calls the contrary an "orphan Pub/Sub delivery"),   *)
(* and no message outlives its last row, whatever deletion, expiry or      *)
(* acknowledgement removed it; and a subscription is never left with the   *)
(* name of a topic that is gone, which a new topic would then feed.        *)
NoOrphans ==
  /\ \A s \in Subs : subTopic[s] \in topics \cup {"none", "deleted"}
  /\ \A k \in Present(deliveries) : k[2] \in messages /\ Exists(k[1])
  /\ \A m \in messages : \E k \in Present(deliveries) : k[2] = m

(* The ack id in a row is one that was issued for that very row, so an id  *)
(* settles one delivery of one subscription; a row without a lease has     *)
(* none.                                                                   *)
AckNamesItsRow ==
  \A k \in Keys : IF deliveries[k].state = "in_flight"
                  THEN deliveries[k].ack \in Issued /\ issued[deliveries[k].ack] = k
                  ELSE deliveries[k].ack = 0

(* The backlog stays within its two limits under every fan-out.            *)
BacklogBounded ==
  /\ Cardinality(Present(deliveries)) <= MaxPending
  /\ Usage(deliveries) <= MaxBytes

(* A settled delivery never comes back: not by a late ModifyAckDeadline, a *)
(* stream's release, a restart or a subscription of the same name.         *)
NeverReturns ==
  [][\A k \in Keys : k[2] < nextMsg /\ deliveries[k].state = "none"
                    => deliveries'[k].state = "none"]_vars

\* Actor c's call op makes its transaction in this step.
Ended(c, op) == req[c].op = op /\ req'[c] = NoReq

(* At least once: a delivery is removed only by the end of its retention,  *)
(* the deletion of its subscription, or an acknowledgement that names its  *)
(* current ack id; acknowledging one subscription's copy never consumes    *)
(* another's, and a late acknowledgement never settles a newer lease.      *)
RemovedForCause ==
  [][\A k \in Keys :
       deliveries[k].state # "none" /\ deliveries'[k].state = "none"
       => \/ expiry[k[2]] <= clock
          \/ subTopic'[k[1]] = "none"
          \/ \E c \in Actors : Ended(c, "ack") /\ deliveries[k].ack \in req[c].acks]_vars

(* A lease is taken from its holder only when its deadline has passed, by  *)
(* the subscriber's own nack, or by the end of its stream, even when the   *)
(* claim that takes it worked with an old reading of the clock.            *)
LeaseHonoured ==
  [][\A k \in Keys :
       LET a == deliveries[k].ack IN
       /\ deliveries[k].state = "in_flight" /\ deliveries[k].deadline > clock
       /\ deliveries'[k].state # "none" /\ deliveries'[k].ack # a
       => \/ \E c \in Actors : Ended(c, "modify") /\ a \in req[c].acks /\ req[c].seconds = 0
          \/ \E x \in Streams : a \in outstanding[x] /\ stream'[x] = "closed"]_vars

(* The map of a stream keeps to the message limit, and to the byte target  *)
(* up to one message.                                                      *)
StreamBounded ==
  \A x \in Streams :
    /\ Cardinality(outstanding[x]) <= StreamCount
    /\ outstanding[x] # {} =>
         \E a \in outstanding[x] : Held(outstanding[x] \ {a}) < StreamBytes

-----------------------------------------------------------------------------
(* What the properties above rest on.                                      *)

\* A call that waits for its transaction has read the clock before now; an open
\* stream has its subscription, and nothing else under way when it claims.
RequestsOK ==
  /\ \A c \in Actors : req[c].op \in {"publish", "claim", "modify"} => req[c].now <= clock
  /\ \A x \in Streams : /\ stream[x] = "claim" => req[x].op \in {"none", "claim"}
                        /\ req[x].op = "claim" => stream[x] = "claim"
                        /\ stream[x] # "closed" => streamSub[x] \in Subs

\* Numbers from nextMsg and from nextAck on are not in use.
NumbersOK ==
  /\ \A m \in messages : m < nextMsg
  /\ \A a \in Issued : issued[a] \in Keys
  /\ \A x \in Streams : outstanding[x] \subseteq Issued

\* A stream claims no more than what its limits leave beside its map.
BudgetOK ==
  \A x \in Streams :
    /\ stream[x] = "claim" => HasBudget(outstanding[x])
    /\ req[x].op = "claim" => /\ req[x].count <= StreamCount - Cardinality(outstanding[x])
                              /\ req[x].bytes <= StreamBytes - Held(outstanding[x])
=============================================================================
