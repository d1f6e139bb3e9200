---------------------------- MODULE MCPubSubLimit ---------------------------
(* PubSub with a history of what each open stream handed out.              *)
EXTENDS MCPubSub

VARIABLE sent   \* the ack ids each stream has handed out since it was opened

SentInit == Init /\ sent = [x \in Streams |-> {}]

SentNext ==
  /\ Next
  /\ sent' = [x \in Streams |-> IF stream'[x] = "closed" THEN {}
                                ELSE sent[x] \cup (outstanding'[x] \ outstanding[x])]

SentSpec == SentInit /\ [][SentNext]_<<vars, sent>>

\* The messages a stream handed out whose leases are still good.
Unsettled(x) == active_ack_ids(streamSub[x], sent[x])

(* PUBSUB.md: "Streaming output enforces the client's outstanding-message  *)
(* limit."  Not always: a lease that has ended leaves the map, and a       *)
(* ModifyAckDeadline that renews it before the claim is not put back.      *)
StreamLimitEnforced ==
  \A x \in Streams : stream[x] # "closed" => Cardinality(Unsettled(x)) <= StreamCount
=============================================================================
