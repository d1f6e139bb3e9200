------------------------------ MODULE MCPubSub ------------------------------
(* Small instances of PubSub for TLC.                                      *)
EXTENDS PubSub, TLC

CONSTANTS t1, s1, s2, c1, x1

\* Odd messages are large.
Sizes == [m \in Msgs |-> IF m % 2 = 1 THEN 2 ELSE 1]

\* Fan-out, leases, retention and deletions of two subscriptions; a stream and
\* its flow control; a stream with the time that its leases take to end.
Fanout == [subs |-> {s1, s2}, streams |-> {}, batch |-> 2, time |-> 2]
Streamed(s) == [subs |-> {s}, streams |-> {x1}, batch |-> 1, time |-> 1]
Renewed == [subs |-> {s1}, streams |-> {x1}, batch |-> 1, time |-> 2]

EachSetup == {Fanout, Streamed(s1), Streamed(s2)}
OneStream == {Renewed}

Symmetry == Permutations({s1, s2})
=============================================================================
