---------------------------- MODULE MCWebChannel ----------------------------
(* Small instances of WebChannel for TLC.                                  *)
EXTENDS WebChannel

CONSTANTS n1, n2, p1, p2, g1, g2

Document == {n1} \X (1..MaxCommits)
Query == Names \X ((1..MaxCommits) \ {2})
Selected == [id \in TargetIds |-> IF id = 1 THEN Query ELSE Document]

Add(id) == [kind |-> "add", id |-> id]
Remove2 == [kind |-> "remove", id |-> 2]
Write(n) == [kind |-> "write", id |-> n]

\* One POST and overlapping GETs; one GET and overlapping POSTs; all of them.
TwoTargets ==
  [script |-> <<Add(1), Add(2)>>, handlers |-> {p1, g1, g2}, noops |-> 0]
OneTarget ==
  [script |-> <<Add(2), Remove2>>, handlers |-> {p1, p2, g1}, noops |-> 0]
TwoWrites ==
  [script |-> <<Write(1), Write(2), Write(3)>>, handlers |-> {p1, p2, g1, g2}, noops |-> 1]
EachSession == {TwoTargets, OneTarget, TwoWrites}

=============================================================================
