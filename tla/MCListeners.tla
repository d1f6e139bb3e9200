----------------------------- MODULE MCListeners -----------------------------
(* Small instances of Listeners for TLC.                                   *)
EXTENDS Listeners

CONSTANTS n1, n2

\* A target of one document, and a query that what the second commit writes
\* does not match.
Document == {n1} \X (1..MaxCommits)
Query == Names \X ((1..MaxCommits) \ {2})
Selected == [id \in TargetIds |-> IF id = 1 THEN Query ELSE Document]
=============================================================================
