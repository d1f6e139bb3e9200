------------------------------- MODULE MCAuth -------------------------------
(* Small instances of Auth for TLC.                                        *)
EXTENDS Auth, TLC

CONSTANTS pa, pb, u1, u2, e1, c1, c2

Setup(mode, accs, n, m) ==
  [durable |-> mode, accounts |-> accs, sessions |-> n, restarts |-> m]

\* The sessions of one account; two accounts of one project; one uid in two.
OneAccount == {Setup(TRUE, {<<pa, u1>>}, 2, 1), Setup(FALSE, {<<pa, u1>>}, 1, 0)}
TwoAccounts == {Setup(mode, {<<pa, u1>>, <<pa, u2>>}, 0, 1) : mode \in BOOLEAN}
TwoProjects == {Setup(TRUE, {<<pa, u1>>, <<pb, u1>>}, 1, 0)}
EachSetup == OneAccount \cup TwoAccounts \cup TwoProjects

\* Handlers are interchangeable.
Symmetry == Permutations(Calls)
=============================================================================
