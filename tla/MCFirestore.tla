----------------------------- MODULE MCFirestore -----------------------------
(* Small instances of Firestore for TLC.                                   *)
EXTENDS Firestore, TLC

CONSTANTS da, db, f1, f2, v1, v2, c1, c2

\* Documents of da: a document and one below it, a destination and what is
\* below that; one document of db.
Doc1 == <<da, 1>>
Doc2 == <<da, 2>>
Doc3 == <<da, 3>>
Doc4 == <<da, 4>>
DocB == <<db, 1>>

AllDocuments == {Doc1, Doc2, Doc3, Doc4, DocB}
AutoName == <<Doc2>>

One(v) == [f \in Fields |-> IF f = f1 THEN v ELSE None]
Set(name, v) == Update(name, One(v), Fields, Always)

\* Single writes, and two writes of which the second may be refused.
Pairs ==
  {<<Set(Doc1, v1)>>, <<Set(DocB, v1)>>, <<Delete(Doc1, Exists)>>,
   <<Set(Doc1, v2), Update(Doc2, One(v1), Fields, Absent)>>,
   <<Delete(Doc2, Always), Update(Doc1, One(v1), {f1}, Exists)>>}

\* What other clients write while the console edits or clones.
Others ==
  {<<Set(Doc1, v1)>>, <<Set(Doc4, v1)>>, <<Delete(Doc1, Always)>>,
   <<Update(Doc1, [f \in Fields |-> v1], {f2}, Exists)>>}

Transactional == {<<>>, <<Set(Doc1, v1)>>, <<Update(Doc1, One(v2), Fields, Absent)>>}

\* Writes of two databases.
Writes(mode) ==
  [durable |-> mode, batches |-> Pairs, tokens |-> 0, clears |-> Databases,
   creates |-> {[name |-> n, fields |-> One(v1)] : n \in {Doc1, Doc2, DocB}},
   edits |-> {}, saves |-> {}, clones |-> {}]

\* The console edits, saves and clones while others write and clear.
Console ==
  [durable |-> TRUE, batches |-> Others, tokens |-> 0, clears |-> {da}, creates |-> {},
   edits |-> [name : {Doc1, Doc4}, field : Fields, new : Fields, value : {v1}],
   saves |-> {[name |-> Doc1, field |-> f1, value |-> v2]},
   clones |-> {[root |-> Doc1, to |-> (Doc1 :> Doc3 @@ Doc2 :> Doc4)]}]

\* Transactions of two databases.
Transactions(mode) ==
  [durable |-> mode, batches |-> Transactional, tokens |-> 1, clears |-> Databases,
   creates |-> {}, edits |-> {}, saves |-> {}, clones |-> {}]

OnlyConsole == {Console}

EachSetup == {Writes(TRUE), Writes(FALSE), Console, Transactions(TRUE), Transactions(FALSE)}

\* Handlers are interchangeable.
Symmetry == Permutations(Calls)
=============================================================================
