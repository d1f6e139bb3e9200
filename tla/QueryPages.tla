----------------------------- MODULE QueryPages -----------------------------
(***************************************************************************)
(* What a client may rely on that reads the result of a query page by      *)
(* page, each page starting after the last document of the one before,     *)
(* while others write: what a FirestoreQuery promises.                     *)
(*                                                                         *)
(* The result is the rank of each document in the query's order.  A write  *)
(* moves a document in the result, into it or out of it.                   *)
(***************************************************************************)
EXTENDS Integers, Sequences, FiniteSets

CONSTANT Outside   \* not in the result: no rank

VARIABLES result,   \* name -> rank, or Outside
          limit,    \* how many documents a page has at most
          read,     \* the documents that were read, in the order read
          ended,    \* the last page was short
          moved     \* the documents written since the first page

pageVars == <<result, limit, read, ended, moved>>

InResult(n) == result[n] # Outside

Row(n) == [name |-> n, rank |-> result[n]]

RanksAscend(rows) == \A i, j \in DOMAIN rows : i < j => rows[i].rank < rows[j].rank

\* What comes after the last document that was read.
Ahead ==
  {row \in {Row(n) : n \in {m \in DOMAIN result : InResult(m)}} :
     read # <<>> => read[Len(read)].rank < row.rank}

PagesInit ==
  /\ result \in [DOMAIN result -> Int \cup {Outside}] /\ limit \in Nat
  /\ read = <<>> /\ ended = FALSE /\ moved = {}

WriteDocument(n) ==
  /\ result' \in [DOMAIN result -> Int \cup {Outside}]
  /\ \A m \in DOMAIN result \ {n} : result'[m] = result[m]
  /\ moved' = moved \cup {n}
  /\ UNCHANGED <<limit, read, ended>>

\* A page: the first documents of what is ahead, all of them when it is short.
NextPage ==
  /\ ~ended
  /\ \E ahead \in {Ahead} : \E k \in 0..limit : \E page \in [1..k -> ahead] :
       /\ RanksAscend(page)
       /\ \A row \in ahead \ {page[i] : i \in 1..k} :
            k = limit /\ \A i \in 1..k : page[i].rank < row.rank
       /\ read' = read \o page
       /\ ended' = (k < limit)
  /\ UNCHANGED <<result, limit, moved>>

PagesNext == NextPage \/ \E n \in DOMAIN result : WriteDocument(n)

PagesSpec == PagesInit /\ [][PagesNext]_pageVars

-----------------------------------------------------------------------------
(* What was read is in strictly ascending order across all pages: no       *)
(* document comes before one of an earlier page, and none comes twice with *)
(* the same values (firestore.rs:2150, 2164).                              *)
PagesGoForward == RanksAscend(read)

(* The documents of the result that nobody wrote while the client read its *)
(* pages are each read once, whatever was written around them; and nothing *)
(* else that nobody wrote is (firestore.rs:2079).                          *)
PagesAreComplete ==
  ended => \A n \in DOMAIN result \ moved :
             Cardinality({i \in DOMAIN read : read[i].name = n}) =
             IF InResult(n) THEN 1 ELSE 0

-----------------------------------------------------------------------------
(* What the properties above rest on: of a document that nobody wrote,     *)
(* only the row it has was read, and that was once the pages are past it.  *)
PagesTypeOK ==
  /\ result \in [DOMAIN result -> Int \cup {Outside}] /\ limit \in Nat
  /\ read \in Seq([name : DOMAIN result, rank : Int]) /\ ended \in BOOLEAN

Past(n) == ended \/ (read # <<>> /\ result[n] <= read[Len(read)].rank)

QuietRowsOK ==
  \A n \in DOMAIN result \ moved :
    /\ \A i \in 1..Len(read) : read[i].name = n => InResult(n) /\ read[i] = Row(n)
    /\ InResult(n) /\ Past(n) => \E i \in 1..Len(read) : read[i] = Row(n)

PagesInv == PagesTypeOK /\ PagesGoForward /\ QuietRowsOK
=============================================================================
