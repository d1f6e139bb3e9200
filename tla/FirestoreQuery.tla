--------------------------- MODULE FirestoreQuery ---------------------------
(***************************************************************************)
(* A client reads the result of a query page by page, each page starting   *)
(* after the last document of the one before, while others write.          *)
(*                                                                         *)
(* firestore.rs evaluates a query on one snapshot: under the lock of the   *)
(* store, or on one read of the database.  What two pages see may differ.  *)
(* Firestore models how writes reach the store; here a write is one step   *)
(* and its fields, masks and transforms count.                             *)
(***************************************************************************)
EXTENDS FirestoreValues, FiniteSets

CONSTANTS Setups,     \* what a run explores: [stores, updates, deletes, query, limit,
                      \* wanted: the rank of each name and its fields that is in the result]
          Ascending,  \* the values of a run, ascending: sets of equal values
          Paths,      \* the paths of a run's documents
          MaxWrites   \* bounds the writes, so that a run is finite

VARIABLES setup,    \* one of Setups
          store,    \* name -> fields, None when there is no such document
          cursor,   \* None, or the order values of the last document read
          got,      \* history: the documents read, in the order read: [name, rank]
          done,     \* the last page was short
          touched,  \* the documents written since the first page
          writes    \* the number of writes

vars == <<store, cursor, got, done, touched, writes>>

\* The path of a document's name.
NamePath == <<>>

Names == DOMAIN store

-----------------------------------------------------------------------------
(* query_docs.                                                             *)
matches_collection(name, parent, collection, descendants) ==
  LET relative == SubSeq(name, Len(parent) + 1, Len(name)) IN
  /\ IsStrictPrefix(parent, name)
  /\ IF descendants
     THEN Len(relative) % 2 = 0 /\ relative[Len(relative) - 1] = collection
     ELSE Len(relative) = 2 /\ relative[1] = collection

field_value(name, fields, path) ==
  IF path = NamePath THEN [ref |-> name] ELSE nested_get(fields, path)

HasEqual(array, needle) ==
  Is("arr", array) /\ \E i \in DOMAIN array.arr : compare(array.arr[i], needle) = 0

\* One field, and a value to compare it with.
FieldMatches(a, op, b) ==
  LET same == value_rank(a) = value_rank(b) IN
  CASE op = "<" -> same /\ compare(a, b) < 0
    [] op = "<=" -> same /\ compare(a, b) <= 0
    [] op = ">" -> same /\ compare(a, b) > 0
    [] op = ">=" -> same /\ compare(a, b) >= 0
    [] op = "=" -> compare(a, b) = 0
    [] op = "#" -> compare(a, b) # 0
    [] op = "array-contains" -> HasEqual(a, b)
    [] op = "in" -> HasEqual(b, a)
    [] op = "array-contains-any" -> Is("arr", a) /\ \E i \in DOMAIN a.arr : HasEqual(b, a.arr[i])
    [] op = "not-in" -> value_rank(a) # 0 /\ ~HasEqual(b, Null) /\ ~HasEqual(b, a)

Unary(a, op) ==
  CASE op = "is NaN" -> a = NaN [] op = "is not NaN" -> a # NaN
    [] op = "is null" -> value_rank(a) = 0 [] op = "is not null" -> value_rank(a) # 0

\* Filters: [all: filters], [any: filters], [field, op, value] and [field, op].
RECURSIVE filter_matches(_, _, _)
filter_matches(name, fields, f) ==
  CASE Is("all", f) -> \A i \in DOMAIN f.all : filter_matches(name, fields, f.all[i])
    [] Is("any", f) -> \E i \in DOMAIN f.any : filter_matches(name, fields, f.any[i])
    [] OTHER -> LET a == field_value(name, fields, f.field) IN
                /\ a # None
                /\ IF Is("value", f) THEN FieldMatches(a, f.op, f.value) ELSE Unary(a, f.op)

RECURSIVE inequality_fields(_)
inequality_fields(f) ==
  CASE Is("all", f) -> UNION {inequality_fields(f.all[i]) : i \in DOMAIN f.all}
    [] Is("any", f) -> UNION {inequality_fields(f.any[i]) : i \in DOMAIN f.any}
    [] OTHER -> IF f.op \in {"<", "<=", ">", ">=", "#", "not-in", "is not NaN", "is not null"}
                THEN {f.field} ELSE {}

\* Orders: [path, descending].  The fields of inequalities and the name follow
\* the query's own, in the direction of its last.
Descending(orders) == orders # <<>> /\ Last(orders).descending
Ordered(orders) == {orders[i].path : i \in DOMAIN orders}

ByInequality(query) ==
  LET more == SetToSortSeq(inequality_fields(query.filter) \ ({NamePath} \cup Ordered(query.orders)),
                           LAMBDA p, q : CompareNames(p, q) < 0) IN
  query.orders \o
  [i \in DOMAIN more |-> [path |-> more[i], descending |-> Descending(query.orders)]]

\* Mutant of OrdersOf: nothing separates documents with equal values.
OrdersOf_no_name(query) == ByInequality(query)

OrdersOf(query) ==
  LET orders == ByInequality(query) IN
  IF NamePath \in Ordered(orders) THEN orders
  ELSE Append(orders, [path |-> NamePath, descending |-> Descending(orders)])

Directed(c, order) == IF order.descending THEN -c ELSE c

\* A comparison of order values; a cursor may have fewer than there are orders.
CompareRows(orders, row, values) ==
  FirstOf([i \in DOMAIN values |-> Directed(compare(row[i], values[i]), orders[i])], 0)

StartsAt(orders, row, start) ==
  LET c == CompareRows(orders, row, start.values) IN c > 0 \/ (c = 0 /\ start.before)

EndsAt(orders, row, end) ==
  LET c == CompareRows(orders, row, end.values) IN c < 0 \/ (c = 0 /\ ~end.before)

RowOf(name, fields, orders) ==
  [i \in DOMAIN orders |-> field_value(name, fields, orders[i].path)]

\* rows: the order values of each document.
Selected(query, start, orders, rows) ==
  {n \in DOMAIN rows :
     /\ matches_collection(n, query.parent, query.collection, query.descendants)
     /\ filter_matches(n, store[n], query.filter)
     /\ \A i \in DOMAIN orders : rows[n][i] # None
     /\ start # None => StartsAt(orders, rows[n], start)
     /\ query.end # None => EndsAt(orders, rows[n], query.end)}

InOrderOf(names, orders, rows) ==
  SetToSortSeq(names, LAMBDA m, n : CompareRows(orders, rows[m], rows[n]) < 0)

Slice(s, offset, limit) ==
  SubSeq(s, offset + 1, IF Len(s) < offset + limit THEN Len(s) ELSE offset + limit)

RowsOf(orders) == [n \in {m \in Names : store[m] # None} |-> RowOf(n, store[n], orders)]

\* A page: the names of its documents, in order.  A query without a filter has
\* that of no conditions, [all |-> <<>>].
query_docs(query, start, limit, orders, rows) ==
  Slice(InOrderOf(Selected(query, start, orders, rows), orders, rows), query.offset, limit)

-----------------------------------------------------------------------------
(* A result by enumeration, for the setups: pairs of a name and its fields, *)
(* and in what order they come.  Ascending gives that of values, in which  *)
(* integers and doubles are mixed and NaN is before them.                  *)
Place(v) == CHOOSE i \in DOMAIN Ascending : v \in Ascending[i]

ComesBefore(orders, r, s) ==
  \E i \in DOMAIN orders :
    /\ \A j \in 1..(i - 1) : orders[j].path = NamePath \/ Place(r[j]) = Place(s[j])
    /\ Directed(IF orders[i].path = NamePath THEN CompareNames(r[i].ref, s[i].ref)
                ELSE Order(Place(r[i]), Place(s[i])), orders[i]) < 0

Ranks(orders, pairs) ==
  [p \in pairs |-> Cardinality({q \in pairs : ComesBefore(orders, RowOf(q[1], q[2], orders),
                                                        RowOf(p[1], p[2], orders))})]

\* The rank of a document, None when it is not in the result.
RankOf(name, fields) ==
  IF <<name, fields>> \in DOMAIN setup.wanted THEN setup.wanted[<<name, fields>>] ELSE None

-----------------------------------------------------------------------------
Init ==
  /\ setup \in Setups
  /\ store \in setup.stores
  /\ cursor = None /\ got = <<>> /\ done = FALSE
  /\ touched = {} /\ writes = 0

\* What an update makes of a document, None when it is refused.
Updated(doc, w) ==
  LET merged == merge_document(doc, w.fields, w.mask) IN
  IF merged = None THEN None ELSE apply_update_transforms(merged, w.transforms, writes + 1)

Put(name, doc) ==
  /\ writes < MaxWrites
  /\ store' = [store EXCEPT ![name] = doc]
  /\ touched' = touched \cup {name} /\ writes' = writes + 1
  /\ UNCHANGED <<cursor, got, done>>

Update(w) ==
  \E doc \in {Updated(store[w.name], w)} : doc # None /\ Put(w.name, doc)

Delete(name) == store[name] # None /\ Put(name, None)

\* The client: a page of limit documents, that starts after the last it read.
ReadPage ==
  /\ ~done
  /\ \E orders \in {OrdersOf(setup.query)} : \E rows \in {RowsOf(orders)} :
     \E page \in {query_docs(setup.query, cursor, setup.limit, orders, rows)} :
       /\ got' = got \o [i \in DOMAIN page |-> [name |-> page[i], rank |-> RankOf(page[i], store[page[i]])]]
       /\ cursor' = IF page = <<>> THEN cursor
                    ELSE [values |-> rows[Last(page)], before |-> FALSE]
       /\ done' = (Len(page) < setup.limit)
  /\ UNCHANGED <<store, touched, writes>>

Next ==
  \/ \E w \in setup.updates : Update(w)
  \/ \E n \in setup.deletes : Delete(n)
  \/ ReadPage

Spec == Init /\ [][Next /\ UNCHANGED setup]_<<setup, vars>>

-----------------------------------------------------------------------------
(* Properties.                                                             *)
Pages ==
  INSTANCE QueryPages WITH
    Outside <- None,
    result <- [n \in Names |-> RankOf(n, store[n])],
    limit <- setup.limit,
    read <- got,
    ended <- done,
    moved <- touched

\* Each page has the first documents of the result that come after the page
\* before, no more than it may and all that are left when it has fewer, in the
\* order of their values and then of their names (firestore.rs:2150, 2164).
ImplementsPages == Pages!PagesSpec

\* The documents of the result that nobody wrote while the client read its
\* pages are each read once, whatever was written around them; and nothing else
\* that nobody wrote is (firestore.rs:2079).
PagesAreComplete == Pages!PagesAreComplete

\* An update changes what its mask and its transforms name and nothing else: a
\* field beside them in the same map, at any depth, keeps its value; the paths of
\* the mask have the values sent, or none; an increment never moves a number the
\* other way, at the largest integer too, where a sum with a double moves the
\* double that is nearest to the number; and an array that appends its missing
\* elements keeps those it has and gets each of the others once, 1 and 1.0 being
\* equal, also when the write is repeated (firestore.rs:246, 337, 1825, 1848).
Related(p, w) ==
  \/ \E i \in DOMAIN w.mask : Overlap(p, w.mask[i])
  \/ \E i \in DOMAIN w.transforms : Overlap(p, w.transforms[i].path)

Forward(a, operand, b) ==
  LET size(v) == IF Integral(a, operand) THEN v.int ELSE Double(v) IN
  Numeric(a) /\ NaN \notin {a, operand} =>
    IF size(operand) >= 0 THEN size(b) >= size(a) ELSE size(b) <= size(a)

Elements(v) == IF v # None /\ Is("arr", v) THEN v.arr ELSE <<>>
Same(v, w) == Place(v) = Place(w)

AddedOnce(old, more, new) ==
  /\ IsPrefix(old, new)
  /\ \A i \in (Len(old) + 1)..Len(new) :
       /\ \E k \in DOMAIN more : more[k] = new[i]
       /\ \A j \in 1..(i - 1) : ~Same(new[j], new[i])
  /\ \A k \in DOMAIN more : \E i \in DOMAIN new : Same(new[i], more[k])

UpdateIsExact ==
  [][\A w \in setup.updates : Update(w) /\ w.mask # None =>
       LET old == FieldsOf(store[w.name])  new == store'[w.name] IN
       /\ \A p \in Paths : ~Related(p, w) => nested_get(new, p) = nested_get(old, p)
       /\ w.transforms = <<>> =>
            \A i \in DOMAIN w.mask :
              nested_get(new, w.mask[i]) = nested_get(w.fields, w.mask[i])
       /\ w.mask = <<>> =>
            \A i \in DOMAIN w.transforms :
              LET t == w.transforms[i]  b == nested_get(new, t.path) IN
              /\ t.kind = "increment" => Forward(nested_get(old, t.path), t.operand, b)
              /\ t.kind = "append" =>
                   AddedOnce(Elements(nested_get(old, t.path)), t.operand, b.arr)]_vars
=============================================================================
