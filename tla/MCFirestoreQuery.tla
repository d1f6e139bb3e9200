-------------------------- MODULE MCFirestoreQuery --------------------------
(* Small instances of FirestoreQuery for TLC: integers of five bits, of    *)
(* which doubles have the first three.                                     *)
EXTENDS FirestoreQuery

Num(i) == [int |-> i]
Dbl(halves) == [dbl |-> halves]
Str(s) == [str |-> s]
Arr(s) == [arr |-> s]
Bool(b) == [bool |-> b]

\* The integers end at -16 and at 15, which as a double is 16.0; 9 is between the
\* doubles 8.0 and 10.0, and 8.0 is nearer.
InOrder ==
  <<{Null}, {Bool(0)}, {Bool(1)}, {NaN}, {Dbl(-40)}, {Num(-16), Dbl(-32)}, {Num(1), Dbl(2)},
    {Dbl(3)}, {Num(2)}, {Dbl(5)}, {Num(3), Dbl(6)}, {Dbl(16)}, {Num(9)}, {Num(15)}, {Dbl(32)},
    {[time |-> 1]}, {[time |-> 2]}, {Str(1)}, {Arr(<<Num(1)>>)}, {Arr(<<Dbl(3)>>)},
    {[map |-> NoFields]}>>

ThePaths == {<<1>>, <<2>>, <<1, 1>>, <<1, 2>>, <<1, 1, 1>>}

\* Documents of collection 1, one below another document, one of collection 2.
A == <<1, 1>>
B == <<1, 2>>
C == <<1, 3>>
Below == <<1, 1, 1, 2>>
Other == <<2, 1>>

Only(v) == IF v = None THEN NoFields ELSE <<v>>
Two(v, w) == <<v, w>>
By(path, descending) == [path |-> path, descending |-> descending]
Everything == [all |-> <<>>]
Where(op, v) == [field |-> <<1>>, op |-> op, value |-> v]

Query(filter, orders) ==
  [parent |-> <<>>, collection |-> 1, descendants |-> FALSE, filter |-> filter,
   orders |-> orders, end |-> None, offset |-> 0]

\* A query's result: the order it has, and the documents that are in it.
Reading(stores, query, limit, orders, pairs) ==
  [stores |-> stores, updates |-> {}, deletes |-> {}, query |-> query, limit |-> limit,
   wanted |-> Ranks(orders, pairs)]
ByName(descending) == <<By(NamePath, descending)>>
ByField(descending) == <<By(<<1>>, descending), By(NamePath, descending)>>

Write(name, fields, mask, transforms) ==
  [name |-> name, fields |-> fields, mask |-> mask, transforms |-> transforms]

-----------------------------------------------------------------------------
(* Values of every type in one field, read one or two at a time.           *)
Mixed == {None, Null, NaN, Num(-16), Dbl(-40), Dbl(16), Num(9), Num(15), Dbl(32), Str(1)}
MixedStores == [{A, B, C} -> {Only(v) : v \in Mixed}]
HasField(names, values) == {<<n, Only(v)>> : n \in names, v \in values}

Sorted ==
  {Reading(MixedStores, Query(Everything, <<By(<<1>>, d)>>), l, ByField(d),
           HasField({A, B, C}, Mixed \ {None})) :
     d \in BOOLEAN, l \in 1..2}

\* What a filter chooses, alone: it orders by its field when it is an inequality.
Varied == {None, Null, Bool(0), NaN, Dbl(-40), Num(1), Dbl(2), Num(2), Dbl(5), Str(1),
        Arr(<<Num(1)>>), Arr(<<Dbl(3)>>)}
Chooses(filter, orders, values) ==
  Reading([{A, B} -> {Only(v) : v \in Varied}], Query(filter, <<>>), 1, orders,
          HasField({A, B}, values))
Equal(filter, values) == Chooses(filter, ByName(FALSE), values)
Unequal(filter, values) == Chooses(filter, ByField(FALSE), values)

Filters ==
  {Unequal(Where("<=", Num(2)), {NaN, Dbl(-40), Num(1), Dbl(2), Num(2)}),
   Unequal(Where(">", Num(2)), {Dbl(5)}),
   Unequal(Where("<", Dbl(2)), {NaN, Dbl(-40)}),
   Unequal(Where(">=", Dbl(5)), {Dbl(5)}),
   Equal(Where("=", Num(1)), {Num(1), Dbl(2)}),
   Unequal(Where("#", Num(1)), Varied \ {None, Num(1), Dbl(2)}),
   Equal(Where("in", Arr(<<Num(1), Str(1)>>)), {Num(1), Dbl(2), Str(1)}),
   Unequal(Where("not-in", Arr(<<Num(1), Str(1)>>)), Varied \ {None, Null, Num(1), Dbl(2), Str(1)}),
   Unequal(Where("not-in", Arr(<<Num(1), Null>>)), {}),
   Equal(Where("array-contains", Dbl(2)), {Arr(<<Num(1)>>)}),
   Equal(Where("array-contains-any", Arr(<<Dbl(3), Num(2)>>)), {Arr(<<Dbl(3)>>)}),
   Equal([field |-> <<1>>, op |-> "is NaN"], {NaN}),
   Unequal([field |-> <<1>>, op |-> "is not NaN"], Varied \ {None, NaN}),
   Equal([field |-> <<1>>, op |-> "is null"], {Null}),
   Unequal([field |-> <<1>>, op |-> "is not null"], Varied \ {None, Null}),
   Unequal([any |-> <<Where("=", Str(1)), [all |-> <<Where(">", Num(1)), Where("<", Num(3))>>]>>],
           {Str(1), Num(2), Dbl(5)})}

\* Bounds of a query, and a group of collections.
Numbers == [{A, B, C} -> {None, Only(Num(1)), Only(Dbl(2)), Only(Num(2)), Only(Dbl(5))}]
Bounded(before, values) ==
  Reading(Numbers, [Query(Everything, <<By(<<1>>, FALSE)>>) EXCEPT
                      !.end = [values |-> <<Num(2)>>, before |-> before]],
          2, ByField(FALSE), HasField({A, B, C}, values))

Group ==
  Reading([{A, B, Below, Other} -> {None, NoFields}],
          [Query(Everything, <<By(NamePath, TRUE)>>) EXCEPT !.descendants = TRUE], 1,
          ByName(TRUE), HasField({A, B, Below}, {None}))

Bounds == {Bounded(TRUE, {Num(1), Dbl(2)}), Bounded(FALSE, {Num(1), Dbl(2), Num(2)}), Group}

-----------------------------------------------------------------------------
(* Others write between two pages: values that are equal, values that move a *)
(* document over the cursor, a field removed, documents created and deleted. *)
Moved ==
  {[Reading(Numbers, Query(Where(">=", Num(1)), <<By(<<1>>, d)>>), 1, ByField(d),
            HasField({A, B, C}, {Num(1), Dbl(2), Num(2), Dbl(5)})) EXCEPT
      !.updates = {Write(n, Only(v), None, <<>>) : n \in {A, C}, v \in {Num(1), Dbl(5)}}
                  \cup {Write(B, NoFields, <<<<1>>>>, <<>>)},
      !.deletes = {A, B}] : d \in BOOLEAN}

-----------------------------------------------------------------------------
(* Updates by masks and transforms of one document, which nobody reads.    *)
Nested(v, w) == [map |-> Two(v, w)]
Contents ==
  {None, Only(Num(15)), Only(Num(9)), Only(NaN), Only(Dbl(16)), Only(Nested(Num(1), Num(2))),
   Only([map |-> <<[map |-> <<Num(1)>>], Num(2)>>]), Two(Num(-16), Arr(<<Num(1)>>)),
   Two(Num(-16), Arr(<<Num(2), Dbl(2), Num(1)>>))}

Masks ==
  {<<>>, <<<<1>>>>, <<<<1, 1>>>>, <<<<1, 1>>, <<2>>>>, <<<<1, 1, 1>>, <<1, 2>>>>,
   <<<<1>>, <<1, 1>>>>, <<<<2>>>>}
Incoming == {NoFields, Only(Num(2)), Only(Nested(Num(2), Num(3))), Two(Num(1), Num(3))}

By1(operand) == [path |-> <<1>>, kind |-> "increment", operand |-> operand]
Union(elements) == [path |-> <<2>>, kind |-> "append", operand |-> elements]
Stamp == [path |-> <<1, 2>>, kind |-> "time", operand |-> None]
Unknown == [path |-> <<1>>, kind |-> "maximum", operand |-> Num(1)]

Transforms ==
  {<<By1(o)>> : o \in {Num(1), Num(15), Num(-2), Dbl(1), Dbl(5), Dbl(-1), NaN, Str(1)}}
  \cup {<<Union(<<Num(1), Dbl(2)>>)>>, <<Union(<<Dbl(2), Num(2), NaN, NaN>>), Stamp>>,
        <<By1(Num(1)), Unknown>>}

Updates ==
  {[Reading([{A} -> Contents], Query(Everything, <<>>), 0, <<>>, {}) EXCEPT
      !.updates = {Write(A, fields, mask, <<>>) : fields \in Incoming, mask \in Masks}
                  \cup {Write(A, NoFields, <<>>, t) : t \in Transforms}
                  \cup {Write(A, Only(Num(2)), <<<<1>>>>, <<Stamp, Union(<<Dbl(2), Num(1)>>)>>)},
      !.deletes = {A}]}

EachSetup == Sorted \cup Filters \cup Bounds \cup Moved \cup Updates
=============================================================================
