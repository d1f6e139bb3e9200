--------------------------- MODULE FirestoreValues ---------------------------
(***************************************************************************)
(* Values of documents, their order, the fields of a document and what an  *)
(* update makes of them (firestore.rs).  A value is a record whose one     *)
(* field names its type: [null], [bool], [int], [dbl], [nan], [time],      *)
(* [str], [ref], [arr], [map].  Strings, times and the keys of maps are    *)
(* numbers in their order, names of documents sequences of numbers.        *)
(* Integers have Width bits (64 in the code); a double other than NaN is   *)
(* the number of its halves, of Precision significant bits (53 in the      *)
(* code, so that large integers are between two doubles).  Smaller         *)
(* fractions and infinities are left out; so are bytes and geopoints,      *)
(* ordered like strings under ranks of their own.                          *)
(***************************************************************************)
EXTENDS Integers, SequencesExt

CONSTANTS Width, Precision

MinInt == -(2 ^ (Width - 1))
MaxInt == 2 ^ (Width - 1) - 1

\* Halves, not negative, as a double has them: the nearest, of two as near the even.
Nearest(halves) ==
  LET unit == 2 ^ (CHOOSE e \in 0..(2 * Width) :
                     \A d \in 0..(2 * Width) : halves < 2 ^ (Precision + d) <=> e <= d)
      rest == halves % unit
      even == (halves \div unit) % 2 = 0 IN
  halves - rest + (IF 2 * rest > unit \/ (2 * rest = unit /\ ~even) THEN unit ELSE 0)

Rounded(halves) == IF halves < 0 THEN -Nearest(-halves) ELSE Nearest(halves)

\* i as f64.
AsDouble(i) == Rounded(2 * i)

Is(type, v) == type \in DOMAIN v
Null == [null |-> 0]
NaN == [nan |-> 0]

value_rank(v) ==
  CASE Is("null", v) -> 0 [] Is("bool", v) -> 1
    [] Is("int", v) \/ Is("dbl", v) \/ Is("nan", v) -> 2
    [] Is("time", v) -> 3 [] Is("str", v) -> 4 [] Is("ref", v) -> 6
    [] Is("arr", v) -> 8 [] Is("map", v) -> 9

-----------------------------------------------------------------------------
(* The order: -1, 0 and 1.                                                 *)
Order(x, y) == IF x < y THEN -1 ELSE IF x > y THEN 1 ELSE 0

\* A double as an integer: its fraction is dropped, towards zero.
Trunc(halves) == IF halves >= 0 THEN halves \div 2 ELSE -((-halves) \div 2)

\* Mutant of compare_integer_double: the integer is made a double's whole part.
compare_integer_trunc(i, halves) == Order(i, Trunc(halves))

compare_integer_double(i, halves) ==
  IF halves < AsDouble(MinInt) THEN 1
  ELSE IF halves >= AsDouble(MaxInt) THEN -1
  ELSE IF i # Trunc(halves) THEN Order(i, Trunc(halves))
  ELSE Order(0, halves - 2 * Trunc(halves))

\* NaN is before every number.
CompareNumbers(a, b) ==
  CASE Is("nan", a) -> IF Is("nan", b) THEN 0 ELSE -1
    [] Is("nan", b) -> 1
    [] Is("int", a) /\ Is("int", b) -> Order(a.int, b.int)
    [] Is("int", a) /\ Is("dbl", b) -> compare_integer_double(a.int, b.dbl)
    [] Is("dbl", a) /\ Is("int", b) -> -compare_integer_double(b.int, a.dbl)
    [] OTHER -> Order(a.dbl, b.dbl)

\* The first of a sequence of comparisons that is not 0, or the last resort.
FirstOf(comparisons, otherwise) ==
  LET s == SelectSeq(comparisons, LAMBDA c : c # 0) IN IF s = <<>> THEN otherwise ELSE s[1]

Keys(fields) == SetToSortSeq(DOMAIN fields, <)
Shorter(s, t) == IF Len(s) < Len(t) THEN Len(s) ELSE Len(t)

\* Names and paths, part by part: no part has a character before "/".
CompareNames(s, t) ==
  FirstOf([i \in 1..Shorter(s, t) |-> Order(s[i], t[i])], Order(Len(s), Len(t)))

RECURSIVE compare(_, _)
compare(a, b) ==
  IF value_rank(a) # value_rank(b) THEN Order(value_rank(a), value_rank(b))
  ELSE CASE value_rank(a) = 0 -> 0
         [] value_rank(a) = 2 -> CompareNumbers(a, b)
         [] Is("bool", a) -> Order(a.bool, b.bool)
         [] Is("time", a) -> Order(a.time, b.time)
         [] Is("str", a) -> Order(a.str, b.str)
         [] Is("ref", a) -> CompareNames(a.ref, b.ref)
         [] Is("arr", a) ->
              FirstOf([i \in 1..Shorter(a.arr, b.arr) |-> compare(a.arr[i], b.arr[i])],
                      Order(Len(a.arr), Len(b.arr)))
         [] Is("map", a) ->
              LET s == Keys(a.map)  t == Keys(b.map) IN
              FirstOf([i \in 1..Shorter(s, t) |->
                         IF s[i] # t[i] THEN Order(s[i], t[i])
                         ELSE compare(a.map[s[i]], b.map[t[i]])],
                      Order(Len(s), Len(t)))

-----------------------------------------------------------------------------
(* Fields and paths.  A path is a sequence of keys, the fields of a        *)
(* document or a map are a function on keys; None is no value.             *)
CONSTANT None

With(fields, key, value) ==
  [k \in DOMAIN fields \cup {key} |-> IF k = key THEN value ELSE fields[k]]
Without(fields, key) == [k \in DOMAIN fields \ {key} |-> fields[k]]
NoFields == [k \in {} |-> None]

RECURSIVE nested_get(_, _)
nested_get(fields, path) ==
  IF Head(path) \notin DOMAIN fields THEN None
  ELSE LET v == fields[Head(path)] IN
       IF Len(path) = 1 THEN v
       ELSE IF Is("map", v) THEN nested_get(v.map, Tail(path)) ELSE None

\* Mutant of nested_set: what was in the map is lost.
RECURSIVE nested_set_fresh(_, _, _)
nested_set_fresh(fields, path, value) ==
  IF Len(path) = 1
  THEN IF value = None THEN Without(fields, Head(path)) ELSE With(fields, Head(path), value)
  ELSE With(fields, Head(path), [map |-> nested_set_fresh(NoFields, Tail(path), value)])

\* Removing what is not there leaves everything as it is; setting below what is
\* not a map makes it one.
RECURSIVE nested_set(_, _, _)
nested_set(fields, path, value) ==
  LET key == Head(path)
      map == key \in DOMAIN fields /\ Is("map", fields[key])
      inner == IF map THEN fields[key].map ELSE NoFields IN
  CASE Len(path) = 1 -> IF value = None THEN Without(fields, key) ELSE With(fields, key, value)
    [] Len(path) > 1 /\ value = None /\ ~map -> fields
    [] OTHER -> With(fields, key, [map |-> nested_set(inner, Tail(path), value)])

Overlap(p, q) == IsPrefix(p, q) \/ IsPrefix(q, p)

\* A document as it was, before its first write: without fields.
FieldsOf(doc) == IF doc = None THEN NoFields ELSE doc

\* A mask of None replaces the document.  The result is None when paths of the
\* mask overlap.
merge_document(existing, incoming, mask) ==
  CASE mask = None -> incoming
    [] mask # None /\ \E i, j \in DOMAIN mask : i < j /\ Overlap(mask[i], mask[j]) -> None
    [] OTHER -> FoldLeft(LAMBDA fields, path :
                           nested_set(fields, path, nested_get(incoming, path)),
                         FieldsOf(existing), mask)

-----------------------------------------------------------------------------
(* Transforms: [path, kind, operand], None when the operand is refused.    *)
Numeric(v) == v # None /\ value_rank(v) = 2
Double(v) == IF Is("int", v) THEN AsDouble(v.int) ELSE v.dbl
Saturated(i) == IF i > MaxInt THEN MaxInt ELSE IF i < MinInt THEN MinInt ELSE i

Integral(a, b) == a # None /\ Is("int", a) /\ Is("int", b)

numeric_increment(current, operand) ==
  CASE ~Numeric(operand) -> None
    [] Numeric(operand) /\ ~Numeric(current) -> operand
    [] Numeric(operand) /\ Numeric(current) ->
         IF NaN \in {current, operand} THEN NaN
         ELSE IF Integral(current, operand)
         THEN [int |-> Saturated(current.int + operand.int)]
         ELSE [dbl |-> Rounded(Double(current) + Double(operand))]

RECURSIVE transform_value_equal(_, _)
transform_value_equal(a, b) ==
  CASE Numeric(a) /\ Numeric(b) -> CompareNumbers(a, b) = 0
    [] Is("arr", a) /\ Is("arr", b) ->
         /\ Len(a.arr) = Len(b.arr)
         /\ \A i \in DOMAIN a.arr : transform_value_equal(a.arr[i], b.arr[i])
    [] Is("map", a) /\ Is("map", b) ->
         /\ DOMAIN a.map = DOMAIN b.map
         /\ \A k \in DOMAIN a.map : transform_value_equal(a.map[k], b.map[k])
    [] OTHER -> a = b

Appended(current, elements) ==
  LET values == IF current # None /\ Is("arr", current) THEN current.arr ELSE <<>> IN
  [arr |-> FoldLeft(LAMBDA all, e : IF \E i \in DOMAIN all : transform_value_equal(all[i], e)
                                    THEN all ELSE Append(all, e),
                    values, elements)]

TransformResult(current, transform, now) ==
  CASE transform.kind = "increment" -> numeric_increment(current, transform.operand)
    [] transform.kind = "append" -> Appended(current, transform.operand)
    [] transform.kind = "time" -> [time |-> now]
    [] OTHER -> None

\* Every transform sees what those before it left.
apply_update_transforms(document, transforms, now) ==
  FoldLeft(LAMBDA fields, t :
             IF fields = None THEN None
             ELSE LET result == TransformResult(nested_get(fields, t.path), t, now) IN
                  IF result = None THEN None ELSE nested_set(fields, t.path, result),
           document, transforms)
=============================================================================
