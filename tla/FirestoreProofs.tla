--------------------------- MODULE FirestoreProofs ---------------------------
(***************************************************************************)
(* Proofs about Firestore for every number of names, fields, values,       *)
(* handlers, transactions and restarts, in memory and durable, and about   *)
(* the pages of a query for every result and size of pages.                *)
(***************************************************************************)
EXTENDS Firestore, QueryPages, FoldLemmas

-----------------------------------------------------------------------------
(* Facts about sequences of anything.                                      *)

\* A sequence over some set is a sequence.
LEMMA AnySequence ==
  ASSUME NEW S, NEW s \in Seq(S)
  PROVE  IsSequence(s) /\ DOMAIN s = 1..Len(s) /\ Len(s) \in Nat
<1>1. /\ s = [i \in 1..Len(s) |-> s[i]] /\ Len(s) \in Nat /\ DOMAIN s = 1..Len(s)
      /\ \A i \in 1..Len(s) : s[i] \in Range(s)
  BY DEF Range
<1>2. s \in [1..Len(s) -> Range(s)]
  BY <1>1
<1> QED BY <1>1, <1>2, SeqDef DEF IsSequence

\* A function over the numbers from 1 is a sequence.
LEMMA FunctionSequence ==
  ASSUME NEW n \in Nat, NEW s, DOMAIN s = 1..n, s = [i \in 1..n |-> s[i]]
  PROVE  IsSequence(s) /\ Len(s) = n
<1>1. s \in [1..n -> Range(s)]
  BY DEF Range
<1>2. s \in Seq(Range(s))
  BY <1>1, SeqDef
<1> QED BY <1>1, <1>2, LenProperties DEF IsSequence

\* One more element at the end.
LEMMA AppendAny ==
  ASSUME NEW s, IsSequence(s), NEW e
  PROVE  /\ IsSequence(Append(s, e)) /\ Len(Append(s, e)) = Len(s) + 1 /\ Len(s) \in Nat
         /\ Append(s, e)[Len(s) + 1] = e
         /\ \A i \in 1..Len(s) : Append(s, e)[i] = s[i]
<1> DEFINE S == Range(s) \cup {e}
<1>1. s \in Seq(S)
  <2>1. /\ s = [i \in 1..Len(s) |-> s[i]] /\ Len(s) \in Nat
        /\ \A i \in 1..Len(s) : s[i] \in S
    BY DEF IsSequence
  <2>2. s \in [1..Len(s) -> S]
    BY <2>1
  <2> QED BY <2>1, <2>2, SeqDef
<1>2. e \in S
  OBVIOUS
<1> HIDE DEF S
<1>3. /\ Append(s, e) \in Seq(S) /\ Len(Append(s, e)) = Len(s) + 1 /\ Len(s) \in Nat
      /\ Append(s, e)[Len(s) + 1] = e
      /\ \A i \in 1..Len(s) : Append(s, e)[i] = s[i]
  BY <1>1, <1>2, AppendProperties
<1> QED BY <1>3, AnySequence

\* Without its first element.
LEMMA TailAny ==
  ASSUME NEW s, IsSequence(s), s # <<>>
  PROVE  /\ IsSequence(Tail(s)) /\ Len(Tail(s)) = Len(s) - 1 /\ Len(s) \in Nat \ {0}
         /\ Head(s) = s[1]
         /\ \A i \in 1..Len(Tail(s)) : Tail(s)[i] = s[i + 1]
<1>1. s \in Seq(Range(s))
  BY DEF IsSequence
<1>2. /\ Tail(s) \in Seq(Range(s)) /\ Len(Tail(s)) = Len(s) - 1 /\ Len(s) \in Nat \ {0}
      /\ Head(s) = s[1]
      /\ \A i \in 1..Len(Tail(s)) : Tail(s)[i] = s[i + 1]
  BY <1>1, HeadTailProperties
<1> QED BY <1>2, AnySequence

-----------------------------------------------------------------------------
(* Facts about writes.                                                     *)

Stored == [Names -> Document \cup {None}]

\* What one write of a list does to the documents and to whether all were accepted.
ApplyOne(r, w, at) ==
  IF check_precondition(r.docs[w.name], w.cond)
  THEN [r EXCEPT !.docs = apply_write(@, w, at)]
  ELSE [r EXCEPT !.ok = FALSE]

\* The document that a write leaves, or none.
LeftBy(old, w, at) ==
  IF w.kind = "delete" THEN None ELSE [fields |-> Merged(old, w), time |-> at]

\* A write leaves a document of its time or none, and the others as they are.
LEMMA WriteFacts ==
  ASSUME NEW at \in 1..MaxClock, NEW d \in Stored, NEW w \in Mutation
  PROVE  /\ w.name \in Names
         /\ apply_write(d, w, at) = [d EXCEPT ![w.name] = LeftBy(d[w.name], w, at)]
         /\ apply_write(d, w, at) \in Stored
         /\ LeftBy(d[w.name], w, at) # None => LeftBy(d[w.name], w, at).time = at
<1>1. /\ w.name \in Names /\ w.fields \in Contents /\ w.mask \subseteq Fields
      /\ d[w.name] \in Document \cup {None}
  BY DEF Mutation, Stored
<1>2. Merged(d[w.name], w) \in Contents
  <2>1. d[w.name] # None => d[w.name].fields \in Contents
    BY <1>1 DEF Document
  <2> QED BY <1>1, <2>1 DEF Merged, Contents
<1>3. LeftBy(d[w.name], w, at) \in Document \cup {None}
  BY <1>2 DEF LeftBy, Document
<1>4. apply_write(d, w, at) = [d EXCEPT ![w.name] = LeftBy(d[w.name], w, at)]
  BY DEF apply_write, LeftBy, Stored
<1>5. LeftBy(d[w.name], w, at) # None => LeftBy(d[w.name], w, at).time = at
  BY DEF LeftBy
<1> HIDE DEF LeftBy
<1>6. apply_write(d, w, at) \in Stored
  BY <1>1, <1>3, <1>4 DEF Stored
<1> QED BY <1>1, <1>4, <1>5, <1>6

\* The documents and the verdict after a list of writes are those after a chain
\* of single ones.
LEMMA AppliedChain ==
  ASSUME NEW at \in 1..MaxClock, docs \in Stored, NEW writes \in Seq(Mutation)
  PROVE  \E g \in [0..Len(writes) -> [docs : Stored, ok : BOOLEAN]] :
           /\ g[0] = [docs |-> docs, ok |-> TRUE]
           /\ \A i \in 1..Len(writes) : g[i] = ApplyOne(g[i - 1], writes[i], at)
           /\ Applied(writes, at) = g[Len(writes)]
<1> DEFINE V == [docs : Stored, ok : BOOLEAN]
           base == [docs |-> docs, ok |-> TRUE]
           step == [p \in V \X Mutation |-> ApplyOne(p[1], p[2], at)]
           D == 1..Len(writes)
           iter == CHOOSE iter : iter = [u \in SUBSET D |->
                     IF u = {} THEN base
                     ELSE ApplyOne(iter[u \ {Max(u)}], writes[Max(u)], at)]
<1>1. ASSUME NEW r \in V, NEW w \in Mutation PROVE ApplyOne(r, w, at) \in V
  <2>1. r.docs \in Stored /\ r.ok \in BOOLEAN /\ r = [docs |-> r.docs, ok |-> r.ok]
    OBVIOUS
  <2>2. apply_write(r.docs, w, at) \in Stored
    BY <2>1, WriteFacts
  <2> HIDE DEF V
  <2>3. \/ ApplyOne(r, w, at) = [docs |-> apply_write(r.docs, w, at), ok |-> r.ok]
        \/ ApplyOne(r, w, at) = [docs |-> r.docs, ok |-> FALSE]
    BY <2>1 DEF ApplyOne
  <2>4. \A d \in Stored, ok \in BOOLEAN : [docs |-> d, ok |-> ok] \in V
    BY DEF V
  <2> QED BY <2>1, <2>2, <2>3, <2>4
<1>2. base \in V /\ Len(writes) \in Nat
  OBVIOUS
<1>3. step \in [V \X Mutation -> V] /\ \A r \in V, w \in Mutation : step[<<r, w>>] = ApplyOne(r, w, at)
  <2> HIDE DEF V
  <2> QED BY <1>1
<1>4. ASSUME NEW u \in SUBSET D, u # {} PROVE Max(u) \in D /\ writes[Max(u)] \in Mutation
  <2>1. Max(u) \in u
    BY <1>2, <1>4, MaxFacts
  <2>2. \A i \in D : writes[i] \in Mutation
    OBVIOUS
  <2> QED BY <2>1, <2>2
<1>5. Applied(writes, at) = iter[D]
  <2>1. DOMAIN writes = D
    OBVIOUS
  <2> QED BY <2>1 DEF Applied, FoldLeft, MapThenFoldSet, ApplyOne
<1> HIDE DEF V, base, step
<1>6. PICK h : IsFoldLeft(h, V, base, Mutation, step, writes)
  BY <1>2, <1>3, FoldLeftExists
<1>h. h \in [SUBSET D -> V]
  BY <1>6 DEF IsFoldLeft
<1>7. h = [u \in SUBSET D |-> IF u = {} THEN base
                              ELSE ApplyOne(h[u \ {Max(u)}], writes[Max(u)], at)]
  <2>1. ASSUME NEW u \in SUBSET D
        PROVE  h[u] = IF u = {} THEN base ELSE ApplyOne(h[u \ {Max(u)}], writes[Max(u)], at)
    <3>1. h[u] = IF u = {} THEN base ELSE step[<<h[u \ {Max(u)}], writes[Max(u)]>>]
      BY <1>6 DEF IsFoldLeft
    <3>2. h[u \ {Max(u)}] \in V
      BY <1>h
    <3> QED BY <1>3, <1>4, <3>1, <3>2
  <2> QED BY <1>h, <2>1
<1>8. iter = [u \in SUBSET D |-> IF u = {} THEN base
                                 ELSE ApplyOne(iter[u \ {Max(u)}], writes[Max(u)], at)]
  BY <1>7
<1> HIDE DEF iter
<1>9. iter[D] = h[D]
  <2>1. ASSUME NEW u \in SUBSET D
        PROVE  /\ u = {} => iter[u] = base
               /\ u # {} /\ iter[u \ {Max(u)}] \in V =>
                    iter[u] = step[<<iter[u \ {Max(u)}], writes[Max(u)]>>]
    <3>1. iter[u] = IF u = {} THEN base ELSE ApplyOne(iter[u \ {Max(u)}], writes[Max(u)], at)
      BY <1>8
    <3> QED BY <1>3, <1>4, <3>1
  <2>3. Follows(iter, V, base, step, writes)
    BY <2>1 DEF Follows
  <2> QED BY <1>6, <2>3, FoldLeftUnique
<1>10. PICK g \in [0..Len(writes) -> V] :
         /\ g[0] = base /\ \A i \in 1..Len(writes) : g[i] = step[<<g[i - 1], writes[i]>>]
         /\ g[Len(writes)] = h[1..Len(writes)]
  BY <1>6, FoldLeftChain
<1>12. g[Len(writes)] = Applied(writes, at)
  BY <1>5, <1>9, <1>10 DEF D
<1>14. \A i \in 1..Len(writes) : g[i] = ApplyOne(g[i - 1], writes[i], at)
  <2> SUFFICES ASSUME NEW i \in 1..Len(writes) PROVE g[i] = ApplyOne(g[i - 1], writes[i], at)
    OBVIOUS
  <2>1. i - 1 \in 0..Len(writes) /\ writes[i] \in Mutation
    BY <1>2
  <2> QED BY <1>3, <1>10, <2>1
<1> QED BY <1>10, <1>12, <1>14 DEF V, base

\* What is known of the documents d after the first k writes.
Written(d, ok, writes, k, at) ==
  /\ \A n \in Names : d[n] # docs[n] =>
       /\ d[n] = None \/ d[n].time = at
       /\ \E i \in 1..k : writes[i].name = n /\ check_precondition(docs[n], writes[i].cond)
  /\ ok => \A i \in 1..k : d[writes[i].name] = None \/ d[writes[i].name].time = at

\* A document that a list of writes changes gets its time, and its first write has
\* found what it demands; if none is refused, each of them is done.
LEMMA AppliedFacts ==
  ASSUME NEW at \in 1..MaxClock, docs \in Stored, NEW writes \in Seq(Mutation)
  PROVE  /\ Applied(writes, at).docs \in Stored /\ Applied(writes, at).ok \in BOOLEAN
         /\ Written(Applied(writes, at).docs, Applied(writes, at).ok, writes, Len(writes), at)
<1> DEFINE m == Len(writes)
<1>1. PICK g \in [0..m -> [docs : Stored, ok : BOOLEAN]] :
        /\ g[0] = [docs |-> docs, ok |-> TRUE]
        /\ \A i \in 1..m : g[i] = ApplyOne(g[i - 1], writes[i], at)
        /\ Applied(writes, at) = g[m]
  BY AppliedChain
<1>2. m \in Nat
  OBVIOUS
<1> DEFINE P == {i \in 0..m : Written(g[i].docs, g[i].ok, writes, i, at)}
<1>3. 0 \in P
  <2>1. g[0].docs = docs
    BY <1>1
  <2> QED BY <1>2, <2>1 DEF Written
<1>4. ASSUME NEW k \in 1..m, k - 1 \in P PROVE k \in P
  <2> DEFINE r == g[k - 1]
             w == writes[k]
  <2>1. /\ k - 1 \in 0..m /\ k \in 0..m /\ w \in Mutation /\ g[k] = ApplyOne(r, w, at)
        /\ r \in [docs : Stored, ok : BOOLEAN] /\ k \in 1..k
        /\ \A i \in 1..k : i = k \/ i \in 1..(k - 1)
        /\ \A i \in 1..(k - 1) : i \in 1..k
    <3>1. /\ k - 1 \in 0..m /\ k \in 0..m /\ k \in 1..k
          /\ \A i \in 1..k : i = k \/ i \in 1..(k - 1)
          /\ \A i \in 1..(k - 1) : i \in 1..k
      BY <1>2
    <3>2. w \in Mutation
      OBVIOUS
    <3>3. g[k] = ApplyOne(r, w, at)
      BY <1>1
    <3>4. r \in [docs : Stored, ok : BOOLEAN]
      BY <3>1
    <3> QED BY <3>1, <3>2, <3>3, <3>4
  <2>2. Written(r.docs, r.ok, writes, k - 1, at)
    BY <1>4
  <2> HIDE DEF r, P
  <2>3. CASE check_precondition(r.docs[w.name], w.cond)
    <3>1. /\ g[k].docs = [r.docs EXCEPT ![w.name] = LeftBy(r.docs[w.name], w, at)]
          /\ g[k].ok = r.ok /\ w.name \in Names /\ r.docs \in Stored
          /\ LeftBy(r.docs[w.name], w, at) # None => LeftBy(r.docs[w.name], w, at).time = at
      <4>1. g[k] = [r EXCEPT !.docs = apply_write(@, w, at)]
        BY <2>1, <2>3 DEF ApplyOne
      <4>2. g[k].docs = apply_write(r.docs, w, at) /\ g[k].ok = r.ok /\ r.docs \in Stored
        BY <2>1, <4>1
      <4>3. /\ w.name \in Names
            /\ apply_write(r.docs, w, at) = [r.docs EXCEPT ![w.name] = LeftBy(r.docs[w.name], w, at)]
            /\ LeftBy(r.docs[w.name], w, at) # None => LeftBy(r.docs[w.name], w, at).time = at
        <5>1. PICK d \in Stored : d = r.docs
          BY <4>2
        <5>2. w \in Mutation
          BY <2>1
        <5> HIDE DEF w
        <5>3. /\ w.name \in Names
              /\ apply_write(d, w, at) = [d EXCEPT ![w.name] = LeftBy(d[w.name], w, at)]
              /\ LeftBy(d[w.name], w, at) # None => LeftBy(d[w.name], w, at).time = at
          BY <5>2, WriteFacts
        <5> QED BY <5>1, <5>3
      <4> QED BY <4>2, <4>3
    <3> DEFINE l == LeftBy(r.docs[w.name], w, at)
    <3>2. /\ g[k].docs[w.name] = l /\ (l = None \/ l.time = at)
          /\ \A n \in Names : n # w.name => g[k].docs[n] = r.docs[n]
      BY <3>1 DEF Stored
    <3> HIDE DEF l
    <3>3. ASSUME NEW n \in Names, g[k].docs[n] # docs[n]
          PROVE  /\ g[k].docs[n] = None \/ g[k].docs[n].time = at
                 /\ \E i \in 1..k : writes[i].name = n /\ check_precondition(docs[n], writes[i].cond)
      <4>1. CASE r.docs[n] # docs[n]
        <5>1. /\ r.docs[n] = None \/ r.docs[n].time = at
              /\ \E i \in 1..(k - 1) : writes[i].name = n /\ check_precondition(docs[n], writes[i].cond)
          BY <2>2, <4>1 DEF Written
        <5> QED BY <2>1, <3>2, <5>1
      <4>2. CASE r.docs[n] = docs[n]
        <5>1. n = w.name
          BY <3>2, <3>3, <4>2
        <5> QED BY <2>1, <2>3, <3>2, <4>2, <5>1
      <4> QED BY <4>1, <4>2
    <3>4. ASSUME g[k].ok, NEW i \in 1..k
          PROVE  g[k].docs[writes[i].name] = None \/ g[k].docs[writes[i].name].time = at
      <4>1. CASE writes[i].name = w.name
        BY <3>2, <4>1
      <4>2. CASE writes[i].name # w.name
        <5>1. i \in 1..(k - 1) /\ i \in 1..m
          BY <1>2, <2>1, <4>2
        <5>2. writes[i].name \in Names
          BY <5>1 DEF Mutation
        <5>3. r.docs[writes[i].name] = None \/ r.docs[writes[i].name].time = at
          BY <2>2, <3>1, <3>4, <5>1 DEF Written
        <5> QED BY <3>2, <4>2, <5>2, <5>3
      <4> QED BY <4>1, <4>2
    <3>5. Written(g[k].docs, g[k].ok, writes, k, at)
      BY <3>3, <3>4 DEF Written
    <3> QED BY <2>1, <3>5 DEF P
  <2>4. CASE ~check_precondition(r.docs[w.name], w.cond)
    <3>1. g[k].docs = r.docs /\ g[k].ok = FALSE
      BY <2>1, <2>4 DEF ApplyOne
    <3>2. Written(g[k].docs, g[k].ok, writes, k, at)
      BY <2>1, <2>2, <3>1 DEF Written
    <3> QED BY <2>1, <3>2 DEF P
  <2> QED BY <2>3, <2>4
<1> HIDE DEF P
<1>5. \A i \in 0..m : i \in P
  BY <1>2, <1>3, <1>4, IntervalInduction
<1>6. m \in P /\ g[m] \in [docs : Stored, ok : BOOLEAN]
  BY <1>1, <1>2, <1>5
<1> HIDE DEF m
<1> QED BY <1>1, <1>6 DEF P, m

\* The documents after a request.
LEMMA OutcomeFacts ==
  ASSUME docs \in Stored, NEW call, call.at \in 1..MaxClock, call.writes \in Seq(Mutation)
  PROVE  /\ Outcome(call) \in Stored
         /\ \A n \in Names : Outcome(call)[n] # docs[n] =>
              /\ Outcome(call)[n] = None \/ Outcome(call)[n].time = call.at
              /\ \E i \in 1..Len(call.writes) :
                   call.writes[i].name = n /\ check_precondition(docs[n], call.writes[i].cond)
              /\ call.op # "batch" => \A i \in 1..Len(call.writes) :
                   \/ Outcome(call)[call.writes[i].name] = None
                   \/ Outcome(call)[call.writes[i].name].time = call.at
<1> DEFINE d == Applied(call.writes, call.at).docs
           ok == Applied(call.writes, call.at).ok
<1>1. d \in Stored /\ Written(d, ok, call.writes, Len(call.writes), call.at)
  BY AppliedFacts
<1>2. Outcome(call) = IF call.op = "batch" \/ ok THEN d ELSE docs
  BY DEF Outcome
<1> HIDE DEF d, ok
<1>3. CASE Outcome(call) = docs
  BY <1>3
<1>4. CASE Outcome(call) = d /\ (call.op # "batch" => ok)
  BY <1>1, <1>4 DEF Written
<1> QED BY <1>2, <1>3, <1>4

\* The request that the writer runs: an automatic id has its name.
LEMMA NamedFacts ==
  ASSUME NEW call \in Call, next_id \in Nat, NumberLeft(call)
  PROVE  /\ Named(call) \in Call
         /\ Named(call).op = call.op /\ Named(call).at = call.at /\ Named(call).token = call.token
         /\ Named(call).db = call.db
         /\ call.op # "auto" => Named(call) = call
<1>1. CASE call.op # "auto"
  BY <1>1 DEF Named
<1>2. CASE call.op = "auto"
  <2> DEFINE name == AutoNames[next_id + 1]
             writes == [call.writes EXCEPT ![1].name = name]
  <2>1. name \in Names
    <3>1. next_id + 1 \in 1..Len(AutoNames) /\ AutoNames \in Seq(Names)
      BY <1>2, FirestoreAssumption DEF NumberLeft
    <3> QED BY <3>1
  <2>2. Named(call) = [call EXCEPT !.writes = writes]
    BY <1>2 DEF Named, Call
  <2> HIDE DEF name
  <2>3. writes \in Seq(Mutation)
    <3>1. /\ call.writes \in Seq(Mutation) /\ Len(call.writes) \in Nat
          /\ DOMAIN call.writes = 1..Len(call.writes)
          /\ \A i \in 1..Len(call.writes) : call.writes[i] \in Mutation
      BY DEF Call
    <3>2. writes = [i \in 1..Len(call.writes) |->
                      IF i = 1 THEN [call.writes[1] EXCEPT !.name = name] ELSE call.writes[i]]
      BY <3>1
    <3> HIDE DEF writes
    <3>3. \A m \in Mutation : [m EXCEPT !.name = name] \in Mutation
      BY <2>1 DEF Mutation
    <3>4. writes \in [1..Len(call.writes) -> Mutation]
      BY <3>1, <3>2, <3>3
    <3> QED BY <3>1, <3>4, SeqDef
  <2> HIDE DEF writes
  <2>4. Named(call) \in Call
    BY <2>2, <2>3 DEF Call
  <2> QED BY <1>2, <2>2, <2>4 DEF Call
<1> QED BY <1>1, <1>2

-----------------------------------------------------------------------------
(* Facts about the story of a document.                                    *)

\* The events s of a document that now has the fields f follow each other.
Story(s, f) ==
  LET story == <<[before |-> None, after |-> None]>> \o s IN
  /\ \A i \in 1..(Len(story) - 1) : story[i + 1].before = story[i].after
  /\ story[Len(story)].after = f

\* The story told without its beginning.
LEMMA StoryFacts ==
  ASSUME NEW s, IsSequence(s), NEW f
  PROVE  Story(s, f) <=>
           /\ Len(s) = 0 => f = None
           /\ Len(s) # 0 => s[1].before = None /\ s[Len(s)].after = f
           /\ \A i \in 1..(Len(s) - 1) : s[i + 1].before = s[i].after
<1> DEFINE e == [before |-> None, after |-> None]
           S == Range(s) \cup {e}
           b == <<e>>
           t == b \o s
<1>1. s \in Seq(S)
  <2>1. /\ s = [i \in 1..Len(s) |-> s[i]] /\ Len(s) \in Nat
        /\ \A i \in 1..Len(s) : s[i] \in S
    BY DEF IsSequence
  <2>2. s \in [1..Len(s) -> S]
    BY <2>1
  <2> QED BY <2>1, <2>2, SeqDef
<1>2. b \in Seq(S) /\ Len(b) = 1 /\ b[1] = e
  <2> HIDE DEF e
  <2> QED OBVIOUS
<1>3. e.after = None
  OBVIOUS
<1> HIDE DEF S, e, b
<1>4. /\ Len(t) = Len(b) + Len(s)
      /\ \A i \in 1..(Len(b) + Len(s)) : t[i] = IF i <= Len(b) THEN b[i] ELSE s[i - Len(b)]
  BY <1>1, <1>2, ConcatProperties
<1>5. /\ Len(s) \in Nat /\ Len(t) = Len(s) + 1 /\ t[1].after = None
      /\ \A i \in 1..Len(s) : t[i + 1] = s[i]
  BY <1>1, <1>2, <1>3, <1>4
<1> HIDE DEF t
<1>6. (\A i \in 1..(Len(t) - 1) : t[i + 1].before = t[i].after) <=>
        /\ Len(s) # 0 => s[1].before = None
        /\ \A i \in 1..(Len(s) - 1) : s[i + 1].before = s[i].after
  <2>1. ASSUME \A i \in 1..(Len(t) - 1) : t[i + 1].before = t[i].after
        PROVE  /\ Len(s) # 0 => s[1].before = None
               /\ \A i \in 1..(Len(s) - 1) : s[i + 1].before = s[i].after
    <3>1. Len(s) # 0 => s[1].before = None
      BY <1>5, <2>1
    <3>2. ASSUME NEW i \in 1..(Len(s) - 1) PROVE s[i + 1].before = s[i].after
      <4>1. i + 1 \in 1..(Len(t) - 1) /\ i \in 1..Len(s) /\ i + 1 \in 1..Len(s)
        BY <1>5
      <4>2. t[(i + 1) + 1].before = t[i + 1].after
        BY <2>1, <4>1
      <4> QED BY <1>5, <4>1, <4>2
    <3> QED BY <3>1, <3>2
  <2>2. ASSUME Len(s) # 0 => s[1].before = None,
               \A i \in 1..(Len(s) - 1) : s[i + 1].before = s[i].after,
               NEW i \in 1..(Len(t) - 1)
        PROVE  t[i + 1].before = t[i].after
    <3>1. i \in 1..Len(s) /\ t[i + 1] = s[i]
      BY <1>5
    <3>2. CASE i = 1
      BY <1>5, <2>2, <3>1, <3>2
    <3>3. CASE i # 1
      <4>1. i - 1 \in 1..(Len(s) - 1) /\ i - 1 \in 1..Len(s) /\ (i - 1) + 1 = i
        BY <1>5, <3>1, <3>3
      <4>2. s[i].before = s[i - 1].after /\ t[i] = s[i - 1]
        BY <1>5, <2>2, <4>1
      <4> QED BY <3>1, <4>2
    <3> QED BY <3>2, <3>3
  <2> QED BY <2>1, <2>2
<1>7. t[Len(t)].after = IF Len(s) = 0 THEN None ELSE s[Len(s)].after
  BY <1>5
<1>8. Story(s, f) <=> /\ \A i \in 1..(Len(t) - 1) : t[i + 1].before = t[i].after
                      /\ t[Len(t)].after = f
  BY DEF Story, t, b, e
<1> QED BY <1>5, <1>6, <1>7, <1>8

\* A change is one more event.
LEMMA StoryGoesOn ==
  ASSUME NEW s, IsSequence(s), NEW f, Story(s, f), NEW g
  PROVE  Story(Append(s, [before |-> f, after |-> g]), g)
<1> DEFINE e == [before |-> f, after |-> g]
           t == Append(s, e)
<1>1. e.before = f /\ e.after = g
  OBVIOUS
<1> HIDE DEF e
<1>2. /\ IsSequence(t) /\ Len(t) = Len(s) + 1 /\ Len(s) \in Nat /\ t[Len(s) + 1] = e
      /\ \A i \in 1..Len(s) : t[i] = s[i]
  BY AppendAny
<1>3. /\ Len(s) = 0 => f = None
      /\ Len(s) # 0 => s[1].before = None /\ s[Len(s)].after = f
      /\ \A i \in 1..(Len(s) - 1) : s[i + 1].before = s[i].after
  BY StoryFacts
<1> HIDE DEF t
<1>4. Len(t) # 0 /\ t[Len(t)].after = g /\ t[1].before = None
  BY <1>1, <1>2, <1>3
<1>5. ASSUME NEW i \in 1..(Len(t) - 1) PROVE t[i + 1].before = t[i].after
  BY <1>1, <1>2, <1>3
<1>6. Story(t, g)
  <2>1. IsSequence(t) /\ \A i \in 1..(Len(t) - 1) : t[i + 1].before = t[i].after
    BY <1>2, <1>5
  <2>2. Story(t, g) <=>
          /\ Len(t) = 0 => g = None
          /\ Len(t) # 0 => t[1].before = None /\ t[Len(t)].after = g
          /\ \A i \in 1..(Len(t) - 1) : t[i + 1].before = t[i].after
    BY <2>1, StoryFacts
  <2> QED BY <1>4, <2>1, <2>2
<1> QED BY <1>6 DEF t, e

-----------------------------------------------------------------------------
(* The invariant.                                                          *)

\* The events of every document are a sequence, and tell its story unless one of
\* them was dropped.
StoriesOK ==
  /\ durable => lost = {}
  /\ \A n \in Names : IsSequence(events[n]) /\ (n \notin lost => Story(events[n], FieldsOf(docs[n])))

(* The inductive invariant: who waits is in the queue once, the lock is    *)
(* held by who waits with it, and a validated token stays while it does.   *)
IInv ==
  /\ TypeOK /\ HandlersOK /\ JobsOK /\ LockOK /\ TokensOK
  /\ StoriesOK /\ TokenCommitsOnce
  /\ ReadingsOK /\ ToRunOK /\ TimesOK /\ ConsoleOK

\* The stories of all documents are what the property says.
LEMMA StoriesTell == StoriesOK => EventsTellTheStory
BY DEF StoriesOK, EventsTellTheStory, Story

\* What clients and the console ask for: an edit demands the document that it has
\* read, a clone that there is none.
Asked(op, db, writes, token, seen) ==
  /\ op \in Ops /\ op # "none" /\ db \in Databases /\ writes \in Seq(Mutation)
  /\ token \in tokens \cup {None} /\ (token # None => op = "commit")
  /\ seen \in Seq(Document) /\ \A i \in 1..Len(seen) : \E n \in Names : docs[n] # None /\ seen[i] = docs[n]
  /\ op = "edit" => /\ Len(writes) = 1 /\ Len(seen) = 1 /\ seen[1] = docs[writes[1].name]
                    /\ writes[1].cond = UpdateTime(seen[1].time)
  /\ op = "clone" => \A i \in 1..Len(writes) : writes[i].cond = Absent

\* The writes of the console and of a created document.
LEMMA UpdateFacts ==
  ASSUME NEW n \in Names, NEW f \in Contents, NEW mask \in SUBSET Fields, NEW cond \in Condition
  PROVE  /\ Update(n, f, mask, cond) \in Mutation
         /\ Update(n, f, mask, cond).name = n /\ Update(n, f, mask, cond).cond = cond
BY DEF Update, Mutation

\* The preconditions.
LEMMA ConditionFacts ==
  /\ Absent \in Condition
  /\ \A t \in 1..MaxClock : UpdateTime(t) \in Condition
BY FirestoreAssumption DEF Absent, UpdateTime, Condition

\* Whatever a client or the console asks for, the request begins alike.
LEMMA RequestFacts ==
  ASSUME TypeOK, NEW c \in Calls, Request(c)
  PROVE  \E op, db, writes, token, seen :
           Begin(c, op, db, writes, token, seen) /\ Asked(op, db, writes, token, seen)
<1> DEFINE Goal == \E op, db, writes, token, seen :
                     Begin(c, op, db, writes, token, seen) /\ Asked(op, db, writes, token, seen)
<1>a. /\ setup.batches \subseteq Seq(Mutation) /\ setup.clears \subseteq Databases
      /\ setup.creates \subseteq [name : Names, fields : Contents]
      /\ setup.edits \subseteq [name : Names, field : Fields, new : Fields, value : Values]
      /\ setup.saves \subseteq [name : Names, field : Fields, value : Values]
      /\ \A x \in setup.clones :
            /\ x.root \in Names /\ IsFiniteSet(DOMAIN x.to) /\ DOMAIN x.to \subseteq Names
            /\ \A name \in DOMAIN x.to : x.to[name] \in Names
      /\ \A name \in Names : Database(name) \in Databases
  BY FirestoreAssumption DEF TypeOK
<1>n. /\ <<>> \in Seq(Document) /\ Len(<<>>) = 0 /\ <<>> \in Seq(Mutation)
      /\ \A w \in Mutation : <<w>> \in Seq(Mutation) /\ Len(<<w>>) = 1 /\ <<w>>[1] = w
      /\ \A w \in Document : <<w>> \in Seq(Document) /\ Len(<<w>>) = 1 /\ <<w>>[1] = w
  OBVIOUS
<1>p. {"commit", "batch", "write", "create", "auto", "clear", "edit", "save", "clone"} \subseteq Ops
  BY DEF Ops
<1>s. ASSUME NEW op \in Ops \ {"none", "edit", "clone"}, NEW db \in Databases,
             NEW writes \in Seq(Mutation), NEW t \in tokens \cup {None}, t # None => op = "commit"
      PROVE  Asked(op, db, writes, t, <<>>)
  BY <1>n, <1>s DEF Asked
<1>d. ASSUME NEW n \in Names, docs[n] # None
      PROVE  /\ docs[n] \in Document /\ docs[n].time \in 1..MaxClock
             /\ docs[n].fields \in Contents
  BY <1>d DEF TypeOK, Document
<1>1. ASSUME NEW db \in Databases, NEW b \in setup.batches, NEW t \in tokens \cup {None},
             BeginCommit(c, db, b, t)
      PROVE  Goal
  <2>1. Begin(c, "commit", db, b, t, <<>>)
    BY <1>1 DEF BeginCommit
  <2>2. Asked("commit", db, b, t, <<>>)
    BY <1>a, <1>p, <1>s
  <2> QED BY <2>1, <2>2
<1>2. ASSUME NEW db \in Databases, NEW b \in setup.batches, BeginBatch(c, db, b) PROVE Goal
  <2>1. Begin(c, "batch", db, b, None, <<>>)
    BY <1>2 DEF BeginBatch
  <2>2. Asked("batch", db, b, None, <<>>)
    BY <1>a, <1>p, <1>s
  <2> QED BY <2>1, <2>2
<1>3. ASSUME NEW b \in setup.batches, Len(b) = 1, BeginWrite(c, b[1]) PROVE Goal
  <2>1. b[1] \in Mutation /\ b[1].name \in Names
    <3>1. b \in Seq(Mutation)
      BY <1>a
    <3>2. b[1] \in Mutation
      BY <1>3, <3>1
    <3> QED BY <3>2 DEF Mutation
  <2>2. Begin(c, "write", Database(b[1].name), <<b[1]>>, None, <<>>)
    BY <1>3 DEF BeginWrite
  <2>3. Asked("write", Database(b[1].name), <<b[1]>>, None, <<>>)
    <3>1. <<b[1]>> \in Seq(Mutation) /\ Database(b[1].name) \in Databases
      BY <1>a, <1>n, <2>1
    <3> QED BY <1>p, <1>s, <3>1
  <2> QED BY <2>2, <2>3
<1>4. ASSUME NEW x \in setup.creates, NEW auto \in BOOLEAN, BeginCreate(c, x.name, x.fields, auto)
      PROVE  Goal
  <2> DEFINE w == Update(x.name, x.fields, Fields, Absent)
             op == IF auto THEN "auto" ELSE "create"
  <2>1. x.name \in Names /\ x.fields \in Contents
    BY <1>a
  <2>2. Begin(c, op, Database(x.name), <<w>>, None, <<>>)
    BY <1>4 DEF BeginCreate
  <2>3. Asked(op, Database(x.name), <<w>>, None, <<>>)
    <3>1. w \in Mutation
      BY <2>1, UpdateFacts, ConditionFacts
    <3> HIDE DEF w
    <3>2. <<w>> \in Seq(Mutation) /\ Database(x.name) \in Databases
      BY <1>a, <1>n, <2>1, <3>1
    <3>3. op \in Ops \ {"none", "edit", "clone"}
      BY <1>p
    <3> HIDE DEF op
    <3> QED BY <1>s, <3>2, <3>3
  <2> QED BY <2>2, <2>3
<1>5. ASSUME NEW db \in setup.clears, BeginClear(c, db) PROVE Goal
  <2>1. Begin(c, "clear", db, <<>>, None, <<>>)
    BY <1>5 DEF BeginClear
  <2>2. Asked("clear", db, <<>>, None, <<>>)
    BY <1>a, <1>n, <1>p, <1>s
  <2> QED BY <2>1, <2>2
<1>6. ASSUME NEW e \in setup.edits, BeginEdit(c, e.name, e.field, e.new, e.value) PROVE Goal
  <2>1. e.name \in Names
    BY <1>a
  <2>2. PICK mask \in SUBSET Fields, change \in Contents :
          /\ docs[e.name] # None
          /\ Begin(c, "edit", Database(e.name), <<EditOf(e.name, mask, change)>>, None,
                   <<docs[e.name]>>)
    BY <1>6 DEF BeginEdit, Contents
  <2> DEFINE w == EditOf(e.name, mask, change)
             d == docs[e.name]
  <2>3. d \in Document /\ d.time \in 1..MaxClock
    BY <1>d, <2>1, <2>2
  <2>4. w \in Mutation /\ w.name = e.name /\ w.cond = UpdateTime(d.time)
    BY <2>1, <2>3, UpdateFacts, ConditionFacts DEF EditOf
  <2>5. Asked("edit", Database(e.name), <<w>>, None, <<d>>)
    <3> HIDE DEF w
    <3>1. /\ <<w>> \in Seq(Mutation) /\ Len(<<w>>) = 1 /\ <<w>>[1] = w
          /\ <<d>> \in Seq(Document) /\ Len(<<d>>) = 1 /\ <<d>>[1] = d
      BY <1>n, <2>3, <2>4
    <3>2. Database(e.name) \in Databases
      BY <1>a, <2>1
    <3> QED BY <1>p, <2>1, <2>2, <2>4, <3>1, <3>2 DEF Asked
  <2> QED BY <2>2, <2>5
<1>9. ASSUME NEW s \in setup.saves, BeginSave(c, s.name, s.field, s.value) PROVE Goal
  <2> DEFINE value == [f \in Fields |-> IF f = s.field THEN s.value ELSE None]
             w == Update(s.name, value, {s.field}, Exists)
             d == docs[s.name]
  <2>1. s.name \in Names /\ s.field \in Fields /\ s.value \in Values /\ Exists \in Condition
    BY <1>a, FirestoreAssumption DEF Exists, Condition
  <2>2. d # None /\ Begin(c, "save", Database(s.name), <<w>>, None, <<d>>)
    BY <1>9 DEF BeginSave
  <2>3. d \in Document
    BY <1>d, <2>1, <2>2
  <2>4. w \in Mutation /\ w.name = s.name
    <3>1. value \in Contents /\ {s.field} \in SUBSET Fields
      BY <2>1 DEF Contents
    <3> HIDE DEF value
    <3> QED BY <2>1, <3>1, UpdateFacts
  <2>5. Asked("save", Database(s.name), <<w>>, None, <<d>>)
    <3> HIDE DEF w
    <3>1. /\ <<w>> \in Seq(Mutation) /\ <<d>> \in Seq(Document) /\ Len(<<d>>) = 1 /\ <<d>>[1] = d
      BY <1>n, <2>3, <2>4
    <3>2. Database(s.name) \in Databases
      BY <1>a, <2>1
    <3> QED BY <1>p, <2>1, <2>2, <3>1, <3>2 DEF Asked
  <2> QED BY <2>2, <2>5
<1>7. ASSUME NEW x \in setup.clones, BeginClone(c, x) PROVE Goal
  <2> DEFINE S == {n \in DOMAIN x.to : docs[n] # None}
             sources == SetToSeq(S)
             writes == Copies(sources, x.to)
             seen == [i \in DOMAIN sources |-> docs[sources[i]]]
  <2>1. Begin(c, "clone", Database(x.root), writes, None, seen)
    BY <1>7 DEF BeginClone
  <2>2. sources \in [1..Cardinality(S) -> S] /\ Cardinality(S) \in Nat
    BY <1>a, FS_Subset, SetToSeqFacts
  <2>3. \A i \in 1..Cardinality(S) :
          /\ sources[i] \in DOMAIN x.to /\ sources[i] \in Names /\ docs[sources[i]] # None
    BY <1>a, <2>2
  <2>4. DOMAIN sources = 1..Cardinality(S)
    BY <2>2
  <2> DEFINE k == Cardinality(S)
  <2> HIDE DEF sources, S, k
  <2>5. writes \in [1..k -> Mutation] /\ \A i \in 1..k : writes[i].cond = Absent
    <3>1. ASSUME NEW i \in 1..k
          PROVE  /\ Update(x.to[sources[i]], docs[sources[i]].fields, Fields, Absent) \in Mutation
                 /\ Update(x.to[sources[i]], docs[sources[i]].fields, Fields, Absent).cond = Absent
      <4>1. x.to[sources[i]] \in Names
        BY <1>a, <2>3 DEF k
      <4>2. docs[sources[i]].fields \in Contents
        BY <1>d, <2>3 DEF k
      <4> QED BY <4>1, <4>2, UpdateFacts, ConditionFacts
    <3>2. writes = [i \in 1..k |-> Update(x.to[sources[i]], docs[sources[i]].fields, Fields, Absent)]
      BY <2>4 DEF Copies, k
    <3> QED BY <3>1, <3>2
  <2>6. seen \in [1..k -> Document] /\ \A i \in 1..k : seen[i] = docs[sources[i]]
    BY <1>d, <2>3, <2>4 DEF k
  <2> HIDE DEF writes, seen
  <2>7. /\ writes \in Seq(Mutation) /\ Len(writes) = k /\ seen \in Seq(Document) /\ Len(seen) = k
    <3>1. k \in Nat
      BY <2>2 DEF k
    <3> QED BY <2>5, <2>6, <3>1, SeqDef, LenProperties
  <2>8. Asked("clone", Database(x.root), writes, None, seen)
    <3>1. Database(x.root) \in Databases
      BY <1>a
    <3>2. \A i \in 1..Len(seen) : \E n \in Names : docs[n] # None /\ seen[i] = docs[n]
      BY <2>3, <2>6, <2>7 DEF k
    <3> QED BY <1>p, <2>5, <2>7, <3>1, <3>2 DEF Asked
  <2> QED BY <2>1, <2>8
<1> HIDE DEF Goal
<1>8. Goal
  BY <1>1, <1>2, <1>3, <1>4, <1>5, <1>6, <1>7, <1>9 DEF Request
<1> QED BY <1>8 DEF Goal

\* The steps of the store, the requests as one.
LEMMA NextCases ==
  ASSUME IInv, Next
  PROVE  \/ \E c \in Calls : \/ Apply(c) \/ TakeLock(c) \/ RefuseToken(c) \/ Resume(c) \/ Leave(c)
                             \/ \E op, db, writes, token, seen :
                                  /\ Begin(c, op, db, writes, token, seen)
                                  /\ Asked(op, db, writes, token, seen)
         \/ RunJob \/ FailJob \/ Restart
         \/ \E db \in Databases : begin_transaction(db)
         \/ \E t \in tokens : rollback(t)
BY RequestFacts DEF Next, Handler, IInv

\* Idle has its type.
LEMMA IdleType == Idle \in Call /\ Idle.at = 0
<1>1. <<>> \in Seq(Mutation) /\ <<>> \in Seq(Document) /\ 0 \in 0..MaxClock
  BY FirestoreAssumption
<1> QED BY <1>1 DEF Idle, Call, Steps, Ops

\* The initial state satisfies the invariant.
LEMMA InitIInv == Init => IInv
<1> SUFFICES ASSUME Init PROVE IInv
  OBVIOUS
<1>0. IsSequence(<<>>) /\ Len(<<>>) = 0
  <2>1. <<>> \in Seq({})
    OBVIOUS
  <2> QED BY <2>1, AnySequence
<1>1. HandlersOK /\ JobsOK /\ LockOK
  BY <1>0 DEF Init, HandlersOK, JobsOK, LockOK, Idle, Steps, Waits
<1>2. TokensOK /\ TokenCommitsOnce
  BY <1>0 DEF Init, TokensOK, TokenCommitsOnce, Idle, Waits
<1>3. StoriesOK
  BY <1>0, StoryFacts DEF Init, StoriesOK, FieldsOf
<1>4. TypeOK
  <2>1. /\ setup.tokens \in Nat /\ MaxClock \in Nat /\ MaxCrashes \in Nat /\ Len(AutoNames) \in Nat
        /\ setup \in Setups
    BY FirestoreAssumption DEF Init
  <2>2. /\ 0 \in 0..Len(AutoNames) /\ 0 \in 0..MaxClock /\ 0 \in 0..MaxCrashes /\ 0 \in 0..setup.tokens
        /\ <<>> \in Seq(Event) /\ <<>> \in Seq(Token)
        /\ <<>> \in Seq([caller : Calls \cup {None}, call : Call])
    BY <2>1
  <2> QED BY <2>1, <2>2, IdleType DEF Init, TypeOK
<1>5. jobs = <<>> /\ Queued = {} /\ Requested \subseteq {Idle} /\ ToRun = {}
  <2>1. \A c \in Calls : calls[c] = Idle /\ calls[c].step # "lock"
    BY DEF Init, Idle
  <2>2. jobs = <<>> /\ DOMAIN jobs = {}
    BY DEF Init
  <2>3. Queued = {}
    BY <2>2 DEF Queued
  <2> QED BY <2>1, <2>2, <2>3 DEF Requested, ToRun
<1>6. /\ Idle.at = 0 /\ Idle.op = "none" /\ DOMAIN Idle.seen = {} /\ clock = 0
      /\ (\A n \in Names : docs[n] = None) /\ \A c \in Calls : calls[c] = Idle
  BY DEF Init, Idle
<1>7. ReadingsOK /\ ToRunOK /\ TimesOK /\ ConsoleOK
  BY <1>5, <1>6 DEF ReadingsOK, ToRunOK, TimesOK, ConsoleOK
<1> QED BY <1>1, <1>2, <1>3, <1>4, <1>7 DEF IInv

\* Each change of a document is told once, whatever request makes it.
LEMMA StoriesStep ==
  ASSUME IInv, Next
  PROVE  StoriesOK'
<1>t. StoriesOK /\ durable' = durable
  BY DEF IInv, Next, durable
<1>0. IsSequence(<<>>) /\ Len(<<>>) = 0
  <2>1. <<>> \in Seq({})
    OBVIOUS
  <2> QED BY <2>1, AnySequence
<1>e. Story(<<>>, None)
  BY <1>0, StoryFacts
<1>1. ASSUME NEW call, Write(call) PROVE StoriesOK'
  <2>1. PICK dropped \in SUBSET Changed(docs, docs') :
          /\ durable => dropped = {}
          /\ events' = Recorded(docs, docs', dropped) /\ lost' = lost \cup dropped
    BY <1>1 DEF Write
  <2>2. ASSUME NEW n \in Names
        PROVE  IsSequence(events'[n]) /\ (n \notin lost' => Story(events'[n], FieldsOf(docs'[n])))
    <3>1. \/ events'[n] = events[n] /\ (n \in dropped \/ FieldsOf(docs[n]) = FieldsOf(docs'[n]))
          \/ events'[n] = Append(events[n], [before |-> FieldsOf(docs[n]), after |-> FieldsOf(docs'[n])])
      BY <2>1 DEF Recorded, Changed
    <3> HIDE DEF FieldsOf
    <3>2. IsSequence(events[n]) /\ (n \notin lost => Story(events[n], FieldsOf(docs[n])))
      BY <1>t DEF StoriesOK
    <3>3. CASE events'[n] = events[n] /\ (n \in dropped \/ FieldsOf(docs[n]) = FieldsOf(docs'[n]))
      BY <2>1, <3>2, <3>3
    <3>4. CASE events'[n] = Append(events[n], [before |-> FieldsOf(docs[n]), after |-> FieldsOf(docs'[n])])
      <4>1. IsSequence(events'[n])
        BY <3>2, <3>4, AppendAny
      <4>2. n \notin lost => Story(events'[n], FieldsOf(docs'[n]))
        BY <3>2, <3>4, StoryGoesOn
      <4> QED BY <2>1, <4>1, <4>2
    <3> QED BY <3>1, <3>3, <3>4
  <2>3. durable' => lost' = {}
    BY <1>t, <2>1 DEF StoriesOK
  <2> QED BY <2>2, <2>3 DEF StoriesOK
<1>2. ASSUME NEW db, Clear(db) PROVE StoriesOK'
  <2>1. FieldsOf(None) = None
    BY DEF FieldsOf
  <2>2. /\ lost' = {n \in lost : Database(n) # db}
        /\ \A n \in Names : IF Database(n) = db THEN docs'[n] = None /\ events'[n] = <<>>
                            ELSE docs'[n] = docs[n] /\ events'[n] = events[n]
    BY <1>2 DEF Clear
  <2> QED BY <1>0, <1>e, <1>t, <2>1, <2>2 DEF StoriesOK
<1>3. ASSUME UNCHANGED <<docs, eventVars>> PROVE StoriesOK'
  BY <1>3, <1>t DEF StoriesOK, eventVars
<1>4. ASSUME NEW c \in Calls, Apply(c) PROVE StoriesOK'
  BY <1>1, <1>2, <1>4 DEF Apply
<1>5. ASSUME NEW c \in Calls, TakeLock(c) \/ RefuseToken(c) \/ Resume(c) \/ Leave(c)
      PROVE  StoriesOK'
  BY <1>3, <1>5 DEF TakeLock, RefuseToken, Resume, Leave
<1>6. ASSUME NEW c \in Calls, NEW op, NEW db, NEW writes, NEW token, NEW seen,
             Begin(c, op, db, writes, token, seen)
      PROVE  StoriesOK'
  BY <1>3, <1>6 DEF Begin
<1>7. ASSUME RunJob PROVE StoriesOK'
  BY <1>1, <1>2, <1>7 DEF RunJob
<1>8. ASSUME Restart PROVE StoriesOK'
  <2>1. FieldsOf(None) = None
    BY DEF FieldsOf
  <2>2. CASE UNCHANGED <<docs, eventVars>>
    BY <1>3, <2>2
  <2>3. CASE lost' = {} /\ \A n \in Names : docs'[n] = None /\ events'[n] = <<>>
    BY <1>0, <1>e, <2>1, <2>3 DEF StoriesOK
  <2> QED BY <1>8, <2>2, <2>3 DEF Restart
<1>9. ASSUME FailJob \/ (\E db \in Databases : begin_transaction(db)) \/ \E t \in tokens : rollback(t)
      PROVE  StoriesOK'
  BY <1>3, <1>9 DEF FailJob, begin_transaction, rollback
<1> QED BY <1>4, <1>5, <1>6, <1>7, <1>8, <1>9, NextCases

\* Idle is a handler with nothing to do.
LEMMA IdleFacts ==
  /\ Idle.step = "idle" /\ Idle.op = "none" /\ Idle.token = None
  /\ DOMAIN Idle = {"step", "op", "db", "writes", "token", "at", "seen"}
  /\ "idle" \in Steps
BY DEF Idle, Steps

\* Another step of the same request.
LEMMA SetStepFacts ==
  ASSUME HandlersOK, NEW c \in Calls, NEW st, calls' = [calls EXCEPT ![c].step = st]
  PROVE  /\ DOMAIN calls' = Calls
         /\ \A d \in Calls : d # c => calls'[d] = calls[d]
         /\ DOMAIN calls'[c] = DOMAIN Idle /\ calls'[c].step = st
         /\ calls'[c].op = calls[c].op /\ calls'[c].token = calls[c].token
<1>1. DOMAIN calls = Calls /\ DOMAIN calls[c] = {"step", "op", "db", "writes", "token", "at", "seen"}
  BY IdleFacts DEF HandlersOK
<1> QED BY <1>1, IdleFacts

\* The request that begins.
LEMMA BeginFacts ==
  ASSUME HandlersOK, NEW c \in Calls, NEW op, NEW db, NEW writes, NEW token, NEW seen,
         Begin(c, op, db, writes, token, seen)
  PROVE  /\ DOMAIN calls' = Calls /\ calls[c] = Idle
         /\ \A d \in Calls : d # c => calls'[d] = calls[d]
         /\ DOMAIN calls'[c] = DOMAIN Idle
         /\ calls'[c].step = IF TakesLock(op) THEN "lock" ELSE "job"
         /\ calls'[c].op = op /\ calls'[c].token = token
         /\ IF TakesLock(op) THEN jobs' = jobs
            ELSE \E job : /\ jobs' = Append(jobs, job) /\ job.caller = c
                          /\ DOMAIN job = {"caller", "call"}
<1> DEFINE call == [step |-> IF TakesLock(op) THEN "lock" ELSE "job", op |-> op, db |-> db,
                    writes |-> writes, token |-> token, at |-> clock + 1, seen |-> seen]
           job == [caller |-> c, call |-> call]
<1>1. /\ calls[c] = Idle /\ calls' = [calls EXCEPT ![c] = call]
      /\ jobs' = IF TakesLock(op) THEN jobs ELSE Append(jobs, job)
  BY DEF Begin
<1>2. /\ call.step = IF TakesLock(op) THEN "lock" ELSE "job"
      /\ call.op = op /\ call.token = token /\ DOMAIN call = DOMAIN Idle
  BY IdleFacts
<1>3. job.caller = c /\ DOMAIN job = {"caller", "call"}
  OBVIOUS
<1> HIDE DEF call, job
<1> QED BY <1>1, <1>2, <1>3 DEF HandlersOK

\* Whose job the writer takes, and what its caller is told.
LEMMA JobFacts ==
  ASSUME IInv, NEW st, jobs # <<>>, jobs' = Tail(jobs), Answer(st)
  PROVE  /\ IsSequence(jobs')
         /\ Head(jobs) = jobs[1] /\ Len(jobs') = Len(jobs) - 1 /\ Len(jobs) \in Nat \ {0}
         /\ \A i \in 1..Len(jobs') : jobs'[i] = jobs[i + 1] /\ i + 1 \in 1..Len(jobs)
         /\ \/ jobs[1].caller = None /\ calls' = calls
            \/ \E c \in Calls : /\ jobs[1].caller = c /\ calls[c].step = "job"
                                /\ calls' = [calls EXCEPT ![c].step = st]
<1>1. /\ IsSequence(jobs') /\ Head(jobs) = jobs[1] /\ Len(jobs') = Len(jobs) - 1
      /\ Len(jobs) \in Nat \ {0} /\ \A i \in 1..Len(jobs') : jobs'[i] = jobs[i + 1]
  BY TailAny DEF IInv, JobsOK
<1>2. \A i \in 1..Len(jobs') : i + 1 \in 1..Len(jobs)
  BY <1>1
<1>3. jobs[1].caller # None => jobs[1].caller \in Calls /\ calls[jobs[1].caller].step = "job"
  BY <1>1 DEF IInv, JobsOK
<1> QED BY <1>1, <1>2, <1>3 DEF Answer

\* The requests keep their shape.
LEMMA HandlersStep ==
  ASSUME IInv, Next
  PROVE  HandlersOK'
<1>t. HandlersOK /\ durable' = durable
  BY DEF IInv, Next, durable
<1>s. {"idle", "lock", "job", "done", "refused"} = Steps
  BY DEF Steps
<1>1. ASSUME NEW c \in Calls, Return(c) PROVE HandlersOK'
  BY <1>1, <1>t, IdleFacts DEF Return, HandlersOK, TakesLock
<1>2. ASSUME NEW c \in Calls, NEW st \in {"job", "done", "refused"},
             calls' = [calls EXCEPT ![c].step = st]
      PROVE  HandlersOK'
  BY <1>2, <1>s, <1>t, SetStepFacts DEF HandlersOK, TakesLock
<1>3. ASSUME UNCHANGED calls PROVE HandlersOK'
  BY <1>3, <1>t DEF HandlersOK, TakesLock
<1>4. ASSUME NEW c \in Calls, Apply(c) \/ RefuseToken(c) \/ Resume(c) \/ Leave(c) PROVE HandlersOK'
  BY <1>1, <1>4 DEF Apply, RefuseToken, Resume, Leave
<1>5. ASSUME NEW c \in Calls, TakeLock(c) PROVE HandlersOK'
  BY <1>2, <1>5 DEF TakeLock
<1>6. ASSUME NEW c \in Calls, NEW op, NEW db, NEW writes, NEW token, NEW seen,
             Begin(c, op, db, writes, token, seen), token # None => op = "commit"
      PROVE  HandlersOK'
  BY <1>6, <1>s, <1>t, BeginFacts DEF HandlersOK, TakesLock
<1>7. ASSUME NEW st \in {"done", "refused"}, jobs # <<>>, jobs' = Tail(jobs), Answer(st)
      PROVE  HandlersOK'
  BY <1>2, <1>3, <1>7, JobFacts
<1>8. ASSUME RunJob \/ FailJob PROVE HandlersOK'
  <2>1. jobs # <<>> /\ jobs' = Tail(jobs) /\ (Answer("done") \/ Answer("refused"))
    BY <1>8 DEF RunJob, FailJob
  <2> QED BY <1>7, <2>1
<1>9. ASSUME Restart PROVE HandlersOK'
  BY <1>9, IdleFacts DEF Restart, HandlersOK, TakesLock
<1>10. ASSUME (\E db \in Databases : begin_transaction(db)) \/ \E t \in tokens : rollback(t)
       PROVE  HandlersOK'
  BY <1>3, <1>10 DEF begin_transaction, rollback
<1> QED BY <1>4, <1>5, <1>6, <1>8, <1>9, <1>10, NextCases DEF Asked

\* Who waits has exactly one job in the queue, also after others leave.
LEMMA JobsStep ==
  ASSUME IInv, Next
  PROVE  JobsOK'
<1>t. HandlersOK /\ JobsOK /\ IsSequence(jobs) /\ Len(jobs) \in Nat /\ None \notin Calls
  BY AnySequence, FirestoreAssumption DEF IInv, JobsOK, IsSequence
<1>1. ASSUME UNCHANGED jobs, NEW c \in Calls, \A d \in Calls : d # c => calls'[d] = calls[d],
             calls[c].step # "job", calls'[c].step # "job"
      PROVE  JobsOK'
  BY <1>1, <1>t DEF JobsOK
<1>2. ASSUME NEW c \in Calls, NEW job, job.caller = c, DOMAIN job = {"caller", "call"},
             jobs' = Append(jobs, job),
             \A d \in Calls : d # c => calls'[d] = calls[d],
             calls[c].step # "job", calls'[c].step = "job"
      PROVE  JobsOK'
  <2>1. /\ IsSequence(jobs') /\ Len(jobs') = Len(jobs) + 1 /\ jobs'[Len(jobs) + 1] = job
        /\ \A i \in 1..Len(jobs) : jobs'[i] = jobs[i]
    BY <1>2, <1>t, AppendAny
  <2>2. \A i \in 1..Len(jobs) : jobs[i].caller # c
    BY <1>2, <1>t DEF JobsOK
  <2>3. ASSUME NEW i \in 1..Len(jobs'), jobs'[i].caller # None
        PROVE  /\ jobs'[i].caller \in Calls /\ calls'[jobs'[i].caller].step = "job"
               /\ \A j \in 1..Len(jobs') : jobs'[j].caller = jobs'[i].caller => j = i
    <3>1. CASE i = Len(jobs) + 1
      BY <1>2, <1>t, <2>1, <2>2, <3>1
    <3>2. CASE i \in 1..Len(jobs)
      <4>1. jobs'[i] = jobs[i] /\ jobs[i].caller # None /\ jobs[i].caller # c
        BY <2>1, <2>2, <2>3, <3>2
      <4>2. /\ jobs[i].caller \in Calls /\ calls[jobs[i].caller].step = "job"
            /\ \A j \in 1..Len(jobs) : jobs[j].caller = jobs[i].caller => j = i
        BY <1>t, <3>2, <4>1 DEF JobsOK
      <4>3. calls'[jobs[i].caller].step = "job"
        BY <1>2, <4>1, <4>2
      <4>4. \A j \in 1..Len(jobs') : jobs'[j].caller = jobs[i].caller => j = i
        BY <1>2, <1>t, <2>1, <4>1, <4>2
      <4> QED BY <4>1, <4>2, <4>3, <4>4
    <3> QED BY <1>t, <2>1, <3>1, <3>2
  <2>4. ASSUME NEW d \in Calls, calls'[d].step = "job"
        PROVE  \E i \in 1..Len(jobs') : jobs'[i].caller = d
    <3>1. CASE d = c
      BY <1>2, <1>t, <2>1, <3>1
    <3>2. CASE d # c
      <4>1. PICK i \in 1..Len(jobs) : jobs[i].caller = d
        BY <1>2, <1>t, <2>4, <3>2 DEF JobsOK
      <4> QED BY <1>t, <2>1, <4>1
    <3> QED BY <3>1, <3>2
  <2>5. ASSUME NEW i \in 1..Len(jobs') PROVE DOMAIN jobs'[i] = {"caller", "call"}
    <3>1. CASE i = Len(jobs) + 1
      <4>1. jobs'[i] = job
        BY <2>1, <3>1
      <4> QED BY <1>2, <4>1
    <3>2. CASE i \in 1..Len(jobs)
      <4>1. jobs'[i] = jobs[i] /\ DOMAIN jobs[i] = {"caller", "call"}
        BY <1>t, <2>1, <3>2 DEF JobsOK
      <4> QED BY <4>1
    <3> QED BY <1>t, <2>1, <3>1, <3>2
  <2> QED BY <2>1, <2>3, <2>4, <2>5 DEF JobsOK
<1>3. ASSUME UNCHANGED <<jobs, calls>> PROVE JobsOK'
  BY <1>3, <1>t DEF JobsOK
<1>4. ASSUME NEW c \in Calls, Apply(c) \/ RefuseToken(c) \/ Resume(c) PROVE JobsOK'
  <2>1. UNCHANGED jobs /\ Return(c) /\ calls[c].step # "job"
    BY <1>4 DEF Apply, RefuseToken, Resume
  <2> QED BY <1>1, <1>t, <2>1, IdleFacts DEF Return, HandlersOK
<1>5. ASSUME NEW c \in Calls, TakeLock(c) PROVE JobsOK'
  <2>1. PICK job : jobs' = Append(jobs, job) /\ job.caller = c /\ DOMAIN job = {"caller", "call"}
    <3> DEFINE job == [caller |-> c, call |-> calls[c]]
    <3>1. jobs' = Append(jobs, job) /\ job.caller = c /\ DOMAIN job = {"caller", "call"}
      BY <1>5 DEF TakeLock
    <3> QED BY <3>1
  <2>2. calls[c].step = "lock" /\ calls' = [calls EXCEPT ![c].step = "job"]
    BY <1>5 DEF TakeLock
  <2>3. (\A d \in Calls : d # c => calls'[d] = calls[d]) /\ calls'[c].step = "job"
    BY <1>t, <2>2, SetStepFacts
  <2> QED BY <1>2, <2>1, <2>2, <2>3
<1>6. ASSUME NEW c \in Calls, NEW op, NEW db, NEW writes, NEW token, NEW seen,
             Begin(c, op, db, writes, token, seen)
      PROVE  JobsOK'
  BY <1>1, <1>2, <1>6, <1>t, BeginFacts, IdleFacts
<1>7. ASSUME NEW st \in {"done", "refused"}, jobs # <<>>, jobs' = Tail(jobs), Answer(st)
      PROVE  JobsOK'
  <2>1. /\ IsSequence(jobs') /\ Len(jobs') = Len(jobs) - 1 /\ Len(jobs) \in Nat \ {0}
        /\ \A i \in 1..Len(jobs') : jobs'[i] = jobs[i + 1] /\ i + 1 \in 1..Len(jobs)
        /\ \/ jobs[1].caller = None /\ calls' = calls
           \/ \E c \in Calls : /\ jobs[1].caller = c
                               /\ calls' = [calls EXCEPT ![c].step = st]
    BY <1>7, JobFacts
  <2>2. \A d \in Calls : calls'[d].step = "job" <=> calls[d].step = "job" /\ jobs[1].caller # d
    <3>1. CASE jobs[1].caller = None /\ calls' = calls
      BY <1>t, <3>1
    <3>2. ASSUME NEW c \in Calls, jobs[1].caller = c, calls' = [calls EXCEPT ![c].step = st]
          PROVE  \A d \in Calls : calls'[d].step = "job" <=> calls[d].step = "job" /\ d # c
      <4>1. (\A d \in Calls : d # c => calls'[d] = calls[d]) /\ calls'[c].step = st
        BY <1>t, <3>2, SetStepFacts
      <4> QED BY <4>1
    <3> QED BY <2>1, <3>1, <3>2
  <2>4. ASSUME NEW i \in 1..Len(jobs'), jobs'[i].caller # None
        PROVE  /\ jobs'[i].caller \in Calls /\ calls'[jobs'[i].caller].step = "job"
               /\ \A j \in 1..Len(jobs') : jobs'[j].caller = jobs'[i].caller => j = i
    <3>1. /\ jobs[i + 1].caller \in Calls /\ calls[jobs[i + 1].caller].step = "job"
          /\ \A j \in 1..Len(jobs) : jobs[j].caller = jobs[i + 1].caller => j = i + 1
      BY <1>t, <2>1, <2>4 DEF JobsOK
    <3>2. jobs[1].caller # jobs[i + 1].caller
      BY <2>1, <3>1
    <3>3. ASSUME NEW j \in 1..Len(jobs'), jobs'[j].caller = jobs'[i].caller PROVE j = i
      <4>1. j + 1 = i + 1
        BY <2>1, <3>1, <3>3
      <4> QED BY <2>1, <4>1
    <3> QED BY <2>1, <2>2, <3>1, <3>2, <3>3
  <2>5. ASSUME NEW d \in Calls, calls'[d].step = "job"
        PROVE  \E i \in 1..Len(jobs') : jobs'[i].caller = d
    <3>1. PICK i \in 1..Len(jobs) : jobs[i].caller = d
      BY <1>t, <2>2, <2>5 DEF JobsOK
    <3>2. i # 1
      BY <2>2, <2>5, <3>1
    <3>3. i - 1 \in 1..Len(jobs') /\ (i - 1) + 1 = i
      BY <2>1, <3>2
    <3> QED BY <2>1, <3>1, <3>3
  <2>6. \A i \in 1..Len(jobs') : DOMAIN jobs'[i] = {"caller", "call"}
    BY <1>t, <2>1 DEF JobsOK
  <2> QED BY <2>1, <2>4, <2>5, <2>6 DEF JobsOK
<1>8. ASSUME RunJob \/ FailJob PROVE JobsOK'
  <2>1. jobs # <<>> /\ jobs' = Tail(jobs) /\ (Answer("done") \/ Answer("refused"))
    BY <1>8 DEF RunJob, FailJob
  <2> QED BY <1>7, <2>1
<1>9. ASSUME NEW c \in Calls, Leave(c) PROVE JobsOK'
  <2> DEFINE Left(job) == IF job.caller = c THEN [job EXCEPT !.caller = None] ELSE job
  <2>1. DOMAIN jobs = 1..Len(jobs)
    BY <1>t DEF IsSequence
  <2>2. jobs' = [i \in 1..Len(jobs) |-> Left(jobs[i])]
    BY <1>9, <2>1 DEF Leave
  <2>3. IsSequence(jobs') /\ Len(jobs') = Len(jobs)
    <3> HIDE DEF Left
    <3> QED BY <1>t, <2>2, FunctionSequence
  <2>4. \A i \in 1..Len(jobs) : jobs[i].caller # c => jobs'[i] = jobs[i]
    BY <2>2
  <2>5. \A i \in 1..Len(jobs) : /\ jobs[i].caller = c => jobs'[i].caller = None
                                /\ DOMAIN jobs'[i] = {"caller", "call"}
    BY <1>t, <2>2 DEF JobsOK
  <2>6. Return(c)
    BY <1>9 DEF Leave
  <2>7. \A d \in Calls : calls'[d] = IF d = c THEN Idle ELSE calls[d]
    BY <1>t, <2>6 DEF Return, HandlersOK
  <2>8. ASSUME NEW i \in 1..Len(jobs'), jobs'[i].caller # None
        PROVE  /\ jobs'[i].caller \in Calls /\ calls'[jobs'[i].caller].step = "job"
               /\ \A j \in 1..Len(jobs') : jobs'[j].caller = jobs'[i].caller => j = i
    <3>1. jobs[i].caller # c /\ jobs'[i] = jobs[i]
      BY <2>3, <2>4, <2>5, <2>8
    <3> QED BY <1>t, <2>3, <2>4, <2>5, <2>7, <2>8, <3>1 DEF JobsOK
  <2>9. ASSUME NEW d \in Calls, calls'[d].step = "job"
        PROVE  \E i \in 1..Len(jobs') : jobs'[i].caller = d
    <3>1. d # c /\ calls[d].step = "job"
      BY <2>7, <2>9, IdleFacts
    <3> QED BY <1>t, <2>3, <2>4, <3>1 DEF JobsOK
  <2> QED BY <2>3, <2>5, <2>8, <2>9 DEF JobsOK
<1>10. ASSUME Restart PROVE JobsOK'
  <2>1. <<>> \in Seq({}) /\ Len(<<>>) = 0
    OBVIOUS
  <2>2. IsSequence(<<>>)
    BY <2>1, AnySequence
  <2> QED BY <1>10, <2>1, <2>2, IdleFacts DEF Restart, JobsOK
<1>11. ASSUME (\E db \in Databases : begin_transaction(db)) \/ \E t \in tokens : rollback(t)
       PROVE  JobsOK'
  BY <1>3, <1>11 DEF begin_transaction, rollback
<1> QED BY <1>4, <1>5, <1>6, <1>8, <1>9, <1>10, <1>11, NextCases

\* The lock is held by who waits with it and by nobody else.
LEMMA LockStep ==
  ASSUME IInv, Next
  PROVE  LockOK'
<1>t. HandlersOK /\ LockOK /\ durable' = durable /\ None \notin Calls
  BY FirestoreAssumption DEF IInv, Next, durable
<1>0. ASSUME UNCHANGED <<lock, calls>> PROVE LockOK'
  BY <1>0, <1>t DEF LockOK, Waits, TakesLock
<1>1. ASSUME NEW c \in Calls, UNCHANGED lock, \A d \in Calls : d # c => calls'[d] = calls[d],
             ~Waits(c), calls'[c].step \notin {"job", "done", "refused"}
      PROVE  LockOK'
  BY <1>1, <1>t DEF LockOK, Waits, TakesLock
<1>2. ASSUME NEW c \in Calls, NEW op, NEW db, NEW writes, NEW token, NEW seen,
             Begin(c, op, db, writes, token, seen)
      PROVE  LockOK'
  <2>1. /\ UNCHANGED lock /\ ~Waits(c) /\ \A d \in Calls : d # c => calls'[d] = calls[d]
        /\ calls'[c].step = (IF TakesLock(op) THEN "lock" ELSE "job") /\ calls'[c].op = op
    <3>1. /\ calls[c] = Idle /\ \A d \in Calls : d # c => calls'[d] = calls[d]
          /\ calls'[c].step = (IF TakesLock(op) THEN "lock" ELSE "job") /\ calls'[c].op = op
      BY <1>2, <1>t, BeginFacts
    <3>2. ~Waits(c)
      BY <3>1, IdleFacts DEF Waits
    <3>3. UNCHANGED lock
      BY <1>2 DEF Begin
    <3> QED BY <3>1, <3>2, <3>3
  <2>2. CASE TakesLock(op)
    BY <1>1, <2>1, <2>2
  <2>3. CASE ~TakesLock(op)
    BY <1>t, <2>1, <2>3 DEF LockOK, Waits, TakesLock
  <2> QED BY <2>2, <2>3
<1>3. ASSUME NEW c \in Calls, Return(c), lock' = Unlocked(c) PROVE LockOK'
  <2>1. (\A d \in Calls : d # c => calls'[d] = calls[d]) /\ calls'[c].step = "idle"
    BY <1>3, <1>t, IdleFacts DEF Return, HandlersOK
  <2> QED BY <1>3, <1>t, <2>1 DEF LockOK, Waits, TakesLock, Unlocked
<1>4. ASSUME NEW c \in Calls, Apply(c) \/ RefuseToken(c) PROVE LockOK'
  <2>1. UNCHANGED lock /\ Return(c) /\ calls[c].step = "lock"
    BY <1>4 DEF Apply, RefuseToken
  <2>2. (\A d \in Calls : d # c => calls'[d] = calls[d]) /\ calls'[c].step = "idle"
    BY <1>t, <2>1, IdleFacts DEF Return, HandlersOK
  <2> QED BY <1>1, <2>1, <2>2 DEF Waits
<1>5. ASSUME NEW c \in Calls, TakeLock(c) PROVE LockOK'
  <2>1. /\ durable /\ calls[c].step = "lock" /\ lock = None /\ lock' = c
        /\ calls' = [calls EXCEPT ![c].step = "job"]
    BY <1>5 DEF TakeLock
  <2>2. /\ \A d \in Calls : d # c => calls'[d] = calls[d]
        /\ calls'[c].step = "job" /\ calls'[c].op = calls[c].op
    BY <1>t, <2>1, SetStepFacts
  <2>3. TakesLock(calls[c].op)
    BY <1>t, <2>1 DEF HandlersOK
  <2> QED BY <1>t, <2>1, <2>2, <2>3 DEF LockOK, Waits, TakesLock
<1>6. ASSUME NEW c \in Calls, Resume(c) \/ Leave(c) PROVE LockOK'
  BY <1>3, <1>6 DEF Resume, Leave
<1>7. ASSUME NEW st \in {"done", "refused"}, jobs # <<>>, jobs' = Tail(jobs), Answer(st),
             UNCHANGED lock
      PROVE  LockOK'
  <2>1. CASE calls' = calls
    BY <1>0, <1>7, <2>1
  <2>2. ASSUME NEW c \in Calls, calls[c].step = "job", calls' = [calls EXCEPT ![c].step = st]
        PROVE  LockOK'
    <3>1. /\ \A d \in Calls : d # c => calls'[d] = calls[d]
          /\ calls'[c].step = st /\ calls'[c].op = calls[c].op
      BY <1>t, <2>2, SetStepFacts
    <3> QED BY <1>7, <1>t, <2>2, <3>1 DEF LockOK, Waits, TakesLock
  <2> QED BY <1>7, <2>1, <2>2, JobFacts
<1>8. ASSUME RunJob \/ FailJob PROVE LockOK'
  <2>1. jobs # <<>> /\ jobs' = Tail(jobs) /\ UNCHANGED lock /\ (Answer("done") \/ Answer("refused"))
    BY <1>8 DEF RunJob, FailJob
  <2> QED BY <1>7, <2>1
<1>9. ASSUME Restart PROVE LockOK'
  <2>1. lock' = None /\ calls' = [c \in Calls |-> Idle]
    BY <1>9 DEF Restart
  <2>2. \A c \in Calls : calls'[c].step = "idle"
    BY <2>1, IdleFacts
  <2> QED BY <2>1, <2>2 DEF LockOK, Waits
<1>10. ASSUME (\E db \in Databases : begin_transaction(db)) \/ \E t \in tokens : rollback(t)
       PROVE  LockOK'
  BY <1>0, <1>10 DEF begin_transaction, rollback
<1> QED BY <1>2, <1>4, <1>5, <1>6, <1>8, <1>9, <1>10, NextCases

\* Who waits with a token holds the lock.
LEMMA TokenHolds ==
  ASSUME HandlersOK, LockOK, NEW c \in Calls, Waits(c), calls[c].token # None
  PROVE  durable /\ lock = c
<1>1. calls[c].op \in Committing
  BY DEF HandlersOK, Committing
<1> QED BY <1>1 DEF LockOK, TakesLock

\* A token is acknowledged while it is there, and is gone with that.
LEMMA TokensStep ==
  ASSUME IInv, Next
  PROVE  TokensOK' /\ TokenCommitsOnce'
<1>t. HandlersOK /\ LockOK /\ TokensOK /\ TokenCommitsOnce /\ None \notin Calls
  BY FirestoreAssumption DEF IInv
<1>s. IsSequence(commits) /\ DOMAIN commits = 1..Len(commits) /\ Len(commits) \in Nat
  BY <1>t, AnySequence DEF TokensOK, IsSequence
<1> DEFINE Kept == \A c \in Calls : calls'[c].step \in {"job", "done", "refused"}
                                       /\ calls'[c].token # None => calls'[c].token \in tokens'
<1>0. ASSUME UNCHANGED <<calls, tokens>> PROVE Kept
  BY <1>0, <1>t DEF TokensOK, Waits
<1>1. ASSUME UNCHANGED <<begun, commits>>, tokens' \subseteq tokens, Kept
      PROVE  TokensOK' /\ TokenCommitsOnce'
  BY <1>1, <1>t DEF TokensOK, TokenCommitsOnce, Waits
<1>2. ASSUME NEW call, Acknowledged(call), UNCHANGED begun, Kept,
             call.token # None => call.op = "commit" /\ call.token \in tokens
      PROVE  TokensOK' /\ TokenCommitsOnce'
  <2>1. tokens' \subseteq tokens
    BY <1>2 DEF Acknowledged, AfterCommit
  <2>2. CASE call.token = None
    BY <1>1, <1>2, <2>1, <2>2 DEF Acknowledged
  <2>3. CASE call.token # None
    <3>1. /\ commits' = Append(commits, call.token) /\ tokens' = tokens \ {call.token}
          /\ call.token \in tokens /\ call.token.n \in 1..begun
      BY <1>2, <1>t, <2>3 DEF Acknowledged, AfterCommit, TokensOK
    <3>2. /\ IsSequence(commits') /\ Len(commits') = Len(commits) + 1
          /\ commits'[Len(commits) + 1] = call.token
          /\ \A i \in 1..Len(commits) : commits'[i] = commits[i]
      BY <1>s, <3>1, AppendAny
    <3>3. DOMAIN commits' = 1..(Len(commits) + 1)
      BY <3>2, AnySequence DEF IsSequence
    <3>4. \A i \in 1..Len(commits) : commits[i].n \in 1..begun /\ commits[i] \notin tokens
      BY <1>t DEF TokensOK
    <3>5. \A i \in 1..Len(commits') : commits'[i].n \in 1..begun /\ commits'[i] \notin tokens'
      BY <1>s, <3>1, <3>2, <3>4
    <3>6. TokensOK'
      BY <1>2, <1>t, <2>1, <3>2, <3>5 DEF TokensOK, Waits
    <3>7. \A i, j \in 1..Len(commits) : commits[i] = commits[j] => i = j
      BY <1>s, <1>t DEF TokenCommitsOnce
    <3>8. \A i, j \in 1..(Len(commits) + 1) : commits'[i] = commits'[j] => i = j
      BY <1>s, <3>1, <3>2, <3>4, <3>7
    <3> QED BY <3>3, <3>6, <3>8 DEF TokenCommitsOnce
  <2> QED BY <2>2, <2>3
<1>3. ASSUME NEW c \in Calls, Apply(c) PROVE TokensOK' /\ TokenCommitsOnce'
  <2>1. \A d \in Calls : ~Waits(d)
    BY <1>3, <1>t DEF Apply, LockOK
  <2>2. Return(c) /\ UNCHANGED begun
    BY <1>3 DEF Apply
  <2>3. Kept
    BY <1>t, <2>1, <2>2, IdleFacts DEF Return, HandlersOK, Waits
  <2> DEFINE call == Named(calls[c])
  <2>4. call.token = calls[c].token /\ call.op = calls[c].op
    <3>1. DOMAIN calls[c] = {"step", "op", "db", "writes", "token", "at", "seen"}
      BY <1>t, IdleFacts DEF HandlersOK
    <3> QED BY <3>1 DEF Named
  <2>5. call.token # None => call.op = "commit" /\ call.token \in tokens
    BY <1>3, <1>t, <2>4 DEF Apply, ValidToken, HandlersOK
  <2>6. Acknowledged(call) \/ UNCHANGED <<tokens, commits>>
    BY <1>3 DEF Apply
  <2> HIDE DEF call, Kept
  <2> QED BY <1>1, <1>2, <2>2, <2>3, <2>5, <2>6
<1>4. ASSUME NEW c \in Calls, TakeLock(c) PROVE TokensOK' /\ TokenCommitsOnce'
  <2>1. /\ calls[c].step = "lock" /\ calls' = [calls EXCEPT ![c].step = "job"]
        /\ calls[c].token # None => calls[c].token \in tokens
        /\ UNCHANGED <<tokens, begun, commits>>
    BY <1>4 DEF TakeLock, ValidToken
  <2>2. (\A d \in Calls : d # c => calls'[d] = calls[d]) /\ calls'[c].token = calls[c].token
    BY <1>t, <2>1, SetStepFacts
  <2>3. Kept
    BY <1>t, <2>1, <2>2 DEF TokensOK, Waits
  <2> QED BY <1>1, <2>1, <2>3
<1>5. ASSUME NEW c \in Calls, Return(c), UNCHANGED <<tokens, begun, commits>>
      PROVE  TokensOK' /\ TokenCommitsOnce'
  <2>1. Kept
    BY <1>5, <1>t, IdleFacts DEF Return, HandlersOK, TokensOK, Waits
  <2> QED BY <1>1, <1>5, <2>1
<1>6. ASSUME NEW c \in Calls, Resume(c) PROVE TokensOK' /\ TokenCommitsOnce'
  <2>1. Return(c) /\ UNCHANGED begun /\ Waits(c)
    BY <1>6 DEF Resume, Waits
  <2>2. CASE UNCHANGED <<tokens, commits>>
    BY <1>5, <2>1, <2>2
  <2>3. CASE Acknowledged(calls[c])
    <3>1. calls[c].token # None => calls[c].op = "commit" /\ calls[c].token \in tokens
      BY <1>t, <2>1 DEF HandlersOK, TokensOK
    <3>2. ASSUME NEW d \in Calls, d # c, Waits(d), calls[d].token # None
          PROVE  calls[d].token \in tokens'
      <4>1. lock = d /\ durable /\ calls[d].token \in tokens
        BY <1>t, <3>2, TokenHolds DEF TokensOK
      <4>2. calls[c].op \notin {"commit", "clear"} /\ calls[c].token = None
        BY <1>t, <2>1, <3>2, <4>1 DEF LockOK, TakesLock, HandlersOK, Committing
      <4>3. tokens' = tokens \ {None}
        BY <2>3, <4>2 DEF Acknowledged, AfterCommit
      <4> QED BY <3>2, <4>1, <4>3
    <3>3. \A d \in Calls : calls'[d] = IF d = c THEN Idle ELSE calls[d]
      BY <1>t, <2>1 DEF Return, HandlersOK
    <3>4. Kept
      BY <3>2, <3>3, IdleFacts DEF Waits
    <3> HIDE DEF Kept
    <3> QED BY <1>2, <2>1, <2>3, <3>1, <3>4
  <2> QED BY <1>6, <2>2, <2>3 DEF Resume
<1>7. ASSUME NEW c \in Calls, RefuseToken(c) \/ Leave(c) PROVE TokensOK' /\ TokenCommitsOnce'
  BY <1>5, <1>7 DEF RefuseToken, Leave
<1>8. ASSUME NEW c \in Calls, NEW op, NEW db, NEW writes, NEW token, NEW seen,
             Begin(c, op, db, writes, token, seen), token # None => op = "commit"
      PROVE  TokensOK' /\ TokenCommitsOnce'
  <2>1. /\ \A d \in Calls : d # c => calls'[d] = calls[d]
        /\ calls'[c].step = (IF TakesLock(op) THEN "lock" ELSE "job") /\ calls'[c].token = token
    BY <1>8, <1>t, BeginFacts
  <2>2. UNCHANGED <<tokens, begun, commits>>
    BY <1>8 DEF Begin
  <2>3. ~TakesLock(op) => token = None
    BY <1>8 DEF TakesLock, Committing
  <2>4. Kept
    BY <1>t, <2>1, <2>2, <2>3 DEF TokensOK, Waits
  <2> QED BY <1>1, <2>2, <2>4
<1>9. ASSUME RunJob \/ FailJob PROVE TokensOK' /\ TokenCommitsOnce'
  <2>1. /\ jobs # <<>> /\ jobs' = Tail(jobs) /\ UNCHANGED <<tokens, begun, commits>>
        /\ Answer("done") \/ Answer("refused")
    BY <1>9 DEF RunJob, FailJob
  <2>2. \/ calls' = calls
        \/ \E c \in Calls, st \in {"done", "refused"} :
             calls[c].step = "job" /\ calls' = [calls EXCEPT ![c].step = st]
    BY <2>1, JobFacts
  <2>3. ASSUME NEW c \in Calls, NEW st, calls[c].step = "job", calls' = [calls EXCEPT ![c].step = st]
        PROVE  Kept
    <3>1. (\A d \in Calls : d # c => calls'[d] = calls[d]) /\ calls'[c].token = calls[c].token
      BY <1>t, <2>3, SetStepFacts
    <3> QED BY <1>t, <2>1, <2>3, <3>1 DEF TokensOK, Waits
  <2>4. Kept
    <3> HIDE DEF Kept
    <3> QED BY <1>0, <2>1, <2>2, <2>3
  <2> QED BY <1>1, <2>1, <2>4
<1>10. ASSUME Restart PROVE TokensOK' /\ TokenCommitsOnce'
  <2>1. tokens' = {} /\ UNCHANGED <<begun, commits>> /\ calls' = [c \in Calls |-> Idle]
    BY <1>10 DEF Restart
  <2>2. Kept
    BY <2>1, IdleFacts
  <2> QED BY <1>1, <2>1, <2>2
<1>11. ASSUME NEW db \in Databases, begin_transaction(db) PROVE TokensOK' /\ TokenCommitsOnce'
  <2> DEFINE t == [n |-> begun + 1, db |-> db]
  <2>1. /\ begun' = begun + 1 /\ tokens' = tokens \cup {t} /\ UNCHANGED <<commits, calls>>
        /\ t.n = begun + 1 /\ begun \in Nat
    BY <1>11, <1>t DEF begin_transaction, TokensOK
  <2> HIDE DEF t
  <2>2. \A i \in 1..Len(commits) : commits[i].n \in 1..begun' /\ commits[i] \notin tokens'
    <3> SUFFICES ASSUME NEW i \in 1..Len(commits)
                 PROVE  commits[i].n \in 1..(begun + 1) /\ commits[i] \notin tokens /\ commits[i] # t
      BY <2>1
    <3> QED BY <1>t, <2>1 DEF TokensOK
  <2>3. \A u \in tokens' : u.n \in 1..begun'
    BY <1>t, <2>1 DEF TokensOK
  <2>4. Kept
    BY <1>t, <2>1 DEF TokensOK, Waits
  <2> QED BY <1>t, <2>1, <2>2, <2>3, <2>4 DEF TokensOK, TokenCommitsOnce, Waits
<1>12. ASSUME NEW t \in tokens, rollback(t) PROVE TokensOK' /\ TokenCommitsOnce'
  <2>1. lock = None /\ tokens' = tokens \ {t} /\ UNCHANGED <<calls, begun, commits>>
    BY <1>12 DEF rollback
  <2>2. Kept
    BY <1>t, <2>1, TokenHolds DEF Waits
  <2> QED BY <1>1, <2>1, <2>2
<1> HIDE DEF Kept
<1> QED BY <1>3, <1>4, <1>6, <1>7, <1>8, <1>9, <1>10, <1>11, <1>12, NextCases DEF Asked

-----------------------------------------------------------------------------
(* What a step does to the requests.                                       *)

\* The same request, at another step.
Like(x, y) == x.op = y.op /\ x.writes = y.writes /\ x.seen = y.seen /\ x.at = y.at

\* No handler takes a new request.
Carried ==
  /\ UNCHANGED clock
  /\ \A c \in Calls : \/ calls'[c] = Idle
                      \/ /\ Like(calls'[c], calls[c])
                         /\ calls'[c].step = "lock" => calls'[c] = calls[c]

\* No job is added.
Shorter ==
  \E k \in {0, 1} : \A i \in DOMAIN jobs' :
    i \in Nat /\ i + k \in DOMAIN jobs /\ jobs'[i].call = jobs[i + k].call

\* The job of call is added.
Longer(call) ==
  \E k \in Nat : /\ DOMAIN jobs = 1..k /\ DOMAIN jobs' = 1..(k + 1) /\ jobs'[k + 1].call = call
                /\ \A i \in 1..k : jobs'[i].call = jobs[i].call

\* Documents disappear, or a request is run that then is not to be run any more.
Vanish == docs' \in Stored /\ \A n \in Names : docs'[n] \in {docs[n], None}
Runs(call) ==
  /\ call \in ToRun /\ NumberLeft(call) /\ docs' = Outcome(Named(call))
  /\ \A x \in ToRun' : x.at # call.at

\* The effects of the steps on requests and documents.
Effect ==
  \/ Carried /\ Shorter /\ (Vanish \/ \E call \in ToRun : Runs(call))
  \/ \E c \in Calls : /\ Carried /\ UNCHANGED docs /\ Longer(calls[c])
                      /\ calls[c].step = "lock" /\ calls'[c].step # "lock"
  \/ \E c \in Calls, call \in Call :
       /\ UNCHANGED docs /\ clock' = clock + 1 /\ clock < MaxClock
       /\ calls[c] = Idle /\ calls' = [calls EXCEPT ![c] = call]
       /\ call.at = clock + 1 /\ Asked(call.op, call.db, call.writes, call.token, call.seen)
       /\ IF call.step = "lock" THEN UNCHANGED jobs ELSE Longer(call)

\* A handler ends.
LEMMA ReturnCarries ==
  ASSUME TypeOK, NEW c \in Calls, Return(c), UNCHANGED clock
  PROVE  Carried /\ calls'[c] = Idle /\ \A d \in Calls : d # c => calls'[d] = calls[d]
<1>1. \A d \in Calls : calls'[d] = IF d = c THEN Idle ELSE calls[d]
  BY DEF Return, TypeOK
<1> QED BY <1>1 DEF Carried, Like

\* A handler goes on.
LEMMA SetStepCarries ==
  ASSUME TypeOK, NEW c \in Calls, NEW st, st # "lock", calls' = [calls EXCEPT ![c].step = st],
         UNCHANGED clock
  PROVE  Carried /\ calls'[c].step = st
<1>1. calls[c] \in Call /\ calls'[c] = [calls[c] EXCEPT !.step = st]
      /\ \A d \in Calls : d # c => calls'[d] = calls[d]
  BY DEF TypeOK
<1>2. Like(calls'[c], calls[c]) /\ calls'[c].step = st
  BY <1>1 DEF Like, Call
<1> QED BY <1>1, <1>2 DEF Carried, Like

\* The jobs of a typed queue.
LEMMA QueueFacts ==
  ASSUME TypeOK
  PROVE  /\ Len(jobs) \in Nat /\ DOMAIN jobs = 1..Len(jobs)
         /\ \A i \in DOMAIN jobs : jobs[i].call \in Call /\ jobs[i].call \in Queued
<1> DEFINE J == [caller : Calls \cup {None}, call : Call]
<1>1. jobs \in Seq(J) /\ \A x \in J : x.call \in Call
  BY DEF TypeOK
<1> HIDE DEF J
<1>2. /\ Len(jobs) \in Nat /\ DOMAIN jobs = 1..Len(jobs) /\ \A i \in DOMAIN jobs : jobs[i] \in J
  BY <1>1
<1> QED BY <1>1, <1>2 DEF Queued

\* A job more.
LEMMA AppendLonger ==
  ASSUME TypeOK, NEW c \in Calls, NEW call \in Call, jobs' = Append(jobs, [caller |-> c, call |-> call])
  PROVE  Longer(call)
<1> DEFINE J == [caller : Calls \cup {None}, call : Call]
           job == [caller |-> c, call |-> call]
<1>1. jobs \in Seq(J) /\ job \in J /\ job.call = call
  BY DEF TypeOK
<1> HIDE DEF J, job
<1>2. /\ jobs' \in Seq(J) /\ Len(jobs') = Len(jobs) + 1 /\ Len(jobs) \in Nat
      /\ jobs'[Len(jobs) + 1] = job /\ \A i \in 1..Len(jobs) : jobs'[i] = jobs[i]
  BY <1>1, AppendProperties DEF job
<1>3. DOMAIN jobs = 1..Len(jobs) /\ DOMAIN jobs' = 1..(Len(jobs) + 1)
  BY <1>1, <1>2
<1> QED BY <1>1, <1>2, <1>3 DEF Longer

\* What is to be run after a step that adds no job was to be run before.
LEMMA ToRunShorter ==
  ASSUME Carried, Shorter
  PROVE  /\ Queued' \subseteq Queued /\ ToRun' \subseteq ToRun
         /\ \A x \in ToRun' \ Queued' : \E c \in Calls :
              x = calls[c] /\ calls[c].step = "lock" /\ calls'[c] = calls[c]
<1>1. Queued' \subseteq Queued
  BY DEF Shorter, Queued
<1>2. ASSUME NEW c \in Calls, calls'[c].step = "lock" PROVE calls'[c] = calls[c]
  BY <1>2, IdleFacts DEF Carried
<1> QED BY <1>1, <1>2 DEF ToRun

\* Every step has one of the effects.
LEMMA EffectStep ==
  ASSUME IInv, Next
  PROVE  Effect
<1>t. TypeOK /\ ReadingsOK /\ ToRunOK /\ HandlersOK
  BY DEF IInv
<1>q. DOMAIN jobs = 1..Len(jobs) /\ Len(jobs) \in Nat
  BY <1>t, QueueFacts
<1>d. docs \in Stored
  BY <1>t DEF TypeOK, Stored
<1>v. ASSUME UNCHANGED docs PROVE Vanish
  BY <1>d, <1>v DEF Vanish
<1>k. ASSUME NEW db, Clear(db) PROVE Vanish
  BY <1>d, <1>k DEF Clear, Vanish, Stored
<1>s. ASSUME \A i \in DOMAIN jobs' : i \in DOMAIN jobs /\ jobs'[i].call = jobs[i].call PROVE Shorter
  <2>1. \A i \in DOMAIN jobs' :
          i \in Nat /\ i + 0 \in DOMAIN jobs /\ jobs'[i].call = jobs[i + 0].call
    BY <1>q, <1>s
  <2> QED BY <2>1 DEF Shorter
<1>1. ASSUME NEW c \in Calls, Apply(c) PROVE Effect
  <2>1. /\ Return(c) /\ UNCHANGED <<clock, jobs>> /\ calls[c].step = "lock" /\ NumberLeft(calls[c])
        /\ ((\E db : Clear(db)) \/ Write(Named(calls[c])))
    BY <1>1 DEF Apply
  <2>2. Carried /\ Shorter /\ calls'[c] = Idle /\ \A d \in Calls : d # c => calls'[d] = calls[d]
    BY <1>s, <1>t, <2>1, ReturnCarries
  <2>3. CASE \E db : Clear(db)
    BY <1>k, <2>2, <2>3 DEF Effect
  <2>4. CASE Write(Named(calls[c]))
    <3>1. calls[c] \in ToRun /\ calls[c].at # 0
      BY <1>t, <2>1 DEF ToRun, ToRunOK
    <3>2. ASSUME NEW x \in ToRun' PROVE x.at # calls[c].at
      <4>1. CASE x \in Queued'
        <5>1. x \in Queued
          BY <2>2, <4>1, ToRunShorter
        <5> QED BY <1>t, <2>1, <5>1 DEF ReadingsOK
      <4>2. ASSUME NEW d \in Calls, x = calls[d], calls[d].step = "lock", calls'[d] = calls[d]
            PROVE  x.at # calls[c].at
        <5>1. d # c
          BY <2>2, <4>2, IdleFacts
        <5> QED BY <1>t, <3>1, <4>2, <5>1 DEF ReadingsOK
      <4> QED BY <2>2, <4>1, <4>2, ToRunShorter
    <3>3. Runs(calls[c])
      BY <2>1, <2>4, <3>1, <3>2 DEF Runs, Write
    <3> QED BY <2>2, <3>1, <3>3 DEF Effect
  <2> QED BY <2>1, <2>3, <2>4
<1>2. ASSUME NEW c \in Calls, RefuseToken(c) \/ Resume(c) PROVE Effect
  <2>1. Return(c) /\ UNCHANGED <<clock, jobs, docs>>
    BY <1>2 DEF RefuseToken, Resume
  <2> QED BY <1>s, <1>t, <1>v, <2>1, ReturnCarries DEF Effect
<1>3. ASSUME NEW c \in Calls, TakeLock(c) PROVE Effect
  <2>1. /\ calls[c].step = "lock" /\ calls' = [calls EXCEPT ![c].step = "job"]
        /\ jobs' = Append(jobs, [caller |-> c, call |-> calls[c]])
        /\ UNCHANGED <<docs, clock>> /\ calls[c] \in Call
    BY <1>3, <1>t DEF TakeLock, TypeOK
  <2>2. Longer(calls[c])
    BY <1>t, <2>1, AppendLonger
  <2>3. Carried /\ calls'[c].step = "job"
    BY <1>t, <2>1, SetStepCarries
  <2> QED BY <2>1, <2>2, <2>3 DEF Effect
<1>4. ASSUME NEW c \in Calls, Leave(c) PROVE Effect
  <2>1. Return(c) /\ UNCHANGED <<clock, docs>>
    BY <1>4 DEF Leave
  <2>2. /\ DOMAIN jobs' = DOMAIN jobs
        /\ \A i \in DOMAIN jobs : \/ jobs'[i] = jobs[i]
                                  \/ jobs'[i] = [jobs[i] EXCEPT !.caller = None]
    BY <1>4 DEF Leave
  <2>3. \A i \in DOMAIN jobs : jobs'[i].call = jobs[i].call
    <3>1. \A i \in DOMAIN jobs : DOMAIN jobs[i] = {"caller", "call"}
      BY <1>q DEF IInv, JobsOK
    <3> QED BY <2>2, <3>1
  <2> QED BY <1>s, <1>t, <1>v, <2>1, <2>2, <2>3, ReturnCarries DEF Effect
<1>5. ASSUME NEW c \in Calls, NEW op, NEW db, NEW writes, NEW token, NEW seen,
             Begin(c, op, db, writes, token, seen), Asked(op, db, writes, token, seen)
      PROVE  Effect
  <2> DEFINE call == [step |-> IF TakesLock(op) THEN "lock" ELSE "job", op |-> op, db |-> db,
                      writes |-> writes, token |-> token, at |-> clock + 1, seen |-> seen]
  <2>1. /\ UNCHANGED docs /\ clock' = clock + 1 /\ clock < MaxClock
        /\ calls[c] = Idle /\ calls' = [calls EXCEPT ![c] = call]
        /\ jobs' = IF TakesLock(op) THEN jobs ELSE Append(jobs, [caller |-> c, call |-> call])
    BY <1>5 DEF Begin
  <2>2. /\ call.at = clock + 1 /\ call.step = (IF TakesLock(op) THEN "lock" ELSE "job")
        /\ call.op = op /\ call.db = db /\ call.writes = writes /\ call.token = token
        /\ call.seen = seen
    OBVIOUS
  <2>3. call \in Call
    <3>1. clock + 1 \in 0..MaxClock
      BY <1>t, <2>1, FirestoreAssumption DEF TypeOK
    <3>2. token \in Token \cup {None}
      BY <1>5, <1>t DEF Asked, TypeOK
    <3> QED BY <1>5, <3>1, <3>2 DEF Asked, Call, Steps
  <2> HIDE DEF call
  <2>4. IF call.step = "lock" THEN UNCHANGED jobs ELSE Longer(call)
    BY <1>t, <2>1, <2>2, <2>3, AppendLonger
  <2> QED BY <1>5, <2>1, <2>2, <2>3, <2>4 DEF Effect
<1>6. ASSUME NEW st \in {"done", "refused"}, jobs # <<>>, jobs' = Tail(jobs), Answer(st), UNCHANGED clock
      PROVE  /\ Carried /\ Shorter /\ jobs[1].call = Head(jobs).call
             /\ jobs[1].call \in ToRun /\ \A x \in ToRun' : x.at # jobs[1].call.at
  <2>1. /\ Head(jobs) = jobs[1] /\ Len(jobs') = Len(jobs) - 1 /\ Len(jobs) \in Nat \ {0}
        /\ \A i \in 1..Len(jobs') : jobs'[i] = jobs[i + 1] /\ i + 1 \in 1..Len(jobs)
        /\ DOMAIN jobs' = 1..Len(jobs')
        /\ \/ calls' = calls
           \/ \E c \in Calls : calls' = [calls EXCEPT ![c].step = st]
    BY <1>6, JobFacts, AnySequence DEF IsSequence
  <2>2. Shorter
    BY <1>q, <2>1 DEF Shorter
  <2>3. Carried
    <3>1. CASE calls' = calls
      BY <1>6, <3>1 DEF Carried, Like
    <3>2. CASE \E c \in Calls : calls' = [calls EXCEPT ![c].step = st]
      BY <1>6, <1>t, <3>2, SetStepCarries
    <3> QED BY <2>1, <3>1, <3>2
  <2>4. 1 \in DOMAIN jobs /\ jobs[1].call \in Queued /\ jobs[1].call \in ToRun
    BY <1>q, <2>1 DEF Queued, ToRun
  <2>5. ASSUME NEW x \in ToRun' PROVE x.at # jobs[1].call.at
    <3>1. ASSUME NEW i \in DOMAIN jobs', x = jobs'[i].call PROVE x.at # jobs[1].call.at
      <4>1. i + 1 \in DOMAIN jobs /\ i + 1 # 1 /\ x = jobs[i + 1].call
        BY <1>q, <2>1, <3>1
      <4> QED BY <1>t, <2>4, <4>1 DEF ReadingsOK
    <3>2. ASSUME NEW d \in Calls, x = calls[d], calls[d].step = "lock" PROVE x.at # jobs[1].call.at
      BY <1>t, <2>4, <3>2 DEF ReadingsOK
    <3>3. x \in Queued' => \E i \in DOMAIN jobs' : x = jobs'[i].call
      BY DEF Queued
    <3> QED BY <2>2, <2>3, <3>1, <3>2, <3>3, ToRunShorter
  <2> QED BY <2>1, <2>2, <2>3, <2>4, <2>5
<1>7. ASSUME RunJob PROVE Effect
  <2>1. /\ jobs # <<>> /\ jobs' = Tail(jobs) /\ UNCHANGED clock /\ (Answer("done") \/ Answer("refused"))
        /\ NumberLeft(Head(jobs).call) /\ ((\E db : Clear(db)) \/ Write(Named(Head(jobs).call)))
    BY <1>7 DEF RunJob
  <2>2. /\ Carried /\ Shorter /\ jobs[1].call = Head(jobs).call
        /\ jobs[1].call \in ToRun /\ \A x \in ToRun' : x.at # jobs[1].call.at
    BY <1>6, <2>1
  <2>3. CASE \E db : Clear(db)
    BY <1>k, <2>2, <2>3 DEF Effect
  <2>4. CASE Write(Named(Head(jobs).call))
    <3>1. Runs(jobs[1].call)
      BY <2>1, <2>2, <2>4 DEF Runs, Write
    <3> QED BY <2>2, <3>1 DEF Effect
  <2> QED BY <2>1, <2>3, <2>4
<1>8. ASSUME FailJob PROVE Effect
  <2>1. jobs # <<>> /\ jobs' = Tail(jobs) /\ UNCHANGED <<clock, docs>> /\ Answer("refused")
    BY <1>8 DEF FailJob
  <2> QED BY <1>6, <1>v, <2>1 DEF Effect
<1>9. ASSUME Restart PROVE Effect
  <2>1. jobs' = <<>> /\ calls' = [c \in Calls |-> Idle] /\ UNCHANGED clock
        /\ (UNCHANGED docs \/ docs' = [n \in Names |-> None])
    BY <1>9 DEF Restart
  <2>2. Carried /\ Shorter /\ Vanish
    <3>1. Vanish
      BY <1>v, <2>1 DEF Vanish, Stored
    <3> QED BY <2>1, <3>1 DEF Carried, Shorter
  <2> QED BY <2>2 DEF Effect
<1>10. ASSUME (\E db \in Databases : begin_transaction(db)) \/ \E t \in tokens : rollback(t)
       PROVE  Effect
  <2>1. UNCHANGED <<calls, jobs, docs, clock>>
    BY <1>10 DEF begin_transaction, rollback
  <2>2. Carried
    BY <2>1 DEF Carried, Like
  <2> QED BY <1>s, <1>v, <2>1, <2>2 DEF Effect
<1> QED BY <1>1, <1>2, <1>3, <1>4, <1>5, <1>7, <1>8, <1>9, <1>10, NextCases

-----------------------------------------------------------------------------
(* Readings of the clock.                                                  *)

\* The requests of a typed state.
LEMMA RequestedFacts ==
  ASSUME TypeOK
  PROVE  /\ clock \in Nat /\ ToRun \subseteq Requested
         /\ \A x \in Requested : x \in Call /\ x.at \in Nat
         /\ \A c \in Calls : calls[c] \in Requested
         /\ \A i \in DOMAIN jobs : jobs[i].call \in Queued /\ jobs[i].call \in Requested
<1>1. \A x \in Queued : x \in Call
  BY QueueFacts DEF Queued
<1>2. \A c \in Calls : calls[c] \in Call
  BY DEF TypeOK
<1>3. clock \in Nat /\ \A x \in Call : x.at \in Nat
  BY FirestoreAssumption DEF TypeOK, Call
<1> QED BY <1>1, <1>2, <1>3, QueueFacts DEF Requested, ToRun

\* A job more is a request more in the queue.
LEMMA LongerFacts ==
  ASSUME NEW call, Longer(call)
  PROVE  /\ Queued' = Queued \cup {call}
         /\ \E k \in Nat : /\ DOMAIN jobs' = 1..(k + 1) /\ jobs'[k + 1].call = call
                           /\ \A i \in 1..k : jobs'[i].call \in Queued /\ jobs'[i].call = jobs[i].call
                                              /\ i \in DOMAIN jobs
<1>1. PICK k \in Nat : /\ DOMAIN jobs = 1..k /\ DOMAIN jobs' = 1..(k + 1) /\ jobs'[k + 1].call = call
                       /\ \A i \in 1..k : jobs'[i].call = jobs[i].call
  BY DEF Longer
<1>2. \A i \in 1..k : jobs'[i].call \in Queued /\ i \in DOMAIN jobs'
  BY <1>1 DEF Queued
<1>3. \A x : x \in Queued' <=> x \in Queued \/ x = call
  <2>1. ASSUME NEW x \in Queued' PROVE x \in Queued \/ x = call
    <3>1. PICK i \in 1..(k + 1) : x = jobs'[i].call
      BY <1>1, <2>1 DEF Queued
    <3>2. i = k + 1 \/ i \in 1..k
      OBVIOUS
    <3> QED BY <1>1, <1>2, <3>1, <3>2
  <2>2. ASSUME NEW x \in Queued PROVE x \in Queued'
    <3>1. PICK i \in 1..k : x = jobs[i].call
      BY <1>1, <2>2 DEF Queued
    <3>2. x = jobs'[i].call /\ i \in DOMAIN jobs'
      BY <1>1, <1>2, <3>1
    <3> QED BY <3>2 DEF Queued
  <2>3. call \in Queued'
    <3>1. k + 1 \in DOMAIN jobs'
      BY <1>1
    <3> QED BY <1>1, <3>1 DEF Queued
  <2> QED BY <2>1, <2>2, <2>3
<1>4. Queued' = Queued \cup {call}
  BY <1>3
<1> QED BY <1>1, <1>2, <1>4

\* The requests after a step that begins none are those before it, at other steps.
LEMMA CarriedFacts ==
  ASSUME TypeOK, Carried, \A x \in Queued' : x \in Requested
  PROVE  \A x \in Requested' : x = Idle \/ \E y \in Requested : Like(x, y)
<1>1. \A c \in Calls : calls'[c] = Idle \/ Like(calls'[c], calls[c])
  BY DEF Carried
<1>2. \A c \in Calls : calls[c] \in Requested
  BY RequestedFacts
<1>3. \A x : Like(x, x)
  BY DEF Like
<1>4. ASSUME NEW x \in Requested' PROVE x = Idle \/ \E y \in Requested : Like(x, y)
  <2>1. x \in Queued' \/ \E c \in Calls : x = calls'[c]
    BY DEF Requested
  <2> QED BY <1>1, <1>2, <1>3, <2>1
<1> QED BY <1>4

\* The requests after a step that begins one.
LEMMA BegunFacts ==
  ASSUME TypeOK, NEW c \in Calls, NEW call, calls' = [calls EXCEPT ![c] = call],
         IF call.step = "lock" THEN UNCHANGED jobs ELSE Longer(call)
  PROVE  /\ \A d \in Calls : calls'[d] = IF d = c THEN call ELSE calls[d]
         /\ \A x \in Queued' : x \in Queued \/ (x = call /\ call.step # "lock")
         /\ \A x \in Requested' : x \in Requested \/ x = call
         /\ \A x \in ToRun' : x \in ToRun \/ x = call
<1>1. \A d \in Calls : calls'[d] = IF d = c THEN call ELSE calls[d]
  BY DEF TypeOK
<1>2. \A x \in Queued' : x \in Queued \/ (x = call /\ call.step # "lock")
  BY LongerFacts DEF Queued
<1> QED BY <1>1, <1>2 DEF Requested, ToRun

\* No two jobs have the same reading of the clock, if the new one has its own.
LEMMA LongerDiffer ==
  ASSUME ReadingsOK, NEW call, Longer(call), \A x \in Queued : x.at # call.at
  PROVE  \A i, j \in DOMAIN jobs' : jobs'[i].call.at = jobs'[j].call.at => i = j
<1>1. PICK k \in Nat :
        /\ DOMAIN jobs' = 1..(k + 1) /\ jobs'[k + 1].call = call
        /\ \A i \in 1..k : jobs'[i].call \in Queued /\ jobs'[i].call = jobs[i].call /\ i \in DOMAIN jobs
  BY LongerFacts
<1>2. \A i, j \in DOMAIN jobs : jobs[i].call.at = jobs[j].call.at => i = j
  BY DEF ReadingsOK
<1> SUFFICES ASSUME NEW i \in 1..(k + 1), NEW j \in 1..(k + 1), jobs'[i].call.at = jobs'[j].call.at
             PROVE  i = j
  BY <1>1
<1>3. (i = k + 1 \/ i \in 1..k) /\ (j = k + 1 \/ j \in 1..k)
  OBVIOUS
<1> QED BY <1>1, <1>2, <1>3

\* What the run of a request does to the documents.
LEMMA RunFacts ==
  ASSUME TypeOK, ToRunOK, NEW call \in ToRun, Runs(call)
  PROVE  /\ docs' \in Stored /\ call.at \in 1..MaxClock
         /\ Named(call).op = call.op /\ (call.op # "auto" => Named(call) = call)
         /\ \A n \in Names : docs'[n] # docs[n] =>
              /\ docs'[n] = None \/ docs'[n].time = call.at
              /\ \E i \in 1..Len(Named(call).writes) :
                   /\ Named(call).writes[i].name = n
                   /\ check_precondition(docs[n], Named(call).writes[i].cond)
              /\ call.op # "batch" => \A i \in 1..Len(Named(call).writes) :
                   \/ docs'[Named(call).writes[i].name] = None
                   \/ docs'[Named(call).writes[i].name].time = call.at
<1>1. call \in Call /\ call.at # 0
  BY RequestedFacts DEF ToRunOK
<1>2. /\ Named(call) \in Call /\ Named(call).op = call.op /\ Named(call).at = call.at
      /\ call.op # "auto" => Named(call) = call
  <2>1. next_id \in Nat /\ NumberLeft(call)
    BY FirestoreAssumption DEF TypeOK, Runs
  <2> QED BY <1>1, <2>1, NamedFacts
<1>3. call.at \in 1..MaxClock
  BY <1>1, FirestoreAssumption DEF Call
<1> DEFINE run == Named(call)
<1>4. run.at \in 1..MaxClock /\ run.writes \in Seq(Mutation) /\ docs' = Outcome(run) /\ docs \in Stored
  BY <1>2, <1>3 DEF Call, Runs, TypeOK, Stored
<1> HIDE DEF run
<1>5. /\ docs' \in Stored
      /\ \A n \in Names : docs'[n] # docs[n] =>
           /\ docs'[n] = None \/ docs'[n].time = run.at
           /\ \E i \in 1..Len(run.writes) :
                run.writes[i].name = n /\ check_precondition(docs[n], run.writes[i].cond)
           /\ run.op # "batch" => \A i \in 1..Len(run.writes) :
                docs'[run.writes[i].name] = None \/ docs'[run.writes[i].name].time = run.at
  BY <1>4, OutcomeFacts
<1> QED BY <1>2, <1>3, <1>5 DEF run

\* A reading of the clock stays with its request.
LEMMA ReadingsStep ==
  ASSUME IInv, Effect
  PROVE  ReadingsOK'
<1>t. TypeOK /\ ReadingsOK /\ ToRunOK
  BY DEF IInv
<1>n. /\ clock \in Nat /\ \A x \in Requested : x.at \in Nat /\ x.at <= clock
      /\ \A c \in Calls : calls[c] \in Requested
  BY <1>t, RequestedFacts DEF ReadingsOK
<1>i. Idle.at = 0 /\ Idle.step # "lock"
  BY IdleType, IdleFacts
<1>c. ASSUME Carried, \A x \in Queued' : x \in Requested
      PROVE  /\ \A x \in Requested' : x.at <= clock'
             /\ \A x, y \in Requested' : x.at = y.at /\ x.at # 0 =>
                  x.op = y.op /\ x.writes = y.writes /\ x.seen = y.seen
             /\ \A c, d \in Calls : calls'[c].at = calls'[d].at => c = d \/ calls'[c].at = 0
  <2>1. \A x \in Requested' : x.at = 0 \/ \E y \in Requested : Like(x, y)
    BY <1>c, <1>i, <1>t, CarriedFacts
  <2>2. clock' = clock
    BY <1>c DEF Carried
  <2>3. \A x \in Requested' : x.at <= clock'
    BY <1>n, <2>1, <2>2 DEF Like
  <2>4. \A x, y \in Requested : x.at = y.at /\ x.at # 0 =>
          x.op = y.op /\ x.writes = y.writes /\ x.seen = y.seen
    BY <1>t DEF ReadingsOK
  <2>5. ASSUME NEW x \in Requested', NEW y \in Requested', x.at = y.at, x.at # 0
        PROVE  x.op = y.op /\ x.writes = y.writes /\ x.seen = y.seen
    <3>1. PICK x0 \in Requested : Like(x, x0)
      BY <2>1, <2>5
    <3>2. PICK y0 \in Requested : Like(y, y0)
      BY <2>1, <2>5
    <3> QED BY <2>4, <2>5, <3>1, <3>2 DEF Like
  <2>6. \A c \in Calls : calls'[c].at = 0 \/ calls'[c].at = calls[c].at
    BY <1>c, <1>i DEF Carried, Like
  <2>7. \A c, d \in Calls : calls'[c].at = calls'[d].at => c = d \/ calls'[c].at = 0
    BY <1>t, <2>6 DEF ReadingsOK
  <2> QED BY <2>3, <2>5, <2>7
<1>1. ASSUME Carried, Shorter PROVE ReadingsOK'
  <2>1. Queued' \subseteq Queued /\ \A x \in Queued : x \in Requested
    BY <1>1, ToRunShorter DEF Requested
  <2>2. \A c \in Calls : calls'[c].step = "lock" => calls[c].step = "lock" /\ calls'[c] = calls[c]
    BY <1>1, <1>i DEF Carried
  <2>3. \A c \in Calls : calls'[c].step = "lock" => \A x \in Queued' : x.at # calls'[c].at
    BY <1>t, <2>1, <2>2 DEF ReadingsOK
  <2>4. \A i, j \in DOMAIN jobs' : jobs'[i].call.at = jobs'[j].call.at => i = j
    <3>1. PICK k \in {0, 1} :
            \A i \in DOMAIN jobs' : i \in Nat /\ i + k \in DOMAIN jobs /\ jobs'[i].call = jobs[i + k].call
      BY <1>1 DEF Shorter
    <3> SUFFICES ASSUME NEW i \in DOMAIN jobs', NEW j \in DOMAIN jobs',
                        jobs'[i].call.at = jobs'[j].call.at
                 PROVE  i = j
      OBVIOUS
    <3>2. i + k = j + k
      BY <1>t, <3>1 DEF ReadingsOK
    <3> QED BY <3>1, <3>2
  <2> QED BY <1>1, <1>c, <2>1, <2>3, <2>4 DEF ReadingsOK
<1>2. ASSUME NEW c \in Calls, Carried, Longer(calls[c]), calls[c].step = "lock", calls'[c].step # "lock"
      PROVE  ReadingsOK'
  <2>1. Queued' = Queued \cup {calls[c]} /\ \A x \in Queued' : x \in Requested
    BY <1>2, <1>n, LongerFacts DEF Requested
  <2>2. calls[c] \in ToRun /\ calls[c].at # 0 /\ \A x \in Queued : x.at # calls[c].at
    BY <1>2, <1>t DEF ToRun, ToRunOK, ReadingsOK
  <2>3. ASSUME NEW d \in Calls, calls'[d].step = "lock", NEW x \in Queued' PROVE x.at # calls'[d].at
    <3>1. calls'[d] = calls[d] /\ calls[d].step = "lock" /\ d # c
      BY <1>2, <1>i, <2>3 DEF Carried
    <3>2. \A y \in Queued : y.at # calls[d].at
      BY <1>t, <3>1 DEF ReadingsOK
    <3>3. calls[c].at # calls[d].at
      BY <1>t, <2>2, <3>1 DEF ReadingsOK
    <3> QED BY <2>1, <2>3, <3>1, <3>2, <3>3
  <2>4. \A i, j \in DOMAIN jobs' : jobs'[i].call.at = jobs'[j].call.at => i = j
    BY <1>2, <1>t, <2>2, LongerDiffer
  <2> QED BY <1>2, <1>c, <2>1, <2>3, <2>4 DEF ReadingsOK
<1>3. ASSUME NEW c \in Calls, NEW call \in Call, clock' = clock + 1, calls' = [calls EXCEPT ![c] = call],
             call.at = clock + 1, IF call.step = "lock" THEN UNCHANGED jobs ELSE Longer(call)
      PROVE  ReadingsOK'
  <2>1. /\ \A d \in Calls : calls'[d] = IF d = c THEN call ELSE calls[d]
        /\ \A x \in Queued' : x \in Queued \/ (x = call /\ call.step # "lock")
        /\ \A x \in Requested' : x \in Requested \/ x = call
    BY <1>3, <1>t, BegunFacts
  <2>2. /\ \A x \in Requested : x.at # call.at /\ x.at <= clock'
        /\ call.at <= clock' /\ \A x \in Queued : x \in Requested
    BY <1>3, <1>n DEF Requested
  <2>3. \A x \in Requested' : x.at <= clock'
    BY <2>1, <2>2
  <2>4. \A x, y \in Requested' : x.at = y.at /\ x.at # 0 =>
          x.op = y.op /\ x.writes = y.writes /\ x.seen = y.seen
    BY <1>t, <2>1, <2>2 DEF ReadingsOK
  <2>5. \A d, e \in Calls : calls'[d].at = calls'[e].at => d = e \/ calls'[d].at = 0
    BY <1>n, <1>t, <2>1, <2>2 DEF ReadingsOK
  <2>6. \A i, j \in DOMAIN jobs' : jobs'[i].call.at = jobs'[j].call.at => i = j
    <3>1. CASE UNCHANGED jobs
      BY <1>t, <3>1 DEF ReadingsOK
    <3>2. CASE Longer(call)
      BY <1>t, <2>2, <3>2, LongerDiffer
    <3> QED BY <1>3, <3>1, <3>2
  <2>7. ASSUME NEW d \in Calls, calls'[d].step = "lock", NEW x \in Queued' PROVE x.at # calls'[d].at
    <3>1. CASE d = c
      BY <2>1, <2>2, <2>7, <3>1
    <3>2. CASE d # c
      <4>1. calls'[d] = calls[d] /\ calls[d].step = "lock" /\ calls[d].at # call.at
        BY <1>n, <2>1, <2>2, <2>7, <3>2
      <4>2. \A y \in Queued : y.at # calls[d].at
        BY <1>t, <4>1 DEF ReadingsOK
      <4> QED BY <2>1, <2>7, <4>1, <4>2
    <3> QED BY <3>1, <3>2
  <2> QED BY <2>3, <2>4, <2>5, <2>6, <2>7 DEF ReadingsOK
<1> QED BY <1>1, <1>2, <1>3 DEF Effect

\* What is to be run has not been run.
LEMMA ToRunStep ==
  ASSUME IInv, Effect
  PROVE  ToRunOK'
<1>t. TypeOK /\ ReadingsOK /\ ToRunOK /\ TimesOK
  BY DEF IInv
<1>n. /\ clock \in Nat /\ \A x \in Requested : x.at \in Nat /\ x.at <= clock
      /\ \A c \in Calls : calls[c] \in Requested
  BY <1>t, RequestedFacts DEF ReadingsOK
<1>i. Idle.step # "lock" /\ Idle.seen = <<>> /\ DOMAIN <<>> = {}
  BY DEF Idle
<1>s. ASSUME Carried, \A x \in Queued' : x \in Requested, NEW x \in ToRun, NEW y \in Requested'
      PROVE  \A i \in DOMAIN y.seen : y.seen[i].time # x.at
  BY <1>i, <1>s, <1>t, CarriedFacts DEF Like, ToRunOK
<1>1. ASSUME Carried, Shorter, Vanish \/ \E call \in ToRun : Runs(call) PROVE ToRunOK'
  <2>1. ToRun' \subseteq ToRun /\ \A x \in Queued' : x \in Requested
    BY <1>1, ToRunShorter DEF Requested
  <2>2. \A x \in ToRun' : x.at # 0 /\ \A n \in Names : docs'[n] # None => docs'[n].time # x.at
    <3>1. CASE Vanish
      BY <1>t, <2>1, <3>1 DEF Vanish, ToRunOK
    <3>2. ASSUME NEW call \in ToRun, Runs(call)
          PROVE  \A x \in ToRun' : x.at # 0 /\ \A n \in Names : docs'[n] # None => docs'[n].time # x.at
      <4>1. \A n \in Names : docs'[n] = docs[n] \/ docs'[n] = None \/ docs'[n].time = call.at
        BY <1>t, <3>2, RunFacts
      <4> QED BY <1>t, <2>1, <3>2, <4>1 DEF Runs, ToRunOK
    <3> QED BY <1>1, <3>1, <3>2
  <2> QED BY <1>1, <1>s, <2>1, <2>2 DEF ToRunOK
<1>2. ASSUME NEW c \in Calls, Carried, UNCHANGED docs, Longer(calls[c]), calls[c].step = "lock"
      PROVE  ToRunOK'
  <2>1. Queued' = Queued \cup {calls[c]} /\ (\A x \in Queued' : x \in Requested) /\ calls[c] \in ToRun
    BY <1>2, <1>n, LongerFacts DEF Requested, ToRun
  <2>2. \A x \in ToRun' : x \in ToRun
    BY <1>2, <1>i, <2>1 DEF ToRun, Carried
  <2> QED BY <1>2, <1>s, <1>t, <2>1, <2>2 DEF ToRunOK
<1>3. ASSUME NEW c \in Calls, NEW call \in Call, calls' = [calls EXCEPT ![c] = call], UNCHANGED docs,
             call.at = clock + 1, IF call.step = "lock" THEN UNCHANGED jobs ELSE Longer(call),
             \A i \in 1..Len(call.seen) : \E n \in Names : docs[n] # None /\ call.seen[i] = docs[n]
      PROVE  ToRunOK'
  <2>1. /\ \A x \in Requested' : x \in Requested \/ x = call
        /\ \A x \in ToRun' : x \in ToRun \/ x = call
    BY <1>3, <1>t, BegunFacts
  <2>2. DOMAIN call.seen = 1..Len(call.seen)
    <3>1. call.seen \in Seq(Document)
      BY <1>3 DEF Call
    <3> QED BY <3>1
  <2>3. \A y \in Requested' : \A i \in DOMAIN y.seen :
          \/ y \in Requested
          \/ \E n \in Names : y.seen[i] = docs[n] /\ docs[n] # None
    BY <1>3, <2>1, <2>2
  <2>4. /\ \A n \in Names : docs[n] # None => docs[n].time <= clock
        /\ \A y \in Requested : \A i \in DOMAIN y.seen : y.seen[i].time <= clock
    BY <1>t DEF TimesOK
  <2>5. \A y \in Requested' : \A i \in DOMAIN y.seen : y.seen[i].time <= clock
    BY <2>3, <2>4
  <2>6. \A x \in ToRun : \A y \in Requested' : \A i \in DOMAIN y.seen : y.seen[i].time # x.at
    BY <1>t, <2>3 DEF ToRunOK
  <2>7. call.at # 0 /\ ~(call.at <= clock)
    BY <1>3, <1>n
  <2>8. \A x \in ToRun' :
          /\ x.at # 0
          /\ \A n \in Names : docs[n] # None => docs[n].time # x.at
          /\ \A y \in Requested' : \A i \in DOMAIN y.seen : y.seen[i].time # x.at
    BY <1>t, <2>1, <2>4, <2>5, <2>6, <2>7 DEF ToRunOK
  <2> QED BY <1>3, <2>8 DEF ToRunOK
<1> QED BY <1>1, <1>2, <1>3 DEF Effect, Asked

\* The times of documents are past.
LEMMA TimesStep ==
  ASSUME IInv, Effect
  PROVE  TimesOK'
<1>t. TypeOK /\ ReadingsOK /\ ToRunOK /\ TimesOK
  BY DEF IInv
<1>n. /\ clock \in Nat /\ \A x \in Requested : x.at \in Nat /\ x.at <= clock
      /\ ToRun \subseteq Requested /\ \A c \in Calls : calls[c] \in Requested
  BY <1>t, RequestedFacts DEF ReadingsOK
<1>i. Idle.seen = <<>> /\ DOMAIN <<>> = {}
  BY DEF Idle
<1>s. ASSUME Carried, \A x \in Queued' : x \in Requested, NEW y \in Requested'
      PROVE  \A i \in DOMAIN y.seen : y.seen[i].time <= clock
  BY <1>i, <1>s, <1>t, CarriedFacts DEF Like, TimesOK
<1>1. ASSUME Carried, Shorter, Vanish \/ \E call \in ToRun : Runs(call) PROVE TimesOK'
  <2>1. clock' = clock /\ \A x \in Queued' : x \in Requested
    BY <1>1, ToRunShorter DEF Requested, Carried
  <2>2. \A n \in Names : docs'[n] # None => docs'[n].time <= clock
    <3>1. CASE Vanish
      BY <1>t, <3>1 DEF Vanish, TimesOK
    <3>2. ASSUME NEW call \in ToRun, Runs(call)
          PROVE  \A n \in Names : docs'[n] # None => docs'[n].time <= clock
      <4>1. \A n \in Names : docs'[n] = docs[n] \/ docs'[n] = None \/ docs'[n].time = call.at
        BY <1>t, <3>2, RunFacts
      <4>2. call.at <= clock
        BY <1>n
      <4> QED BY <1>t, <4>1, <4>2 DEF TimesOK
    <3> QED BY <1>1, <3>1, <3>2
  <2> QED BY <1>1, <1>s, <2>1, <2>2 DEF TimesOK
<1>2. ASSUME NEW c \in Calls, Carried, UNCHANGED docs, Longer(calls[c]) PROVE TimesOK'
  <2>1. clock' = clock /\ \A x \in Queued' : x \in Requested
    BY <1>2, <1>n, LongerFacts DEF Requested, Carried
  <2> QED BY <1>2, <1>s, <1>t, <2>1 DEF TimesOK
<1>3. ASSUME NEW c \in Calls, NEW call \in Call, calls' = [calls EXCEPT ![c] = call], UNCHANGED docs,
             clock' = clock + 1, IF call.step = "lock" THEN UNCHANGED jobs ELSE Longer(call),
             \A i \in 1..Len(call.seen) : \E n \in Names : docs[n] # None /\ call.seen[i] = docs[n]
      PROVE  TimesOK'
  <2>1. \A x \in Requested' : x \in Requested \/ x = call
    BY <1>3, <1>t, BegunFacts
  <2>2. DOMAIN call.seen = 1..Len(call.seen)
    <3>1. call.seen \in Seq(Document)
      BY <1>3 DEF Call
    <3> QED BY <3>1
  <2>3. \A y \in Requested' : \A i \in DOMAIN y.seen : y.seen[i].time <= clock
    BY <1>3, <1>t, <2>1, <2>2 DEF TimesOK
  <2>4. ASSUME NEW i, i \in 1..MaxClock, i <= clock PROVE i <= clock'
    BY <1>3, <1>n, <2>4
  <2>5. \A n \in Names : docs[n] # None => docs[n].time \in 1..MaxClock /\ docs[n].time <= clock
    BY <1>t DEF TypeOK, Document, TimesOK
  <2>6. \A y \in Requested' : \A i \in DOMAIN y.seen : y.seen[i].time \in 1..MaxClock
    <3>1. ASSUME NEW y \in Call, NEW i \in DOMAIN y.seen PROVE y.seen[i].time \in 1..MaxClock
      <4>1. y.seen \in Seq(Document)
        BY <3>1 DEF Call
      <4>2. y.seen[i] \in Document
        BY <4>1
      <4> QED BY <4>2 DEF Document
    <3>2. \A y \in Requested' : y \in Call
      BY <1>3, <1>t, <2>1, RequestedFacts
    <3> QED BY <3>1, <3>2
  <2>7. /\ \A n \in Names : docs'[n] # None => docs'[n].time <= clock'
        /\ \A y \in Requested' : \A i \in DOMAIN y.seen : y.seen[i].time <= clock'
    BY <1>3, <2>3, <2>4, <2>5, <2>6
  <2> QED BY <2>7 DEF TimesOK
<1> QED BY <1>1, <1>2, <1>3 DEF Effect, Asked

\* The console's requests demand what the console has read.
LEMMA ConsoleStep ==
  ASSUME IInv, Effect
  PROVE  ConsoleOK'
<1>t. TypeOK /\ ReadingsOK /\ ToRunOK /\ ConsoleOK
  BY DEF IInv
<1> DEFINE Edits(x) == /\ Len(x.writes) = 1 /\ Len(x.seen) = 1
                       /\ x.writes[1].cond = UpdateTime(x.seen[1].time)
           Clones(x) == \A i \in DOMAIN x.writes : x.writes[i].cond = Absent
           Same(x, doc) == doc # None /\ doc.time = x.seen[1].time => doc = x.seen[1]
<1>n. \A x \in Requested : x.op = "edit" => 
        x.writes[1].name \in Names /\ 1 \in DOMAIN x.seen
  <2>1. ASSUME NEW x \in Requested, x.op = "edit" PROVE x.writes[1].name \in Names /\ 1 \in DOMAIN x.seen
    <3>1. x.writes \in Seq(Mutation) /\ x.seen \in Seq(Document) /\ Len(x.writes) = 1 /\ Len(x.seen) = 1
      BY <1>t, <2>1, RequestedFacts DEF Call, ConsoleOK
    <3>2. x.writes[1] \in Mutation /\ 1 \in DOMAIN x.seen
      BY <3>1
    <3> QED BY <3>2 DEF Mutation
  <2> QED BY <2>1
<1>i. Idle.op = "none"
  BY IdleFacts
<1>o. \A x \in Requested : /\ x.op = "edit" => Edits(x) /\ Same(x, docs[x.writes[1].name])
                           /\ x.op = "clone" => Clones(x)
  BY <1>t DEF ConsoleOK
<1>q. \A c \in Calls : calls[c] \in Requested
  BY <1>t, RequestedFacts
<1> SUFFICES \A x \in Requested' : /\ x.op = "edit" => Edits(x) /\ Same(x, docs'[x.writes[1].name])
                                   /\ x.op = "clone" => Clones(x)
  BY DEF ConsoleOK
<1> HIDE DEF Edits, Clones, Same
<1> DEFINE Goal(x) == /\ x.op = "edit" => Edits(x) /\ Same(x, docs'[x.writes[1].name])
                      /\ x.op = "clone" => Clones(x)
<1>s. ASSUME Carried, \A x \in Queued' : x \in Requested, \A y \in Requested : Goal(y), NEW x \in Requested'
      PROVE  Goal(x)
  <2>1. CASE x = Idle
    BY <1>i, <2>1
  <2>2. ASSUME NEW y \in Requested, Like(x, y) PROVE Goal(x)
    BY <1>s, <2>2 DEF Like, Edits, Clones, Same
  <2> QED BY <1>s, <1>t, <2>1, <2>2, CarriedFacts
<1>1. ASSUME Carried, Shorter, Vanish \/ \E call \in ToRun : Runs(call), NEW x \in Requested' PROVE Goal(x)
  <2>1. \A y \in Queued' : y \in Requested
    BY <1>1, ToRunShorter DEF Requested
  <2>2. ASSUME NEW y \in Requested PROVE Goal(y)
    <3>1. CASE y.op # "edit"
      BY <1>o, <3>1
    <3>2. CASE y.op = "edit"
      <4> DEFINE n == y.writes[1].name
      <4>1. n \in Names /\ 1 \in DOMAIN y.seen /\ Same(y, docs[n]) /\ Edits(y)
        BY <1>n, <1>o, <3>2
      <4>2. CASE docs'[n] = docs[n]
        BY <3>2, <4>1, <4>2
      <4>3. CASE docs'[n] = None
        <5>1. Same(y, docs'[n])
          BY <4>3 DEF Same
        <5> QED BY <3>2, <4>1, <5>1
      <4>4. ASSUME docs'[n] # None, docs'[n] # docs[n] PROVE Goal(y)
        <5>1. PICK call \in ToRun : Runs(call)
          BY <1>1, <4>1, <4>4 DEF Vanish
        <5>2. docs'[n].time = call.at
          BY <1>t, <4>1, <4>4, <5>1, RunFacts
        <5>3. y.seen[1].time # call.at
          BY <1>t, <4>1 DEF ToRunOK
        <5>4. Same(y, docs'[n])
          BY <5>2, <5>3 DEF Same
        <5> QED BY <3>2, <4>1, <5>4
      <4> QED BY <4>2, <4>3, <4>4
    <3> QED BY <3>1, <3>2
  <2> HIDE DEF Goal
  <2> QED BY <1>1, <1>s, <2>1, <2>2
<1>2. ASSUME NEW c \in Calls, Carried, UNCHANGED docs, Longer(calls[c]), NEW x \in Requested' PROVE Goal(x)
  <2>1. \A y \in Queued' : y \in Requested
    BY <1>2, <1>q, LongerFacts DEF Requested
  <2>2. \A y \in Requested : Goal(y)
    BY <1>2, <1>o
  <2> HIDE DEF Goal
  <2> QED BY <1>2, <1>s, <2>1, <2>2
<1>3. ASSUME NEW c \in Calls, NEW call \in Call, calls' = [calls EXCEPT ![c] = call], UNCHANGED docs,
             IF call.step = "lock" THEN UNCHANGED jobs ELSE Longer(call),
             Asked(call.op, call.db, call.writes, call.token, call.seen), NEW x \in Requested'
      PROVE  Goal(x)
  <2>1. x \in Requested \/ x = call
    BY <1>3, <1>t, BegunFacts
  <2>2. CASE x \in Requested
    BY <1>3, <1>o, <2>2
  <2>3. CASE x = call
    <3>1. DOMAIN call.writes = 1..Len(call.writes)
      <4>1. call.writes \in Seq(Mutation)
        BY <1>3 DEF Asked
      <4> QED BY <4>1
    <3> QED BY <1>3, <2>3, <3>1 DEF Asked, Edits, Clones, Same
  <2> QED BY <2>1, <2>2, <2>3
<1>4. ASSUME NEW x \in Requested' PROVE Goal(x)
  <2> HIDE DEF Goal
  <2> QED BY <1>1, <1>2, <1>3, <1>4 DEF Effect
<1> QED BY <1>4

-----------------------------------------------------------------------------
(* Types.                                                                  *)

\* The requests that are added, and the documents that are written, have their types.
LEMMA TypeStep ==
  ASSUME IInv, Next
  PROVE  TypeOK'
<1>t. TypeOK /\ ToRunOK /\ Effect
  BY EffectStep DEF IInv
<1>c. setup' = setup /\ Call' = Call /\ Token' = Token /\ Document' = Document /\ Event' = Event
  BY DEF Next, Call, Token, Document, Event
<1> DEFINE J == [caller : Calls \cup {None}, call : Call]
           Told == events' \in [Names -> Seq(Event)] /\ lost' \subseteq Names
           Documents == docs' \in Stored /\ Told
           Requests == calls' \in [Calls -> Call] /\ jobs' \in Seq(J)
           Others == /\ next_id' \in 0..Len(AutoNames) /\ tokens' \subseteq Token
                     /\ lock' \in Calls \cup {None}
                     /\ clock' \in 0..MaxClock /\ begun' \in 0..setup.tokens
                     /\ crashes' \in 0..MaxCrashes /\ commits' \in Seq(Token)
<1>p. /\ docs \in Stored /\ events \in [Names -> Seq(Event)] /\ lost \subseteq Names
      /\ calls \in [Calls -> Call] /\ jobs \in Seq(J)
      /\ next_id \in 0..Len(AutoNames) /\ tokens \subseteq Token /\ lock \in Calls \cup {None}
      /\ clock \in 0..MaxClock /\ begun \in 0..setup.tokens
      /\ crashes \in 0..MaxCrashes /\ commits \in Seq(Token)
      /\ setup \in Setups /\ MaxClock \in Nat /\ MaxCrashes \in Nat /\ Len(AutoNames) \in Nat
      /\ setup.tokens \in Nat
  BY <1>t, FirestoreAssumption DEF TypeOK, Stored
<1>j. \A c \in Calls \cup {None}, call \in Call : [caller |-> c, call |-> call] \in J
  OBVIOUS
<1>h. \A job \in J : job.call \in Call /\ job.caller \in Calls \cup {None}
                     /\ [job EXCEPT !.caller = None] \in J
  OBVIOUS
<1>st. \A call \in Call, st \in Steps : [call EXCEPT !.step = st] \in Call
  BY DEF Call
<1> HIDE DEF J
<1>1. Documents
  <2>1. docs' \in Stored
    <3>1. CASE UNCHANGED docs
      BY <1>p, <3>1
    <3>2. CASE Vanish
      BY <3>2 DEF Vanish
    <3>3. ASSUME NEW call \in ToRun, Runs(call) PROVE docs' \in Stored
      BY <1>t, <3>3, RunFacts
    <3> QED BY <1>t, <3>1, <3>2, <3>3 DEF Effect
  <2>2. /\ \A e \in Event : \A s \in Seq(Event) : Append(s, e) \in Seq(Event)
        /\ <<>> \in Seq(Event)
    <3> HIDE DEF Event
    <3> QED BY AppendProperties
  <2>3. \A n \in Names : [before |-> FieldsOf(docs[n]), after |-> FieldsOf(docs'[n])] \in Event
    <3>1. \A d \in Document \cup {None} : FieldsOf(d) \in Contents \cup {None}
      BY DEF FieldsOf, Document
    <3>2. \A n \in Names : docs[n] \in Document \cup {None} /\ docs'[n] \in Document \cup {None}
      BY <1>p, <2>1 DEF Stored
    <3> HIDE DEF FieldsOf
    <3> QED BY <3>1, <3>2 DEF Event
  <2>4. ASSUME NEW call, Write(call) PROVE Told
    <3>1. PICK dropped \in SUBSET Changed(docs, docs') :
            events' = Recorded(docs, docs', dropped) /\ lost' = lost \cup dropped
      BY <2>4 DEF Write
    <3>2. lost' \subseteq Names
      BY <1>p, <3>1 DEF Changed
    <3> HIDE DEF FieldsOf
    <3>3. events' \in [Names -> Seq(Event)]
      BY <1>p, <2>2, <2>3, <3>1 DEF Recorded
    <3> QED BY <3>2, <3>3
  <2>5. ASSUME NEW db, Clear(db) PROVE Told
    BY <1>p, <2>2, <2>5 DEF Clear
  <2>6. ASSUME NEW c \in Calls, Apply(c) PROVE Told
    BY <2>4, <2>5, <2>6 DEF Apply
  <2>7. ASSUME RunJob PROVE Told
    BY <2>4, <2>5, <2>7 DEF RunJob
  <2>8. ASSUME Restart PROVE Told
    BY <1>p, <2>2, <2>8 DEF Restart, eventVars
  <2>9. ASSUME UNCHANGED eventVars PROVE Told
    BY <1>p, <2>9 DEF eventVars
  <2>10. ASSUME NEW c \in Calls, TakeLock(c) \/ RefuseToken(c) \/ Resume(c) \/ Leave(c)
         PROVE  Told
    BY <2>9, <2>10 DEF TakeLock, RefuseToken, Resume, Leave
  <2>11. ASSUME NEW c \in Calls, NEW op, NEW db, NEW writes, NEW token, NEW seen,
                Begin(c, op, db, writes, token, seen)
         PROVE  Told
    BY <2>9, <2>11 DEF Begin
  <2>12. ASSUME FailJob \/ (\E db \in Databases : begin_transaction(db)) \/ \E t \in tokens : rollback(t)
         PROVE  Told
    BY <2>9, <2>12 DEF FailJob, begin_transaction, rollback
  <2>13. Told
    <3> HIDE DEF Told
    <3> QED BY <2>6, <2>7, <2>8, <2>10, <2>11, <2>12, NextCases
  <2> QED BY <2>1, <2>13
<1>2. Requests
  <2>1. ASSUME NEW c \in Calls, Return(c), UNCHANGED jobs PROVE Requests
    BY <1>p, <2>1, IdleType DEF Return
  <2>2. ASSUME NEW c \in Calls, NEW st \in Steps, calls' = [calls EXCEPT ![c].step = st]
        PROVE  calls' \in [Calls -> Call]
    <3>1. calls' = [calls EXCEPT ![c] = [calls[c] EXCEPT !.step = st]] /\ calls[c] \in Call
      BY <1>p, <2>2
    <3>2. [calls[c] EXCEPT !.step = st] \in Call
      BY <1>st, <3>1
    <3> QED BY <1>p, <3>1, <3>2
  <2>3. {"done", "refused", "job"} \subseteq Steps
    BY DEF Steps
  <2>4. ASSUME NEW c \in Calls, NEW call \in Call PROVE Append(jobs, [caller |-> c, call |-> call]) \in Seq(J)
    <3>1. [caller |-> c, call |-> call] \in J
      BY <1>j
    <3> QED BY <1>p, <3>1, AppendProperties
  <2>5. ASSUME NEW c \in Calls, Apply(c) \/ RefuseToken(c) \/ Resume(c) PROVE Requests
    BY <2>1, <2>5 DEF Apply, RefuseToken, Resume
  <2>6. ASSUME NEW c \in Calls, TakeLock(c) PROVE Requests
    <3>1. /\ calls' = [calls EXCEPT ![c].step = "job"]
          /\ jobs' = Append(jobs, [caller |-> c, call |-> calls[c]]) /\ calls[c] \in Call
      BY <1>p, <2>6 DEF TakeLock
    <3> QED BY <2>2, <2>3, <2>4, <3>1
  <2>7. ASSUME NEW c \in Calls, Leave(c) PROVE Requests
    <3>1. jobs' = [i \in 1..Len(jobs) |->
                     IF jobs[i].caller = c THEN [jobs[i] EXCEPT !.caller = None] ELSE jobs[i]]
          /\ \A i \in 1..Len(jobs) : jobs[i] \in J
      BY <1>p, <2>7 DEF Leave
    <3>2. jobs' \in [1..Len(jobs) -> J] /\ Len(jobs) \in Nat
      BY <1>h, <1>p, <3>1
    <3>3. jobs' \in Seq(J)
      BY <3>2, SeqDef
    <3> QED BY <1>p, <2>7, <3>3, IdleType DEF Leave, Return
  <2>8. ASSUME NEW c \in Calls, NEW op, NEW db, NEW writes, NEW token, NEW seen,
               Begin(c, op, db, writes, token, seen), Asked(op, db, writes, token, seen)
        PROVE  Requests
    <3> DEFINE call == [step |-> IF TakesLock(op) THEN "lock" ELSE "job", op |-> op, db |-> db,
                        writes |-> writes, token |-> token, at |-> clock + 1, seen |-> seen]
    <3>1. /\ clock < MaxClock /\ calls' = [calls EXCEPT ![c] = call]
          /\ jobs' = IF TakesLock(op) THEN jobs ELSE Append(jobs, [caller |-> c, call |-> call])
      BY <2>8 DEF Begin
    <3>2. call \in Call
      <4>1. clock + 1 \in 0..MaxClock
        BY <1>p, <3>1
      <4>2. token \in Token \cup {None}
        BY <1>p, <2>8 DEF Asked
      <4> QED BY <2>8, <4>1, <4>2 DEF Asked, Call, Steps
    <3> HIDE DEF call
    <3> QED BY <1>p, <2>4, <3>1, <3>2
  <2>9. CASE RunJob \/ FailJob
    <3>1. jobs # <<>> /\ jobs' = Tail(jobs) /\ (Answer("done") \/ Answer("refused"))
      BY <2>9 DEF RunJob, FailJob
    <3>2. jobs' \in Seq(J) /\ Head(jobs) \in J
      BY <1>p, <3>1, HeadTailProperties
    <3>3. calls' \in [Calls -> Call]
      BY <1>h, <1>p, <2>2, <2>3, <3>1, <3>2 DEF Answer
    <3> QED BY <3>2, <3>3
  <2>10. CASE Restart
    <3>1. <<>> \in Seq(J)
      OBVIOUS
    <3> QED BY <2>10, <3>1, IdleType DEF Restart
  <2>11. CASE (\E db \in Databases : begin_transaction(db)) \/ \E t \in tokens : rollback(t)
    BY <1>p, <2>11 DEF begin_transaction, rollback
  <2> HIDE DEF Requests
  <2> QED BY <2>5, <2>6, <2>7, <2>8, <2>9, <2>10, <2>11, NextCases
<1>3. Others
  <2>1. CASE UNCHANGED <<next_id, tokens, lock, clock, begun, crashes, commits>>
    BY <1>p, <2>1
  <2>2. ASSUME NEW call \in Call, Acknowledged(call)
        PROVE  tokens' \subseteq Token /\ commits' \in Seq(Token)
    <3>1. tokens' \subseteq Token
      BY <1>p, <2>2 DEF Acknowledged, AfterCommit
    <3>2. call.token \in Token \cup {None}
      BY DEF Call
    <3>3. commits' = commits \/ (commits' = Append(commits, call.token) /\ call.token \in Token)
      BY <2>2, <3>2 DEF Acknowledged
    <3>4. commits' \in Seq(Token)
      <4>1. commits \in Seq(Token)
        BY <1>p
      <4> HIDE DEF Token
      <4>2. \A t \in Token : Append(commits, t) \in Seq(Token)
        BY <4>1, AppendProperties
      <4> QED BY <3>3, <4>1, <4>2
    <3> QED BY <3>1, <3>4
  <2>3. ASSUME NEW call \in Call, NumberLeft(call)
        PROVE  Named(call) \in Call /\ Named(call).op = call.op
               /\ (call.op = "auto" => next_id + 1 \in 0..Len(AutoNames))
    <3>1. next_id \in Nat
      BY <1>p
    <3>2. call.op = "auto" => next_id + 1 \in 0..Len(AutoNames)
      BY <1>p, <2>3 DEF NumberLeft
    <3> QED BY <2>3, <3>1, <3>2, NamedFacts
  <2>4. ASSUME NEW c \in Calls, Apply(c) PROVE Others
    <3>1. /\ NumberLeft(calls[c]) /\ calls[c] \in Call
          /\ next_id' = IF Named(calls[c]).op = "auto" THEN next_id + 1 ELSE next_id
          /\ Acknowledged(Named(calls[c])) \/ UNCHANGED <<tokens, commits>>
          /\ UNCHANGED <<lock, clock, begun, crashes>>
      BY <1>p, <2>4 DEF Apply
    <3>2. tokens' \subseteq Token /\ commits' \in Seq(Token)
      BY <1>p, <2>2, <2>3, <3>1
    <3>3. next_id' \in 0..Len(AutoNames)
      BY <1>p, <2>3, <3>1
    <3> QED BY <1>p, <3>1, <3>2, <3>3
  <2>5. ASSUME NEW c \in Calls, TakeLock(c) \/ RefuseToken(c) PROVE Others
    BY <1>p, <2>5 DEF TakeLock, RefuseToken
  <2>6. ASSUME NEW c \in Calls, Resume(c) PROVE Others
    <3>1. calls[c] \in Call /\ (Acknowledged(calls[c]) \/ UNCHANGED <<tokens, commits>>)
      BY <1>p, <2>6 DEF Resume
    <3>2. tokens' \subseteq Token /\ commits' \in Seq(Token)
      BY <1>p, <2>2, <3>1
    <3> QED BY <1>p, <2>6, <3>2 DEF Resume, Unlocked
  <2>7. ASSUME NEW c \in Calls, Leave(c) PROVE Others
    BY <1>p, <2>7 DEF Leave, Unlocked
  <2>8. ASSUME NEW c \in Calls, NEW op, NEW db, NEW writes, NEW token, NEW seen,
               Begin(c, op, db, writes, token, seen)
        PROVE  Others
    BY <1>p, <2>8 DEF Begin
  <2>9. CASE RunJob
    <3>1. /\ NumberLeft(Head(jobs).call) /\ jobs # <<>>
          /\ next_id' = (IF Named(Head(jobs).call).op = "auto" /\ Accepted(Named(Head(jobs).call))
                         THEN next_id + 1 ELSE next_id)
          /\ UNCHANGED <<tokens, lock, clock, begun, commits, crashes>>
      BY <2>9 DEF RunJob
    <3>2. Head(jobs).call \in Call
      <4>1. Head(jobs) \in J
        BY <1>p, <3>1, HeadTailProperties
      <4> QED BY <1>h, <4>1
    <3>3. next_id' \in 0..Len(AutoNames)
      BY <1>p, <2>3, <3>1, <3>2
    <3> QED BY <1>p, <3>1, <3>3
  <2>10. CASE FailJob
    BY <1>p, <2>10 DEF FailJob
  <2>11. CASE Restart
    BY <1>p, <2>11 DEF Restart
  <2>12. ASSUME NEW db \in Databases, begin_transaction(db) PROVE Others
    <3>1. begun + 1 \in 1..setup.tokens
      BY <1>p, <2>12 DEF begin_transaction
    <3>2. [n |-> begun + 1, db |-> db] \in Token
      BY <3>1 DEF Token
    <3> HIDE DEF Token
    <3> QED BY <1>p, <2>12, <3>1, <3>2 DEF begin_transaction
  <2>13. ASSUME NEW t \in tokens, rollback(t) PROVE Others
    BY <1>p, <2>13 DEF rollback
  <2> HIDE DEF Others
  <2> QED BY <2>4, <2>5, <2>6, <2>7, <2>8, <2>9, <2>10, <2>11, <2>12, <2>13, NextCases
<1> QED BY <1>1, <1>2, <1>3, <1>c, <1>p DEF TypeOK, Stored, J

\* A stuttering step changes nothing.
LEMMA StutterIInv ==
  ASSUME IInv, UNCHANGED vars
  PROVE  IInv'
<1>1. HandlersOK' /\ LockOK'
  BY DEF IInv, vars, HandlersOK, LockOK, TakesLock, Waits, durable
<1>2. JobsOK' /\ TokensOK'
  BY DEF IInv, vars, JobsOK, TokensOK, Waits
<1>3. StoriesOK' /\ TokenCommitsOnce'
  BY DEF IInv, vars, StoriesOK, TokenCommitsOnce, durable
<1>4. TypeOK'
  BY DEF IInv, vars, TypeOK, Call, Token, Document, Event
<1>5. Queued' = Queued /\ Requested' = Requested /\ ToRun' = ToRun
  BY DEF vars, Queued, Requested, ToRun
<1>6. ReadingsOK' /\ ToRunOK' /\ TimesOK' /\ ConsoleOK'
  BY <1>5 DEF IInv, vars, ReadingsOK, ToRunOK, TimesOK, ConsoleOK
<1> QED BY <1>1, <1>2, <1>3, <1>4, <1>6 DEF IInv

\* The inductive invariant holds in every state.
THEOREM Invariance == Spec => []IInv
<1>1. IInv /\ [Next]_vars => IInv'
  <2>1. ASSUME IInv, Next PROVE IInv'
    <3>1. Effect
      BY <2>1, EffectStep
    <3>2. ReadingsOK' /\ ToRunOK' /\ TimesOK' /\ ConsoleOK'
      BY <2>1, <3>1, ReadingsStep, ToRunStep, TimesStep, ConsoleStep
    <3> QED BY <2>1, <3>2, TypeStep, HandlersStep, JobsStep, LockStep, TokensStep, StoriesStep DEF IInv
  <2> QED BY <2>1, StutterIInv
<1> QED BY <1>1, InitIInv, PTL DEF Spec

-----------------------------------------------------------------------------
(* What clients and the listeners of the store rely on.                    *)

(* The events of a document tell its whole story, whatever writes, batches, *)
(* clears, cancelled requests and restarts come together.                   *)
THEOREM StorySafety == Spec => []EventsTellTheStory
<1>1. IInv => EventsTellTheStory
  BY StoriesTell DEF IInv
<1> QED BY <1>1, Invariance, PTL

\* At most one commit of a transaction is acknowledged.
THEOREM TokenSafety == Spec => []TokenCommitsOnce
<1>1. IInv => TokenCommitsOnce
  BY DEF IInv
<1> QED BY <1>1, Invariance, PTL

(* A handler that waits for its job has exactly one in the writer's queue,  *)
(* and the lock is never left behind by a handler that has ended.           *)
THEOREM WaiterSafety == Spec => []EveryWaiterIsServed
<1>1. IInv => EveryWaiterIsServed
  <2> SUFFICES ASSUME IInv PROVE EveryWaiterIsServed
    OBVIOUS
  <2>1. HandlersOK /\ JobsOK /\ LockOK
    BY DEF IInv
  <2>2. DOMAIN jobs = 1..Len(jobs)
    BY <2>1, AnySequence DEF JobsOK, IsSequence
  <2>3. ASSUME NEW c \in Calls, calls[c].step = "job"
        PROVE  Cardinality({i \in DOMAIN jobs : jobs[i].caller = c}) = 1
    <3>1. PICK i \in 1..Len(jobs) : jobs[i].caller = c
      BY <2>1, <2>3 DEF JobsOK
    <3>2. c # None
      BY FirestoreAssumption
    <3>3. \A j \in 1..Len(jobs) : jobs[j].caller = c => j = i
      BY <2>1, <3>1, <3>2 DEF JobsOK
    <3>4. {j \in DOMAIN jobs : jobs[j].caller = c} = {i}
      BY <2>2, <3>1, <3>3
    <3> QED BY <3>4, FS_Singleton
  <2>4. lock # None => TakesLock(calls[lock].op) /\ calls[lock].step \in {"job", "done", "refused"}
    BY <2>1 DEF LockOK, Waits
  <2> QED BY <2>3, <2>4 DEF EveryWaiterIsServed
<1> QED BY <1>1, Invariance, PTL
\* The documents, the requests and the histories have their types.
THEOREM TypeSafety == Spec => []TypeOK
<1>1. IInv => TypeOK
  BY DEF IInv
<1> QED BY <1>1, Invariance, PTL

\* A request whose reading of the clock a newly written document carries is the one
\* that the step runs.
LEMMA WrittenByRun ==
  ASSUME IInv, Next, NEW n \in Names, docs'[n] # docs[n], docs'[n] # None,
         NEW x \in Requested, x.at = docs'[n].time
  PROVE  \E call \in ToRun : /\ Runs(call) /\ x.op = call.op /\ x.writes = call.writes
                             /\ x.seen = call.seen /\ x.at = call.at
<1>t. TypeOK /\ ReadingsOK /\ ToRunOK
  BY DEF IInv
<1>1. PICK call \in ToRun : Runs(call)
  BY EffectStep DEF Effect, Vanish
<1>2. x.at = call.at /\ call.at # 0
  BY <1>t, <1>1, RunFacts DEF ToRunOK
<1>3. call \in Requested
  BY <1>t, RequestedFacts
<1> QED BY <1>t, <1>1, <1>2, <1>3 DEF ReadingsOK

\* A write concerns a field of a document, and what it makes of the field.
Concerns(w, n, f) == w.name = n /\ (w.kind = "delete" \/ f \in w.mask)
ValueOf(w, f) == IF w.kind = "delete" THEN None ELSE w.fields[f]

\* The documents d are what the first k writes leave of a document, and of its field f.
LeftDocument(d, writes, k, at, n) ==
  /\ (\A i \in 1..k : writes[i].name # n) => d[n] = docs[n]
  /\ \A i \in 1..k :
       writes[i].name = n /\ (\A j \in 1..k : writes[j].name = n => j <= i) =>
         /\ d[n] = None <=> writes[i].kind = "delete"
         /\ d[n] # None => d[n].time = at
LeftField(d, writes, k, n, f) ==
  /\ (\A i \in 1..k : ~Concerns(writes[i], n, f)) => FieldOf(d[n], f) = FieldOf(docs[n], f)
  /\ \A i \in 1..k :
       Concerns(writes[i], n, f) /\ (\A j \in 1..k : Concerns(writes[j], n, f) => j <= i) =>
         FieldOf(d[n], f) = ValueOf(writes[i], f)
Left(d, writes, k, at) ==
  \A n \in Names :
    LeftDocument(d, writes, k, at, n) /\ \A f \in Fields : LeftField(d, writes, k, n, f)

\* What one write makes of the document and of its fields.
LEMMA LeftByFacts ==
  ASSUME NEW at \in 1..MaxClock, NEW d \in Stored, NEW w \in Mutation
  PROVE  LET e == apply_write(d, w, at) IN
         /\ \A n \in Names : n # w.name => e[n] = d[n]
         /\ e[w.name] = None <=> w.kind = "delete"
         /\ e[w.name] # None => e[w.name].time = at
         /\ \A f \in Fields : FieldOf(e[w.name], f) =
              IF Concerns(w, w.name, f) THEN ValueOf(w, f) ELSE FieldOf(d[w.name], f)
<1> DEFINE e == apply_write(d, w, at)
           new == LeftBy(d[w.name], w, at)
<1>1. /\ w.name \in Names /\ e = [d EXCEPT ![w.name] = new] /\ e \in Stored
      /\ d \in Stored
  BY WriteFacts
<1>2. e[w.name] = new /\ \A n \in Names : n # w.name => e[n] = d[n]
  BY <1>1 DEF Stored
<1>3. CASE w.kind = "delete"
  <2>1. new = None
    BY <1>3 DEF LeftBy
  <2> QED BY <1>2, <1>3, <2>1 DEF Concerns, ValueOf, FieldOf
<1>4. CASE w.kind # "delete"
  <2>1. new = [fields |-> Merged(d[w.name], w), time |-> at]
    BY <1>4 DEF LeftBy
  <2>2. new # None
    <3>1. new \in Document
      <4>1. e[w.name] \in Document \cup {None}
        BY <1>1 DEF Stored
      <4>2. Merged(d[w.name], w) \in Contents
        <5>1. w.fields \in Contents /\ d[w.name] \in Document \cup {None}
          BY <1>1 DEF Mutation, Stored
        <5>2. d[w.name] # None => d[w.name].fields \in Contents
          BY <5>1 DEF Document
        <5> QED BY <5>1, <5>2 DEF Merged, Contents
      <4> QED BY <2>1, <4>2 DEF Document
    <3> QED BY <3>1, FirestoreAssumption
  <2>3. \A f \in Fields : new.fields[f] =
          IF f \in w.mask THEN w.fields[f]
          ELSE IF d[w.name] = None THEN None ELSE d[w.name].fields[f]
    BY <2>1 DEF Merged
  <2>4. new.time = at
    BY <2>1
  <2> HIDE DEF new
  <2> QED BY <1>2, <1>4, <2>2, <2>3, <2>4 DEF Concerns, ValueOf, FieldOf
<1> QED BY <1>2, <1>3, <1>4

\* A list of writes none of which is refused leaves every document as its last write
\* and every field as the last write that concerns it.
LEMMA AppliedLeaves ==
  ASSUME NEW at \in 1..MaxClock, docs \in Stored, NEW writes \in Seq(Mutation),
         Applied(writes, at).ok
  PROVE  Left(Applied(writes, at).docs, writes, Len(writes), at)
<1> DEFINE m == Len(writes)
<1>1. PICK g \in [0..m -> [docs : Stored, ok : BOOLEAN]] :
        /\ g[0] = [docs |-> docs, ok |-> TRUE]
        /\ \A i \in 1..m : g[i] = ApplyOne(g[i - 1], writes[i], at)
        /\ Applied(writes, at) = g[m]
  BY AppliedChain
<1>2. m \in Nat
  OBVIOUS
<1> DEFINE P == {i \in 0..m : g[i].ok => Left(g[i].docs, writes, i, at)}
<1>3. 0 \in P
  <2>1. g[0].docs = docs
    BY <1>1
  <2> QED BY <1>2, <2>1 DEF Left, LeftDocument, LeftField
<1>4. ASSUME NEW k \in 1..m, k - 1 \in P PROVE k \in P
  <2> DEFINE r == g[k - 1]
             w == writes[k]
             e == g[k].docs
  <2>1. /\ k - 1 \in 0..m /\ k \in 0..m /\ w \in Mutation /\ g[k] = ApplyOne(r, w, at)
        /\ r \in [docs : Stored, ok : BOOLEAN]
    <3>1. k - 1 \in 0..m /\ k \in 0..m
      BY <1>2
    <3>2. w \in Mutation
      OBVIOUS
    <3>3. g[k] = ApplyOne(r, w, at)
      BY <1>1
    <3>4. r \in [docs : Stored, ok : BOOLEAN]
      BY <3>1
    <3> QED BY <3>1, <3>2, <3>3, <3>4
  <2>2. SUFFICES ASSUME g[k].ok PROVE Left(e, writes, k, at)
    BY <2>1
  <2>3. r.ok /\ e = apply_write(r.docs, w, at) /\ r.docs \in Stored
    BY <2>1, <2>2 DEF ApplyOne
  <2>4. Left(r.docs, writes, k - 1, at)
    BY <1>4, <2>3
  <2>5. /\ \A n \in Names : n # w.name => e[n] = r.docs[n]
        /\ e[w.name] = None <=> w.kind = "delete"
        /\ e[w.name] # None => e[w.name].time = at
        /\ \A f \in Fields : FieldOf(e[w.name], f) =
             IF Concerns(w, w.name, f) THEN ValueOf(w, f) ELSE FieldOf(r.docs[w.name], f)
    BY <2>1, <2>3, LeftByFacts
  <2>6. /\ k \in 1..k /\ \A i \in 1..(k - 1) : i \in 1..k /\ i < k /\ ~(k <= i)
        /\ \A i \in 1..k : i = k \/ i \in 1..(k - 1)
        /\ k <= k
    BY <1>2
  <2> HIDE DEF r, w, e
  <2>7. ASSUME NEW n \in Names PROVE LeftDocument(e, writes, k, at, n)
    <3>1. LeftDocument(r.docs, writes, k - 1, at, n)
      BY <2>4 DEF Left
    <3>2. CASE w.name = n
      BY <2>5, <2>6, <3>2 DEF LeftDocument, w
    <3>3. CASE w.name # n
      <4>1. e[n] = r.docs[n]
        BY <2>5, <3>3
      <4>2. writes[k].name # n
        BY <3>3 DEF w
      <4> QED BY <2>6, <3>1, <4>1, <4>2 DEF LeftDocument
    <3> QED BY <3>2, <3>3
  <2>8. ASSUME NEW n \in Names, NEW f \in Fields PROVE LeftField(e, writes, k, n, f)
    <3>1. LeftField(r.docs, writes, k - 1, n, f)
      BY <2>4 DEF Left
    <3>2. CASE Concerns(w, n, f)
      <4>1. FieldOf(e[n], f) = ValueOf(writes[k], f) /\ Concerns(writes[k], n, f)
        BY <2>5, <3>2 DEF Concerns, w
      <4>2. \A i \in 1..k : (\A j \in 1..k : Concerns(writes[j], n, f) => j <= i) => i = k
        BY <2>6, <4>1
      <4> QED BY <2>6, <4>1, <4>2 DEF LeftField
    <3>3. CASE ~Concerns(w, n, f)
      <4>1. FieldOf(e[n], f) = FieldOf(r.docs[n], f)
        BY <2>5, <3>3
      <4>2. ~Concerns(writes[k], n, f)
        BY <3>3 DEF w
      <4> QED BY <2>6, <3>1, <4>1, <4>2 DEF LeftField
    <3> QED BY <3>2, <3>3
  <2> QED BY <2>7, <2>8 DEF Left
<1> HIDE DEF P
<1>5. \A i \in 0..m : i \in P
  BY <1>2, <1>3, <1>4, IntervalInduction
<1>6. m \in P
  BY <1>2, <1>5
<1> HIDE DEF m
<1> QED BY <1>1, <1>6 DEF P, m

\* That is what Leaves says.
LEMMA LeftLeaves ==
  ASSUME NEW at, NEW d, NEW writes \in Seq(Mutation), Left(d, writes, Len(writes), at)
  PROVE  Leaves(writes, at, docs, d)
<1>1. DOMAIN writes = 1..Len(writes)
  OBVIOUS
<1>2. SUFFICES ASSUME NEW n \in Names
      PROVE  LET mine == {i \in DOMAIN writes : writes[i].name = n}
                 Concerning(f) == {i \in mine : writes[i].kind = "delete" \/ f \in writes[i].mask} IN
             /\ mine = {} => d[n] = docs[n]
             /\ \A i \in DOMAIN writes : LastOf(i, mine) =>
                  /\ d[n] = None <=> writes[i].kind = "delete"
                  /\ d[n] # None => d[n].time = at
             /\ \A f \in Fields :
                  /\ Concerning(f) = {} => FieldOf(d[n], f) = FieldOf(docs[n], f)
                  /\ \A i \in DOMAIN writes : LastOf(i, Concerning(f)) =>
                       FieldOf(d[n], f) = IF writes[i].kind = "delete" THEN None ELSE writes[i].fields[f]
  BY DEF Leaves
<1> DEFINE mine == {i \in DOMAIN writes : writes[i].name = n}
           Concerning(f) == {i \in mine : writes[i].kind = "delete" \/ f \in writes[i].mask}
<1>3. LeftDocument(d, writes, Len(writes), at, n) /\ \A f \in Fields : LeftField(d, writes, Len(writes), n, f)
  BY DEF Left
<1>4. /\ mine = {} => d[n] = docs[n]
      /\ \A i \in DOMAIN writes : LastOf(i, mine) =>
           /\ d[n] = None <=> writes[i].kind = "delete"
           /\ d[n] # None => d[n].time = at
  BY <1>1, <1>3 DEF LeftDocument, LastOf
<1>5. ASSUME NEW f \in Fields
      PROVE  /\ Concerning(f) = {} => FieldOf(d[n], f) = FieldOf(docs[n], f)
             /\ \A i \in DOMAIN writes : LastOf(i, Concerning(f)) =>
                  FieldOf(d[n], f) = IF writes[i].kind = "delete" THEN None ELSE writes[i].fields[f]
  <2>1. LeftField(d, writes, Len(writes), n, f)
    BY <1>3
  <2>2. \A i \in 1..Len(writes) : i \in Concerning(f) <=> Concerns(writes[i], n, f)
    BY <1>1 DEF Concerns
  <2>3. \A i \in Concerning(f) : i \in 1..Len(writes)
    BY <1>1
  <2> HIDE DEF Concerning
  <2> QED BY <1>1, <2>1, <2>2, <2>3 DEF LeftField, LastOf, ValueOf
<1> QED BY <1>4, <1>5

\* A request that is accepted leaves what its writes leave; a refused one, unless it
\* is a batch, leaves everything as it was.
LEMMA OutcomeLeaves ==
  ASSUME docs \in Stored, NEW call \in Call, call.at # 0, call.op # "batch"
  PROVE  /\ Accepted(call) => Leaves(call.writes, call.at, docs, Outcome(call))
         /\ ~Accepted(call) => Outcome(call) = docs
<1>1. call.at \in 1..MaxClock /\ call.writes \in Seq(Mutation)
  BY FirestoreAssumption DEF Call
<1>2. CASE Accepted(call)
  <2>1. Applied(call.writes, call.at).ok /\ Outcome(call) = Applied(call.writes, call.at).docs
    BY <1>2 DEF Accepted, Outcome
  <2>2. Left(Outcome(call), call.writes, Len(call.writes), call.at)
    BY <1>1, <2>1, AppliedLeaves
  <2> QED BY <1>1, <1>2, <2>2, LeftLeaves
<1>3. CASE ~Accepted(call)
  BY <1>3 DEF Accepted, Outcome
<1> QED BY <1>2, <1>3

(* A commit applies all of its writes or none, and its handler is told       *)
(* which.                                                                    *)
THEOREM CommitSafety == Spec => CommitIsAtomic
<1> DEFINE Changes == docs' # docs => Run # {}
           Commits == \A x \in Run : x.op \in Committing =>
                        docs' = docs \/ Leaves(x.writes, x.at, docs, docs')
           Answers == JobRuns /\ Head(jobs).call.op \in Committing /\ Head(jobs).caller # None =>
                        LET x == Head(jobs).call
                            step == calls'[Head(jobs).caller].step IN
                        /\ step = "done" => Leaves(x.writes, x.at, docs, docs')
                        /\ step = "refused" => docs' = docs
           Step == crashes' = crashes => Changes /\ Commits /\ Answers
<1>1. ASSUME IInv, Next PROVE Step
  <2>t. TypeOK /\ ToRunOK /\ HandlersOK /\ IsSequence(jobs) /\ docs \in Stored /\ None \notin Calls
    BY <1>1, FirestoreAssumption DEF IInv, JobsOK, TypeOK, Stored
  <2>q. ASSUME JobRuns PROVE Len(jobs') = Len(jobs) - 1 /\ Len(jobs) \in Nat \ {0}
    BY <2>t, <2>q, TailAny DEF JobRuns
  <2>l. Len(jobs) \in Nat
    BY <2>t, QueueFacts
  <2>1. ASSUME UNCHANGED docs, Len(jobs') \in {Len(jobs), Len(jobs) + 1} PROVE Step
    BY <2>q, <2>l, <2>1
  <2>2. ASSUME NEW c \in Calls, Apply(c) PROVE Step
    <3>1. /\ calls[c].step = "lock" /\ NumberLeft(calls[c]) /\ calls'[c] = Idle
          /\ UNCHANGED jobs /\ \A d \in Calls : d # c => calls'[d] = calls[d]
      BY <2>2, <2>t DEF Apply, Return, TypeOK
    <3>2. ~JobRuns
      BY <2>l, <2>q, <3>1
    <3>3. Run = {calls[c]}
      BY <3>1, <3>2, IdleFacts DEF Run
    <3>4. ASSUME calls[c].op \in Committing
          PROVE  docs' = docs \/ Leaves(calls[c].writes, calls[c].at, docs, docs')
      <4>1. Named(calls[c]) = calls[c] /\ docs' = Outcome(calls[c])
        BY <2>2, <3>4 DEF Apply, Write, Named, Committing
      <4>2. calls[c] \in Call /\ calls[c].at # 0 /\ calls[c].op # "batch"
        BY <2>t, <3>1, <3>4 DEF TypeOK, ToRunOK, ToRun, Committing
      <4> QED BY <2>t, <4>1, <4>2, OutcomeLeaves
    <3> QED BY <3>2, <3>3, <3>4
  <2>3. ASSUME RunJob \/ FailJob PROVE Step
    <3> DEFINE x == Head(jobs).call
               c == Head(jobs).caller
    <3>1. jobs # <<>> /\ jobs' = Tail(jobs) /\ (Answer("done") \/ Answer("refused"))
      BY <2>3 DEF RunJob, FailJob
    <3>2. /\ Head(jobs) = jobs[1]
          /\ \/ c = None /\ calls' = calls
             \/ c \in Calls /\ calls[c].step = "job"
      BY <1>1, <3>1, JobFacts
    <3>3. x \in Call /\ x \in ToRun /\ x.at # 0
      <4>1. 1 \in DOMAIN jobs
        BY <2>t, <3>1, TailAny, QueueFacts
      <4>2. x \in Call /\ x \in Queued
        BY <2>t, <3>2, <4>1, QueueFacts
      <4> QED BY <2>t, <4>2 DEF ToRunOK, ToRun
    <3>4. \A d \in Calls : calls[d].step = "lock" => calls'[d] # Idle
      <4>1. \A d \in Calls : d # c => calls'[d] = calls[d]
        BY <2>t, <3>1, <3>2 DEF Answer, TypeOK
      <4> QED BY <3>2, <4>1, IdleFacts
    <3>5. JobRuns /\ Run = {x}
      BY <3>1, <3>4 DEF JobRuns, Run
    <3>6. ASSUME x.op \in Committing, RunJob
          PROVE  /\ docs' = Outcome(x) /\ Answer(IF Accepted(x) THEN "done" ELSE "refused")
                 /\ x.op # "batch"
      <4>1. Named(x) = x /\ x.op \notin {"clear", "batch"}
        BY <3>6 DEF Named, Committing
      <4> QED BY <3>6, <4>1 DEF RunJob, Write
    <3>a. c # None => \A st : Answer(st) => calls'[c].step = st
      <4> SUFFICES ASSUME c # None PROVE \A st : Answer(st) => calls'[c].step = st
        OBVIOUS
      <4>1. calls[c] \in Call /\ c \in Calls /\ calls \in [Calls -> Call]
        BY <2>t, <3>2 DEF TypeOK
      <4>2. \A st : [calls[c] EXCEPT !.step = st].step = st
        BY <4>1 DEF Call
      <4>3. \A st : Answer(st) => calls'[c] = [calls[c] EXCEPT !.step = st]
        BY <4>1 DEF Answer
      <4> QED BY <4>2, <4>3
    <3>7. ASSUME x.op \in Committing
          PROVE  /\ docs' = docs \/ Leaves(x.writes, x.at, docs, docs')
                 /\ Answer("done") => Leaves(x.writes, x.at, docs, docs') \/ c = None
                 /\ Answer("refused") => docs' = docs \/ c = None
      <4>1. c # None => ~(Answer("done") /\ Answer("refused"))
        BY <3>a
      <4>2. CASE RunJob
        <5>1. /\ Accepted(x) => Leaves(x.writes, x.at, docs, docs')
              /\ ~Accepted(x) => docs' = docs
          BY <2>t, <3>3, <3>6, <3>7, <4>2, OutcomeLeaves
        <5> QED BY <3>6, <3>7, <4>1, <4>2, <5>1
      <4>3. CASE FailJob
        BY <4>1, <4>3 DEF FailJob
      <4> QED BY <2>3, <4>2, <4>3
    <3>8. Answers
      <4>1. SUFFICES ASSUME x.op \in Committing, c # None
                     PROVE  /\ calls'[c].step = "done" => Leaves(x.writes, x.at, docs, docs')
                            /\ calls'[c].step = "refused" => docs' = docs
        OBVIOUS
      <4>2. /\ calls'[c].step = "done" => Answer("done")
            /\ calls'[c].step = "refused" => Answer("refused")
        BY <3>1, <3>a, <4>1
      <4> QED BY <3>7, <4>1, <4>2
    <3> QED BY <3>5, <3>7, <3>8
  <2>4. ASSUME NEW c \in Calls, TakeLock(c) \/ RefuseToken(c) \/ Resume(c) PROVE Step
    <3>1. UNCHANGED docs /\ (UNCHANGED jobs \/ \E job : jobs' = Append(jobs, job))
      BY <2>4 DEF TakeLock, RefuseToken, Resume
    <3> QED BY <2>1, <2>t, <3>1, AppendAny
  <2>5. ASSUME NEW c \in Calls, Leave(c) PROVE Step
    <3>1. jobs' = [i \in 1..Len(jobs) |->
                     IF jobs[i].caller = c THEN [jobs[i] EXCEPT !.caller = None] ELSE jobs[i]]
          /\ UNCHANGED docs
      BY <2>5, <2>t, AnySequence DEF Leave, IsSequence
    <3>2. Len(jobs') = Len(jobs)
      BY <2>l, <3>1, FunctionSequence
    <3> QED BY <2>1, <3>1, <3>2
  <2>6. ASSUME NEW c \in Calls, NEW op, NEW db, NEW writes, NEW token, NEW seen,
               Begin(c, op, db, writes, token, seen)
        PROVE  Step
    <3>1. UNCHANGED docs /\ (UNCHANGED jobs \/ \E job : jobs' = Append(jobs, job))
      BY <2>6 DEF Begin
    <3> QED BY <2>1, <2>t, <3>1, AppendAny
  <2>7. CASE Restart
    <3>1. crashes' # crashes
      BY <2>7, <2>t DEF Restart, TypeOK
    <3> QED BY <3>1
  <2>8. ASSUME (\E db \in Databases : begin_transaction(db)) \/ \E t \in tokens : rollback(t)
        PROVE  Step
    BY <2>1, <2>8 DEF begin_transaction, rollback
  <2> HIDE DEF Step
  <2> QED BY <1>1, <2>2, <2>3, <2>4, <2>5, <2>6, <2>7, <2>8, NextCases
<1>2. IInv /\ [Next]_vars => [Step]_vars
  BY <1>1
<1> QED BY <1>2, Invariance, PTL DEF Spec, CommitIsAtomic

(* The console loses no update: where one of its writes takes effect the     *)
(* document is still what the console took it for.                           *)
THEOREM ConsoleSafety == Spec => ConsoleLosesNothing
<1> DEFINE Step ==
      \A n \in Names :
        docs'[n] # docs[n] /\ docs'[n] # None =>
          \A call \in {calls[c] : c \in Calls} \cup {jobs[i].call : i \in DOMAIN jobs} :
            call.at = docs'[n].time =>
              /\ call.op = "edit" => docs[n] = call.seen[1]
              /\ call.op = "clone" => docs[n] = None
<1>1. IInv /\ [Next]_vars => [Step]_docs
  <2> SUFFICES ASSUME IInv, Next, NEW n \in Names, docs'[n] # docs[n], docs'[n] # None,
                      NEW x \in Requested, x.at = docs'[n].time
               PROVE  /\ x.op = "edit" => docs[n] = x.seen[1]
                      /\ x.op = "clone" => docs[n] = None
    BY DEF vars, Requested, Queued
  <2>1. PICK call \in ToRun : /\ Runs(call) /\ x.op = call.op /\ x.writes = call.writes
                              /\ x.seen = call.seen /\ x.at = call.at
    BY WrittenByRun
  <2>2. TypeOK /\ ToRunOK /\ ConsoleOK
    BY DEF IInv
  <2>3. ASSUME x.op \in {"edit", "clone"}
        PROVE  \E i \in 1..Len(x.writes) :
                 x.writes[i].name = n /\ check_precondition(docs[n], x.writes[i].cond)
    <3>1. Named(call) = call
      BY <2>1, <2>2, <2>3, RunFacts
    <3> QED BY <2>1, <2>2, <3>1, RunFacts
  <2>4. CASE x.op = "edit"
    <3>1. /\ Len(x.writes) = 1 /\ x.writes[1].cond = UpdateTime(x.seen[1].time)
          /\ docs[x.writes[1].name] # None /\ docs[x.writes[1].name].time = x.seen[1].time
               => docs[x.writes[1].name] = x.seen[1]
      BY <2>2, <2>4 DEF ConsoleOK
    <3>2. x.writes[1].name = n /\ check_precondition(docs[n], x.writes[1].cond)
      BY <2>3, <2>4, <3>1
    <3>3. docs[n] # None /\ docs[n].time = x.seen[1].time
      BY <3>1, <3>2 DEF check_precondition, UpdateTime
    <3> QED BY <2>4, <3>1, <3>2, <3>3
  <2>5. CASE x.op = "clone"
    <3>1. PICK i \in 1..Len(x.writes) :
            x.writes[i].name = n /\ check_precondition(docs[n], x.writes[i].cond)
      BY <2>3, <2>5
    <3>2. DOMAIN x.writes = 1..Len(x.writes)
      <4>1. x.writes \in Seq(Mutation)
        BY <2>2, RequestedFacts DEF Call
      <4> QED BY <4>1
    <3>3. x.writes[i].cond = Absent
      BY <2>2, <2>5, <3>2 DEF ConsoleOK
    <3>4. docs[n] = None
      BY <3>1, <3>3 DEF check_precondition, Absent
    <3> QED BY <2>5, <3>4
  <2> QED BY <2>4, <2>5
<1> QED BY <1>1, Invariance, PTL DEF Spec, ConsoleLosesNothing

-----------------------------------------------------------------------------
(* The pages of a query.                                                    *)

\* more is the sequence s and k elements of page after it.
GoesOnWith(more, s, k, page) ==
  /\ Len(more) = Len(s) + k /\ Len(s) \in Nat
  /\ \A i \in 1..Len(s) : more[i] = s[i]
  /\ \A i \in 1..k : Len(s) + i \in 1..Len(more) /\ more[Len(s) + i] = page[i]
  /\ \A i \in 1..Len(more) : i \in 1..Len(s) \/ \E j \in 1..k : i = Len(s) + j

LEMMA Joined ==
  ASSUME NEW S, NEW s \in Seq(S), NEW page \in Seq(S)
  PROVE  s \o page \in Seq(S) /\ GoesOnWith(s \o page, s, Len(page), page)
<1>1. /\ s \o page \in Seq(S) /\ Len(s \o page) = Len(s) + Len(page)
      /\ Len(s) \in Nat /\ Len(page) \in Nat
  OBVIOUS
<1>2. \A i \in 1..(Len(s) + Len(page)) :
        i \in 1..Len(s) \/ \E j \in 1..Len(page) : i = Len(s) + j
  <2> TAKE i \in 1..(Len(s) + Len(page))
  <2>1. i \in 1..Len(s) \/ (i - Len(s) \in 1..Len(page) /\ i = Len(s) + (i - Len(s)))
    BY <1>1
  <2> QED BY <2>1
<1>3. \A i \in 1..Len(page) :
        Len(s) + i \in 1..(Len(s) + Len(page)) /\ (s \o page)[Len(s) + i] = page[i]
  OBVIOUS
<1>4. \A i \in 1..Len(s) : (s \o page)[i] = s[i]
  OBVIOUS
<1> QED BY <1>1, <1>2, <1>3, <1>4 DEF GoesOnWith

\* The rows that were read.
LEMMA ReadFacts ==
  ASSUME PagesTypeOK
  PROVE  /\ Len(read) \in Nat /\ DOMAIN read = 1..Len(read)
         /\ \A i \in 1..Len(read) : read[i].rank \in Int
         /\ read # <<>> => Len(read) \in 1..Len(read)
<1> DEFINE Rows == [name : DOMAIN result, rank : Int]
<1>1. read \in Seq(Rows) /\ \A row \in Rows : row.rank \in Int
  BY DEF PagesTypeOK
<1> HIDE DEF Rows
<1>2. \A i \in 1..Len(read) : read[i] \in Rows
  BY <1>1
<1>3. Len(read) \in Nat /\ DOMAIN read = 1..Len(read) /\ (read # <<>> => Len(read) # 0)
  BY <1>1
<1>4. read # <<>> => Len(read) \in 1..Len(read)
  BY <1>3
<1> QED BY <1>1, <1>2, <1>3, <1>4

\* What is ahead are the rows of the result behind the last that was read.
LEMMA AheadFacts ==
  ASSUME PagesTypeOK
  PROVE  /\ Ahead \subseteq [name : DOMAIN result, rank : Int]
         /\ \A row \in Ahead :
              /\ row.name \in DOMAIN result /\ row.rank \in Int
              /\ InResult(row.name) /\ row = Row(row.name)
              /\ read # <<>> => read[Len(read)].rank < row.rank
         /\ \A n \in DOMAIN result :
              InResult(n) => Row(n) \in Ahead \/ Past(n)
         /\ \A n \in DOMAIN result : InResult(n) => result[n] \in Int
<1>1. \A n \in DOMAIN result : InResult(n) => result[n] \in Int
  BY DEF PagesTypeOK, InResult
<1>2. read # <<>> => read[Len(read)].rank \in Int
  BY ReadFacts
<1>3. \A n \in DOMAIN result : InResult(n) => Row(n) \in Ahead \/ Past(n)
  BY <1>1, <1>2 DEF Ahead, Row, Past
<1> QED BY <1>1, <1>3 DEF Ahead, Row

\* A page goes on where the one before it ended.
LEMMA PageStep ==
  ASSUME PagesInv, NextPage
  PROVE  PagesInv'
<1>0. PICK k \in 0..limit : \E page \in [1..k -> Ahead] :
        /\ RanksAscend(page)
        /\ \A row \in Ahead \ {page[i] : i \in 1..k} :
             k = limit /\ \A i \in 1..k : page[i].rank < row.rank
        /\ read' = read \o page /\ ended' = (k < limit)
  BY DEF NextPage
<1>1. PICK page \in [1..k -> Ahead] :
        /\ RanksAscend(page)
        /\ \A row \in Ahead \ {page[i] : i \in 1..k} :
             k = limit /\ \A i \in 1..k : page[i].rank < row.rank
        /\ read' = read \o page /\ ended' = (k < limit)
  BY <1>0
<1>2. PagesTypeOK /\ PagesGoForward /\ QuietRowsOK /\ limit \in Nat
  BY DEF PagesInv, PagesTypeOK
<1>3. UNCHANGED <<result, limit, moved>> /\ ~ended
  BY DEF NextPage
<1> DEFINE D == DOMAIN result
           Rows == [name : D, rank : Int]
<1>4. Ahead \subseteq Rows /\ read \in Seq(Rows) /\ \A row \in Rows : row.rank \in Int
  BY <1>2, AheadFacts DEF PagesTypeOK
<1> HIDE DEF Rows
<1>5. PICK more : more = read \o page
  OBVIOUS
<1>6. /\ k \in Nat /\ page \in [1..k -> Rows]
      /\ \A i \in 1..k : page[i] \in Ahead /\ page[i].rank \in Int
  BY <1>2, <1>4
<1>7. /\ more \in Seq(Rows) /\ Len(more) = Len(read) + k /\ Len(read) \in Nat
      /\ \A i \in 1..Len(read) : more[i] = read[i]
      /\ \A i \in 1..k : Len(read) + i \in 1..Len(more) /\ more[Len(read) + i] = page[i]
      /\ \A i \in 1..Len(more) : i \in 1..Len(read) \/ \E j \in 1..k : i = Len(read) + j
  <2>1. read \in Seq(Rows) /\ page \in Seq(Rows) /\ Len(page) = k
    BY <1>4, <1>6, SeqDef
  <2>2. read \o page \in Seq(Rows) /\ GoesOnWith(read \o page, read, Len(page), page)
    BY <2>1, Joined
  <2> QED BY <1>5, <2>1, <2>2 DEF GoesOnWith
<1>8. RanksAscend(more)
  <2> SUFFICES ASSUME NEW i \in 1..Len(more), NEW j \in 1..Len(more), i < j
               PROVE  more[i].rank < more[j].rank
    <3>1. DOMAIN more = 1..Len(more)
      BY <1>7
    <3> QED BY <3>1 DEF RanksAscend
  <2>0. /\ \A l \in 1..Len(read) : more[l].rank \in Int /\ more[l] = read[l]
        /\ \A l, m \in 1..Len(read) : l < m => read[l].rank < read[m].rank
    BY <1>2, <1>7, ReadFacts DEF PagesGoForward, RanksAscend
  <2>1. CASE j \in 1..Len(read)
    <3>1. i \in 1..Len(read)
      BY <1>7, <2>1
    <3> QED BY <2>0, <2>1, <3>1
  <2>2. CASE i \in 1..Len(read) /\ j \notin 1..Len(read)
    <3>1. PICK b \in 1..k : j = Len(read) + b
      BY <1>7, <2>2
    <3>2. more[j] \in Ahead /\ more[j].rank \in Int
      BY <1>6, <1>7, <3>1
    <3>3. read # <<>> /\ Len(read) \in 1..Len(read)
      BY <1>2, <2>2, ReadFacts
    <3>4. read[Len(read)].rank < more[j].rank
      BY <1>2, <3>2, <3>3, AheadFacts
    <3>5. i = Len(read) \/ i < Len(read)
      BY <1>7, <2>2
    <3>6. read[i].rank \in Int /\ read[Len(read)].rank \in Int /\ more[i] = read[i]
      BY <2>0, <2>2, <3>3
    <3>7. i < Len(read) => read[i].rank < read[Len(read)].rank
      BY <2>0, <2>2, <3>3
    <3> QED BY <3>2, <3>4, <3>5, <3>6, <3>7
  <2>3. CASE i \notin 1..Len(read)
    <3>1. PICK a \in 1..k : i = Len(read) + a
      BY <1>7, <2>3
    <3>2. j \notin 1..Len(read)
      BY <1>7, <2>3
    <3>3. PICK b \in 1..k : j = Len(read) + b
      BY <1>7, <3>2
    <3>4. a < b
      BY <1>7, <3>1, <3>3
    <3>5. page[a].rank < page[b].rank
      BY <1>1, <1>6, <3>4 DEF RanksAscend
    <3> QED BY <1>7, <3>1, <3>3, <3>5
  <2> QED BY <2>1, <2>2, <2>3
<1>9. ASSUME NEW n \in D \ moved
      PROVE  /\ \A i \in 1..Len(more) : more[i].name = n => InResult(n) /\ more[i] = Row(n)
             /\ InResult(n) /\ (k < limit \/ (more # <<>> /\ result[n] <= more[Len(more)].rank))
                  => \E i \in 1..Len(more) : more[i] = Row(n)
  <2>1. ASSUME NEW i \in 1..Len(more), more[i].name = n
        PROVE  InResult(n) /\ more[i] = Row(n)
    <3>1. CASE i \in 1..Len(read)
      BY <1>2, <1>7, <2>1, <3>1 DEF QuietRowsOK
    <3>2. CASE i \notin 1..Len(read)
      <4>1. more[i] \in Ahead
        BY <1>6, <1>7, <3>2
      <4> QED BY <1>2, <2>1, <4>1, AheadFacts
    <3> QED BY <3>1, <3>2
  <2>2. ASSUME InResult(n), k < limit \/ (more # <<>> /\ result[n] <= more[Len(more)].rank)
        PROVE  \E i \in 1..Len(more) : more[i] = Row(n)
    <3>1. CASE Past(n)
      <4>1. PICK i \in 1..Len(read) : read[i] = Row(n)
        BY <1>2, <2>2, <3>1 DEF QuietRowsOK
      <4>2. i \in 1..Len(more) /\ more[i] = Row(n)
        BY <1>6, <1>7, <4>1
      <4> QED BY <4>2
    <3>2. CASE ~Past(n)
      <4>1. Row(n) \in Ahead
        BY <1>2, <2>2, <3>2, AheadFacts
      <4>2. CASE \E i \in 1..k : page[i] = Row(n)
        <5>1. PICK i \in 1..k : page[i] = Row(n)
          BY <4>2
        <5> QED BY <1>7, <5>1
      <4>3. CASE Row(n) \notin {page[i] : i \in 1..k}
        <5>1. k = limit /\ \A i \in 1..k : page[i].rank < result[n]
          BY <1>1, <4>1, <4>3 DEF Row
        <5>2. more # <<>> /\ result[n] <= more[Len(more)].rank
          BY <1>2, <2>2, <5>1
        <5>3. k # 0
          <6> SUFFICES ASSUME k = 0 PROVE FALSE
            OBVIOUS
          <6>1. Len(more) = Len(read) /\ Len(more) # 0 /\ Len(more) \in Nat
            BY <1>7, <5>2
          <6>2. read # <<>> /\ more[Len(more)] = read[Len(read)]
            BY <1>7, <6>1
          <6> QED BY <3>2, <5>2, <6>2 DEF Past
        <5>4. k \in 1..k /\ more[Len(more)] = page[k]
          BY <1>6, <1>7, <5>3
        <5>5. page[k].rank \in Int /\ result[n] \in Int
          BY <1>2, <1>6, <2>2, <5>4, AheadFacts
        <5> QED BY <5>1, <5>2, <5>4, <5>5
      <4> QED BY <4>2, <4>3
    <3> QED BY <3>1, <3>2
  <2> QED BY <2>1, <2>2
<1>10. read' = more
  BY <1>1, <1>5
<1>11. PagesTypeOK'
  <2>1. read' \in Seq([name : D', rank : Int]) /\ ended' \in BOOLEAN
    BY <1>1, <1>3, <1>7, <1>10 DEF Rows
  <2> QED BY <1>2, <1>3, <2>1 DEF PagesTypeOK
<1>12. PagesGoForward'
  BY <1>8, <1>10 DEF PagesGoForward, RanksAscend
<1>13. QuietRowsOK'
  <2> SUFFICES ASSUME NEW n \in D \ moved
               PROVE  /\ \A i \in 1..Len(more) : more[i].name = n => InResult(n)' /\ more[i] = Row(n)'
                      /\ InResult(n)' /\ Past(n)' => \E i \in 1..Len(more) : more[i] = Row(n)'
    BY <1>3, <1>10 DEF QuietRowsOK
  <2>1. InResult(n)' = InResult(n) /\ Row(n)' = Row(n)
    BY <1>3 DEF InResult, Row
  <2>2. Past(n)' => k < limit \/ (more # <<>> /\ result[n] <= more[Len(more)].rank)
    BY <1>1, <1>3, <1>10 DEF Past
  <2> QED BY <1>9, <2>1, <2>2
<1> QED BY <1>11, <1>12, <1>13 DEF PagesInv

\* A write leaves the rows of all other documents.
LEMMA WriteStep ==
  ASSUME PagesInv, NEW n \in DOMAIN result, WriteDocument(n)
  PROVE  PagesInv'
<1>1. /\ PagesTypeOK /\ PagesGoForward /\ QuietRowsOK
      /\ moved' = moved \cup {n} /\ UNCHANGED <<limit, read, ended>>
      /\ DOMAIN result' = DOMAIN result /\ result' \in [DOMAIN result -> Int \cup {Outside}]
      /\ \A m \in DOMAIN result \ {n} : result'[m] = result[m]
  BY DEF PagesInv, WriteDocument
<1>2. PagesTypeOK' /\ PagesGoForward'
  BY <1>1 DEF PagesTypeOK, PagesGoForward, RanksAscend
<1>3. QuietRowsOK'
  <2> SUFFICES ASSUME NEW m \in DOMAIN result \ moved, m # n
               PROVE  /\ \A i \in 1..Len(read) :
                           read[i].name = m => InResult(m)' /\ read[i] = Row(m)'
                      /\ InResult(m)' /\ Past(m)' => \E i \in 1..Len(read) : read[i] = Row(m)'
    BY <1>1 DEF QuietRowsOK, InResult, Row, Past
  <2>1. result'[m] = result[m]
    BY <1>1
  <2>2. InResult(m)' = InResult(m) /\ Row(m)' = Row(m) /\ Past(m)' = Past(m)
    BY <1>1, <2>1 DEF InResult, Row, Past
  <2> QED BY <1>1, <2>2 DEF QuietRowsOK
<1> QED BY <1>2, <1>3 DEF PagesInv

\* The invariant of the pages.
LEMMA PagesInvariance == PagesSpec => []PagesInv
<1>1. PagesInit => PagesInv
  <2> SUFFICES ASSUME PagesInit PROVE PagesInv
    OBVIOUS
  <2>1. Len(read) = 0 /\ DOMAIN read = {} /\ ~ended /\ read = <<>>
    BY DEF PagesInit
  <2>4. PagesTypeOK
    <3>1. read \in Seq([name : DOMAIN result, rank : Int])
      BY <2>1
    <3> QED BY <3>1 DEF PagesInit, PagesTypeOK
  <2>2. PagesGoForward
    BY <2>1 DEF PagesGoForward, RanksAscend
  <2>3. QuietRowsOK
    BY <2>1 DEF QuietRowsOK, Past
  <2> QED BY <2>2, <2>3, <2>4 DEF PagesInv
<1>2. PagesInv /\ [PagesNext]_pageVars => PagesInv'
  <2> SUFFICES ASSUME PagesInv, [PagesNext]_pageVars
               PROVE  PagesInv'
    OBVIOUS
  <2>1. CASE NextPage
    BY <2>1, PageStep
  <2>2. ASSUME NEW n \in DOMAIN result, WriteDocument(n)
        PROVE  PagesInv'
    BY <2>2, WriteStep
  <2>3. CASE UNCHANGED pageVars
    BY <2>3 DEF pageVars, PagesInv, PagesTypeOK, PagesGoForward, RanksAscend, QuietRowsOK,
                InResult, Row, Past
  <2> QED BY <2>1, <2>2, <2>3 DEF PagesNext
<1> QED BY <1>1, <1>2, PTL DEF PagesSpec

(* What a client has read page by page is in strictly ascending order, for   *)
(* every result, size of pages and writes between them (run_query).          *)
THEOREM PagesOrder == PagesSpec => []PagesGoForward
<1>1. PagesInv => PagesGoForward
  BY DEF PagesInv
<1> QED BY <1>1, PagesInvariance, PTL

(* A document of the result that nobody wrote meanwhile is read once, and    *)
(* nothing else that nobody wrote is (run_query with a cursor).              *)
THEOREM PagesSafety == PagesSpec => []PagesAreComplete
<1>1. PagesInv => PagesAreComplete
  <2> SUFFICES ASSUME PagesInv, ended, NEW n \in DOMAIN result \ moved
               PROVE  Cardinality({i \in DOMAIN read : read[i].name = n}) =
                      IF InResult(n) THEN 1 ELSE 0
    BY DEF PagesAreComplete
  <2>1. /\ \A i \in 1..Len(read) : read[i].name = n => InResult(n) /\ read[i] = Row(n)
        /\ InResult(n) => \E i \in 1..Len(read) : read[i] = Row(n)
        /\ PagesTypeOK /\ DOMAIN read = 1..Len(read) /\ Len(read) \in Nat
        /\ \A i, j \in 1..Len(read) : i < j => read[i].rank < read[j].rank
    BY ReadFacts DEF PagesInv, QuietRowsOK, Past, PagesGoForward, RanksAscend
  <2>2. CASE InResult(n)
    <3>1. PICK i \in 1..Len(read) : read[i] = Row(n)
      BY <2>1, <2>2
    <3>2. \A j \in 1..Len(read) : read[j].name = n => j = i
      <4> SUFFICES ASSUME NEW j \in 1..Len(read), read[j].name = n, j # i
                   PROVE  FALSE
        OBVIOUS
      <4>1. read[j] = read[i] /\ read[i].rank \in Int /\ {i, j} \subseteq Nat
        BY <2>1, <3>1, ReadFacts
      <4>2. read[i].rank < read[j].rank \/ read[j].rank < read[i].rank
        BY <2>1
      <4> QED BY <4>1, <4>2
    <3>3. {j \in DOMAIN read : read[j].name = n} = {i}
      BY <2>1, <3>1, <3>2 DEF Row
    <3> QED BY <2>2, <3>3, FS_Singleton
  <2>3. CASE ~InResult(n)
    <3>1. {j \in DOMAIN read : read[j].name = n} = {}
      BY <2>1, <2>3
    <3> QED BY <2>3, <3>1, FS_EmptySet
  <2> QED BY <2>2, <2>3
<1> QED BY <1>1, PagesInvariance, PTL
=============================================================================
