--------------------------- MODULE ListenersProofs ---------------------------
(***************************************************************************)
(* Proofs about Listeners for every set of documents and targets, every    *)
(* number of commits and requests, and channels of every size.             *)
(***************************************************************************)
EXTENDS Listeners, FoldLemmas

Views == [TargetIds -> Snapshot \cup {None}]

\* One response and what it makes of a view.
Showing == {t \in Views \X Messages \X Views : t[3] = Shown(t[1], t[2])}

\* Every view of v is one snapshot of the log l, no older than from.
UpToDate(v, from, l) ==
  \A id \in TargetIds : v[id] # None => \E j \in from[id]..Len(l) : v[id] = Matching(id, l[j])

\* V walks along the responses Q, and the views are up to date at each NO_CHANGE.
Marks(V, v, Q, from, l) ==
  /\ Walk(V, Views, Messages, Showing, v, Q)
  /\ \A i \in 1..Len(Q) : Q[i].kind = "no_change" => UpToDate(V[i], from, l)

\* A target that is shown where the walk ends was added at most once on the way
\* and not removed; the other way round for one that is not.
Once(V, n) ==
  \A id \in TargetIds : \A i, j \in 0..n :
    i <= j /\ (V[i][id] = None <=> V[n][id] = None) => (V[j][id] = None <=> V[n][id] = None)

-----------------------------------------------------------------------------
(* The invariant.                                                          *)

\* The log ends with the documents; no target was added after it, and what is
\* not notified was committed.
LogOK ==
  /\ Len(log) >= 1 /\ log[Len(log)] = docs /\ \A id \in TargetIds : since[id] <= Len(log)
  /\ unsent < Len(log)

\* The task emits targets that it has; nothing is left to do when it has ended.
TodoOK ==
  /\ \A i \in 1..Len(todo) : targets[todo[i]] # None
  /\ initial /\ todo # <<>> => Len(todo) = 1
  /\ ~open => todo = <<>> /\ sending = <<>> /\ asked = <<>>

\* What the task takes the client to know of a target is a snapshot, once the
\* target was emitted.
TargetsOK ==
  \A id \in TargetIds :
    \/ targets[id] = None
    \/ initial /\ todo # <<>> /\ Head(todo) = id
    \/ \E j \in since[id]..Len(log) : targets[id] = Matching(id, log[j])

\* A request that the task has not read is the only one for its target, and the
\* task and the client agree about that target.
AskedOK ==
  /\ \A i, j \in 1..Len(asked) : asked[i].id = asked[j].id => i = j
  /\ \A i \in 1..Len(asked) :
       /\ targets[asked[i].id] = None <=> asked[i].add
       /\ view[asked[i].id] = None <=> asked[i].add

\* What the responses that are on their way will make of the views: what the
\* task takes the client to know, by way of a snapshot at every NO_CHANGE.
WayOK ==
  \E V : /\ Marks(V, view, out \o sending, since, log)
         /\ open => V[Len(out \o sending)] = targets /\ Once(V, Len(out \o sending))

IInv ==
  TypeOK /\ LogOK /\ TodoOK /\ TargetsOK /\ AskedOK /\ ViewIsASnapshot /\ WayOK

-----------------------------------------------------------------------------
(* Facts about views.                                                      *)

\* None is told apart from what is shown.
LEMMA NoneFacts ==
  /\ None \notin Snapshot /\ None \notin TargetIds /\ None \notin Names
  /\ Nothing \in Snapshot /\ 0 \in Version /\ IsFiniteSet(Names) /\ IsFiniteSet(TargetIds)
  BY FeedAssumption DEF Snapshot, Version, Nothing

\* What a target selects is a snapshot.
LEMMA MatchingType ==
  ASSUME NEW id \in TargetIds, NEW s \in Snapshot
  PROVE  Matching(id, s) \in Snapshot
  BY NoneFacts DEF Matching, Snapshot

\* What a response shows.
LEMMA ShownFacts ==
  ASSUME NEW v \in Views, NEW m \in Messages
  PROVE  /\ Shown(v, m) \in Views
         /\ m.kind = "add" => Shown(v, m) = [v EXCEPT ![m.id] = Nothing]
         /\ m.kind = "remove" => Shown(v, m) = [v EXCEPT ![m.id] = None]
         /\ m.kind \in {"change", "delete"} /\ v[m.id] # None =>
              Shown(v, m) = [v EXCEPT ![m.id] = [@ EXCEPT ![m.name] = m.version]]
         /\ m.kind \in {"current", "no_change"} => Shown(v, m) = v
         /\ <<v, m, Shown(v, m)>> \in Showing
<1>1. /\ m.kind \in {"add", "remove", "change", "delete", "current", "no_change"}
      /\ m.kind # "no_change" => m.id \in TargetIds
      /\ m.kind \in {"change", "delete"} => m.name \in Names
      /\ m.version \in Version
  BY DEF Messages
<1>2. \A id \in TargetIds : v[id] # None => v[id] \in Snapshot
  BY DEF Views
<1>3. CASE m.kind = "add"
  <2>1. Shown(v, m) = [v EXCEPT ![m.id] = Nothing]
    BY <1>3 DEF Shown
  <2>2. Shown(v, m) \in Views
    BY <1>1, <1>3, <2>1, NoneFacts DEF Views
  <2> QED BY <1>3, <2>1, <2>2 DEF Showing
<1>4. CASE m.kind = "remove"
  <2>1. Shown(v, m) = [v EXCEPT ![m.id] = None]
    BY <1>4 DEF Shown
  <2>2. Shown(v, m) \in Views
    BY <1>1, <1>4, <2>1 DEF Views
  <2> QED BY <1>4, <2>1, <2>2 DEF Showing
<1>5. CASE m.kind \in {"change", "delete"} /\ v[m.id] # None
  <2>1. Shown(v, m) = [v EXCEPT ![m.id] = [@ EXCEPT ![m.name] = m.version]]
    BY <1>5 DEF Shown
  <2>2. [v[m.id] EXCEPT ![m.name] = m.version] \in Snapshot
    BY <1>1, <1>2, <1>5 DEF Snapshot
  <2>3. Shown(v, m) \in Views
    BY <1>1, <1>5, <2>1, <2>2 DEF Views
  <2> QED BY <1>5, <2>1, <2>3 DEF Showing
<1>6. CASE m.kind \in {"current", "no_change"} \/ (m.kind \in {"change", "delete"} /\ v[m.id] = None)
  <2>1. Shown(v, m) = v
    BY <1>6 DEF Shown
  <2> QED BY <1>6, <2>1 DEF Showing
<1> QED BY <1>1, <1>3, <1>4, <1>5, <1>6

\* A view with another snapshot of one target.
LEMMA ViewExcept ==
  ASSUME NEW v \in Views, NEW id \in TargetIds, NEW s \in Snapshot
  PROVE  /\ [v EXCEPT ![id] = s] \in Views /\ [v EXCEPT ![id] = s][id] = s /\ s # None
         /\ \A j \in TargetIds : j # id => [v EXCEPT ![id] = s][j] = v[j]
  BY NoneFacts DEF Views

\* What responses that set one document, or nothing, make of the views.
LEMMA ShowingDisplays == Displays(Showing, Views, Messages, None)
<1> SUFFICES ASSUME NEW v \in Views, NEW m \in Messages
             PROVE  /\ m.kind = "current" => <<v, m, v>> \in Showing
                    /\ m.kind \in {"change", "delete"} /\ v[m.id] # None =>
                         <<v, m, [v EXCEPT ![m.id] = [@ EXCEPT ![m.name] = m.version]]>> \in Showing
  BY DEF Displays
<1> QED BY ShownFacts

\* News turn what is known of the target into what it is now, and touch no
\* other target.
LEMMA NewsOfViews ==
  ASSUME NEW T \in Views, NEW id \in TargetIds, NEW cur \in Snapshot, T[id] # None,
         NEW m, IsNews(m, Messages, Names, id, T[id], cur)
  PROVE  \E V : /\ Walk(V, Views, Messages, Showing, T, m)
                /\ V[Len(m)] = [T EXCEPT ![id] = cur]
                /\ \A i \in 0..Len(m), j \in TargetIds : V[i][j] = None <=> T[j] = None
<1>1. AreViews(Views, TargetIds, Names, Version, None)
  BY NoneFacts DEF AreViews, Views, Snapshot
<1>2. cur \in [Names -> Version]
  BY DEF Snapshot
<1> QED BY <1>1, <1>2, ShowingDisplays, NewsWay

-----------------------------------------------------------------------------
(* What emit_target sends.                                                 *)

\* The responses of one kind for the names of S.
Told(S, kind, id, cur) ==
  LET s == SetToSeq(S) IN [i \in DOMAIN s |-> Response(kind, id, s[i], cur[s[i]])]

\* That is what they do.
LEMMA ToldFacts ==
  ASSUME NEW S \in SUBSET Names, NEW kind \in {"change", "delete"}, NEW id \in TargetIds,
         NEW cur \in Snapshot
  PROVE  Tells(Told(S, kind, id, cur), Messages, Names, S, id, cur)
<1> DEFINE s == SetToSeq(S)
           m == Told(S, kind, id, cur)
<1>1. IsFiniteSet(S)
  BY NoneFacts, FS_Subset
<1>2. m = [i \in DOMAIN s |-> Response(kind, id, s[i], cur[s[i]])]
  BY DEF Told
<1> HIDE DEF m
<1>3. ASSUME NEW i \in DOMAIN s, s[i] \in S
      PROVE  m[i] \in Messages /\ Sets(m[i], Names, id, cur) /\ m[i].name = s[i]
  <2>1. s[i] \in Names /\ cur[s[i]] \in Version
    BY <1>3 DEF Snapshot
  <2>2. m[i] = Response(kind, id, s[i], cur[s[i]])
    BY <1>2
  <2>3. m[i] \in Messages
    BY <2>1, <2>2 DEF Response, Messages
  <2> QED BY <2>1, <2>2, <2>3 DEF Response, Sets
<1>4. m = [i \in DOMAIN s |-> m[i]]
  BY <1>2
<1>5. Tells(m, Messages, Names, S, id, cur)
  BY <1>1, <1>3, <1>4, TellsEach
<1> QED BY <1>5 DEF m

\* The removals and the changes are news of the target; a CURRENT after them
\* changes nothing.
LEMMA NewsFacts ==
  ASSUME TypeOK, NEW id \in TargetIds, targets[id] # None, NEW cur \in Snapshot,
         NEW tail, tail = <<>> \/ tail = <<Response("current", id, None, 0)>>
  PROVE  LET m == Told(Removals(id, cur), "delete", id, cur) \o Told(Changes(id, cur), "change", id, cur)
                  \o tail
         IN IsNews(m, Messages, Names, id, targets[id], cur) /\ \A k \in 1..Len(m) : m[k].kind # "no_change"
<1> DEFINE p == Told(Removals(id, cur), "delete", id, cur)
           q == Told(Changes(id, cur), "change", id, cur)
           m == (p \o q) \o tail
           old == targets[id]
<1>1. Removals(id, cur) \in SUBSET Names /\ Changes(id, cur) \in SUBSET Names
  BY DEF Removals, Changes
<1>2. Tells(p, Messages, Names, Removals(id, cur), id, cur)
  <2>1. PICK S, kind : S = Removals(id, cur) /\ kind = "delete"
    OBVIOUS
  <2>2. S \in SUBSET Names /\ kind \in {"change", "delete"}
    BY <1>1, <2>1
  <2>3. Tells(Told(S, kind, id, cur), Messages, Names, S, id, cur)
    BY <2>2, ToldFacts
  <2> QED BY <2>1, <2>3
<1>3. Tells(q, Messages, Names, Changes(id, cur), id, cur)
  <2>1. PICK S, kind : S = Changes(id, cur) /\ kind = "change"
    OBVIOUS
  <2>2. S \in SUBSET Names /\ kind \in {"change", "delete"}
    BY <1>1, <2>1
  <2>3. Tells(Told(S, kind, id, cur), Messages, Names, S, id, cur)
    BY <2>2, ToldFacts
  <2> QED BY <2>1, <2>3
<1>4. tail \in Seq(Messages) /\ \A k \in 1..Len(tail) : tail[k].kind = "current"
  <2>1. Response("current", id, None, 0) \in Messages
    BY NoneFacts DEF Response, Messages
  <2>2. Response("current", id, None, 0).kind = "current"
    BY DEF Response
  <2> DEFINE c == Response("current", id, None, 0)
  <2> HIDE DEF c
  <2>3. c \in Messages /\ c.kind = "current" /\ (tail = <<>> \/ tail = <<c>>)
    BY <2>1, <2>2 DEF c
  <2>4. CASE tail = <<>>
    BY <2>4
  <2>5. CASE tail = <<c>>
    <3>1. <<c>> \in Seq(Messages) /\ Len(<<c>>) = 1 /\ <<c>>[1] = c
      BY <2>3
    <3> QED BY <2>3, <2>5, <3>1
  <2> QED BY <2>3, <2>4, <2>5
<1>5. \A n \in Names : old[n] = cur[n] \/ n \in Removals(id, cur) \/ n \in Changes(id, cur)
  <2>1. old \in Snapshot
    BY DEF TypeOK
  <2> QED BY <2>1 DEF Removals, Changes, Snapshot
<1> HIDE DEF p, q, old
<1>6. IsNews(m, Messages, Names, id, old, cur)
  BY <1>2, <1>3, <1>4, <1>5, NewsOf
<1> HIDE DEF m
<1>7. \A k \in 1..Len(m) : m[k].kind # "no_change"
  BY <1>6 DEF IsNews, Sets
<1> QED BY <1>6, <1>7 DEF m, p, q, old

-----------------------------------------------------------------------------
(* The invariant holds initially and every step keeps it.                  *)

\* An empty store and a call without targets satisfy the invariant.
LEMMA InitIInv == Init => IInv
<1> SUFFICES ASSUME Init PROVE IInv
  OBVIOUS
<1>1. docs \in Snapshot /\ log = <<docs>>
  BY NoneFacts DEF Init, FeedInit, Snapshot
<1>2. log \in Seq(Snapshot) /\ Len(log) = 1 /\ log[1] = docs
  BY <1>1
<1>3. TypeOK
  <2>1. FeedTypeOK
    <3>1. durable \in BOOLEAN /\ missed \in BOOLEAN
      BY FeedAssumption DEF Init, FeedInit
    <3>2. unsent \in 0..MaxCommits
      BY FeedAssumption DEF Init, FeedInit
    <3> QED BY <1>1, <1>2, <3>1, <3>2 DEF FeedTypeOK
  <2>2. /\ {open, lagged, initial, marked} \subseteq BOOLEAN /\ pending \in 0..Capacity
        /\ targets \in [TargetIds -> Snapshot \cup {None}]
        /\ view \in [TargetIds -> Snapshot \cup {None}]
        /\ requests \in 0..MaxRequests /\ since \in [TargetIds -> Nat \ {0}]
    <3>1. open \in BOOLEAN /\ lagged \in BOOLEAN /\ initial \in BOOLEAN /\ marked \in BOOLEAN
      BY DEF Init
    <3>2. pending \in 0..Capacity /\ requests \in 0..MaxRequests
      BY ListenersAssumption DEF Init
    <3>3. /\ targets = [id \in TargetIds |-> None] /\ view = [id \in TargetIds |-> None]
          /\ since = [id \in TargetIds |-> 1]
      BY DEF Init
    <3> QED BY <3>1, <3>2, <3>3
  <2>3. /\ todo = <<>> /\ asked = <<>> /\ sending = <<>> /\ out = <<>> /\ Len(out) = 0
    BY DEF Init
  <2>4. todo \in Seq(TargetIds) /\ asked \in Seq([add : BOOLEAN, id : TargetIds])
    BY <2>3
  <2>5. {sending, out} \subseteq Seq(Messages) /\ Len(out) <= OutLimit
    <3>1. <<>> \in Seq(Messages) /\ OutLimit \in Nat
      BY ListenersAssumption
    <3> QED BY <2>3, <3>1
  <2> QED BY <2>1, <2>2, <2>4, <2>5 DEF TypeOK
<1>4. LogOK
  BY <1>2 DEF Init, FeedInit, LogOK
<1>5. TodoOK /\ TargetsOK /\ AskedOK /\ ViewIsASnapshot
  BY DEF Init, TodoOK, TargetsOK, AskedOK, ViewIsASnapshot
<1>6. WayOK
  <2> DEFINE V == [i \in 0..0 |-> view]
             Q == out \o sending
  <2>1. Q = <<>> /\ Q \in Seq(Messages) /\ Len(Q) = 0
    BY DEF Init
  <2>2. view \in Views
    BY <1>3 DEF TypeOK, Views
  <2>3. V \in [0..0 -> Views] /\ V[0] = view
    BY <2>2
  <2> HIDE DEF V, Q
  <2>4. Marks(V, view, Q, since, log)
    BY <2>1, <2>3 DEF Marks, Walk
  <2>5. V[Len(Q)] = targets
    BY <2>1, <2>3 DEF Init
  <2>6. Once(V, Len(Q))
    BY <2>1 DEF Once
  <2> QED BY <2>4, <2>5, <2>6 DEF WayOK, Q
<1> QED BY <1>3, <1>4, <1>5, <1>6 DEF IInv

\* A change of the store is one more entry of the log.
LEMMA ChangeFacts ==
  ASSUME TypeOK, LogOK, Change
  PROVE  /\ docs' \in Snapshot /\ log' = Append(log, docs') /\ log' \in Seq(Snapshot)
         /\ Len(log') = Len(log) + 1 /\ Len(log) \in Nat /\ Len(log) <= MaxCommits
         /\ log'[Len(log')] = docs' /\ \A i \in 1..Len(log) : log'[i] = log[i]
         /\ durable' = durable
<1> DEFINE n == Len(log)
<1>1. log \in Seq(Snapshot) /\ docs \in Snapshot /\ n \in Nat /\ n >= 1
  BY DEF TypeOK, FeedTypeOK, LogOK
<1>2. n <= MaxCommits /\ log' = Append(log, docs') /\ durable' = durable
  BY DEF Change
<1>3. n \in Version
  BY <1>1, <1>2, FeedAssumption DEF Version
<1>4. docs' \in Snapshot
  BY <1>1, <1>3, NoneFacts DEF Change, Snapshot
<1>5. /\ log' \in Seq(Snapshot) /\ Len(log') = n + 1 /\ log'[n + 1] = docs'
      /\ \A i \in 1..n : log'[i] = log[i]
  BY <1>1, <1>2, <1>4, AppendProperties
<1> QED BY <1>1, <1>2, <1>4, <1>5

\* What the store's steps do to its part of the state.
LEMMA StoreFacts ==
  ASSUME TypeOK, LogOK, Store
  PROVE  /\ FeedTypeOK' /\ LogOK'
         /\ Len(log) \in Nat /\ Len(log') \in Nat /\ Len(log) <= Len(log')
         /\ \A i \in 1..Len(log) : log'[i] = log[i]
<1>1. /\ Len(log) \in Nat /\ Len(log) >= 1 /\ unsent \in Nat /\ unsent < Len(log)
      /\ durable \in BOOLEAN /\ missed \in BOOLEAN /\ MaxCommits \in Nat
      /\ docs \in Snapshot /\ log \in Seq(Snapshot) /\ unsent <= MaxCommits
      /\ since \in [TargetIds -> Nat \ {0}] /\ since' = since /\ \A id \in TargetIds : since[id] <= Len(log)
      /\ log[Len(log)] = docs
  BY FeedAssumption DEF TypeOK, FeedTypeOK, LogOK, Store
<1>2. CASE Commit \/ CommitJob
  <2>1. Change /\ unsent' \in {unsent, unsent + 1} /\ missed' = missed
    BY <1>2 DEF Commit, CommitJob
  <2>2. /\ docs' \in Snapshot /\ log' \in Seq(Snapshot)
        /\ Len(log') = Len(log) + 1 /\ Len(log) <= MaxCommits
        /\ log'[Len(log')] = docs' /\ \A i \in 1..Len(log) : log'[i] = log[i]
        /\ durable' = durable
    BY <2>1, ChangeFacts
  <2>3. unsent' \in 0..MaxCommits /\ unsent' < Len(log')
    BY <1>1, <2>1, <2>2
  <2>4. FeedTypeOK'
    BY <1>1, <2>1, <2>2, <2>3 DEF FeedTypeOK
  <2>5. \A id \in TargetIds : since'[id] <= Len(log')
    BY <1>1, <2>2
  <2>6. LogOK'
    BY <1>1, <2>2, <2>3, <2>5 DEF LogOK
  <2> QED BY <1>1, <2>2, <2>4, <2>6
<1>3. CASE NotifyAfterJob \/ Forget
  <2>1. /\ unsent > 0 /\ unsent' = unsent - 1 /\ missed' \in BOOLEAN
        /\ durable' = durable /\ docs' = docs /\ log' = log
    BY <1>3 DEF NotifyAfterJob, Forget
  <2>2. unsent' \in 0..MaxCommits /\ unsent' < Len(log')
    BY <1>1, <2>1
  <2>3. FeedTypeOK'
    BY <1>1, <2>1, <2>2 DEF FeedTypeOK
  <2>4. LogOK'
    BY <1>1, <2>1, <2>2 DEF LogOK
  <2> QED BY <1>1, <2>1, <2>3, <2>4
<1> QED BY <1>2, <1>3 DEF Store

\* The task has the target that it emits.
LEMMA EmitFacts ==
  ASSUME TypeOK, TodoOK, emit_target
  PROVE  LET id == Head(todo)
             cur == Matching(id, docs)
             tail == IF initial THEN <<Response("current", id, None, 0)>> ELSE <<>>
             m == Told(Removals(id, cur), "delete", id, cur) \o Told(Changes(id, cur), "change", id, cur)
                  \o tail
         IN /\ id \in TargetIds /\ targets[id] # None /\ cur \in Snapshot
            /\ IsNews(m, Messages, Names, id, targets[id], cur)
            /\ \A k \in 1..Len(m) : m[k].kind # "no_change"
            /\ sending' = m \o <<Response("no_change", None, None, 0)>>
            /\ targets' = [targets EXCEPT ![id] = cur]
<1> DEFINE id == Head(todo)
           cur == Matching(id, docs)
           tail == IF initial THEN <<Response("current", id, None, 0)>> ELSE <<>>
           d == Told(Removals(id, cur), "delete", id, cur)
           c == Told(Changes(id, cur), "change", id, cur)
<1>1. todo \in Seq(TargetIds) /\ todo # <<>> /\ docs \in Snapshot
  BY DEF emit_target, TypeOK, FeedTypeOK
<1>2. id \in TargetIds /\ id = todo[1] /\ 1 \in 1..Len(todo)
  BY <1>1
<1>3. targets[id] # None
  BY <1>2 DEF TodoOK
<1>4. cur \in Snapshot
  BY <1>1, <1>2, MatchingType
<1>5. tail = <<>> \/ tail = <<Response("current", id, None, 0)>>
  OBVIOUS
<1> HIDE DEF id
<1>6. c = LET s == SetToSeq(Changes(id, cur)) IN [i \in DOMAIN s |-> Response("change", id, s[i], cur[s[i]])]
  BY DEF Told
<1>7. d = LET s == SetToSeq(Removals(id, cur)) IN [i \in DOMAIN s |-> Response("delete", id, s[i], 0)]
  <2> DEFINE S == Removals(id, cur)
             s == SetToSeq(S)
  <2>1. S \in SUBSET Names /\ \A n \in S : cur[n] = 0
    BY DEF Removals
  <2>2. IsFiniteSet(S)
    BY <2>1, NoneFacts, FS_Subset
  <2> HIDE DEF S
  <2>3. s \in [1..Cardinality(S) -> S]
    BY <2>2, SetToSeqFacts
  <2> HIDE DEF s
  <2>4. \A i \in DOMAIN s : cur[s[i]] = 0
    BY <2>1, <2>3
  <2> HIDE DEF cur
  <2>5. [i \in DOMAIN s |-> Response("delete", id, s[i], cur[s[i]])]
        = [i \in DOMAIN s |-> Response("delete", id, s[i], 0)]
    BY <2>4
  <2> QED BY <2>5 DEF Told, S, s
<1> HIDE DEF c, d, tail, cur
<1>8. /\ IsNews(d \o c \o tail, Messages, Names, id, targets[id], cur)
      /\ \A k \in 1..Len(d \o c \o tail) : (d \o c \o tail)[k].kind # "no_change"
  BY <1>2, <1>3, <1>4, <1>5, NewsFacts DEF c, d
<1>9. /\ sending' = d \o c \o tail \o <<Response("no_change", None, None, 0)>>
      /\ targets' = [targets EXCEPT ![id] = cur]
  BY <1>6, <1>7 DEF emit_target, id, cur, tail
<1> QED BY <1>2, <1>3, <1>4, <1>8, <1>9 DEF id, cur, tail, c, d

\* The responses have their type.
LEMMA ResponseType ==
  /\ \A id \in TargetIds, kind \in {"add", "remove", "current"} :
       /\ Response(kind, id, None, 0) \in Messages /\ Response(kind, id, None, 0).kind = kind
       /\ Response(kind, id, None, 0).id = id
  /\ Response("no_change", None, None, 0) \in Messages
  /\ Response("no_change", None, None, 0).kind = "no_change"
  BY NoneFacts DEF Response, Messages

\* The requests that the task has not read.
LEMMA AskedFacts ==
  ASSUME TypeOK, asked # <<>>
  PROVE  LET R == [add : BOOLEAN, id : TargetIds] IN
         /\ Head(asked) = asked[1] /\ asked[1].id \in TargetIds /\ asked[1].add \in BOOLEAN
         /\ Len(asked) \in Nat /\ Len(asked) >= 1 /\ Tail(asked) \in Seq(R)
         /\ Len(Tail(asked)) = Len(asked) - 1
         /\ \A i \in 1..Len(Tail(asked)) : Tail(asked)[i] = asked[i + 1] /\ i + 1 \in 1..Len(asked)
         /\ \A i \in 1..Len(asked) : asked[i].id \in TargetIds
<1> DEFINE R == [add : BOOLEAN, id : TargetIds]
<1>1. asked \in Seq(R)
  BY DEF TypeOK
<1>2. \A r \in R : r.id \in TargetIds /\ r.add \in BOOLEAN
  OBVIOUS
<1> HIDE DEF R
<1>3. /\ Len(asked) \in Nat /\ Len(asked) >= 1 /\ Head(asked) = asked[1]
      /\ Tail(asked) \in Seq(R) /\ Len(Tail(asked)) = Len(asked) - 1
      /\ \A i \in 1..Len(Tail(asked)) : Tail(asked)[i] = asked[i + 1]
  BY <1>1, HeadTailProperties
<1>4. \A i \in 1..Len(asked) : asked[i] \in R
  BY <1>1
<1>5. \A i \in 1..Len(Tail(asked)) : i + 1 \in 1..Len(asked)
  BY <1>3
<1> QED BY <1>2, <1>3, <1>4, <1>5 DEF R

\* A step that is not the store's leaves it alone.
LEMMA QuietStore ==
  ASSUME TypeOK, UNCHANGED feedVars
  PROVE  FeedTypeOK'
  BY DEF TypeOK, FeedTypeOK, feedVars

\* Every variable keeps its type.
LEMMA TypeStep ==
  ASSUME TypeOK, LogOK, TodoOK, Next
  PROVE  TypeOK'
<1>a. /\ FeedTypeOK
      /\ open \in BOOLEAN /\ lagged \in BOOLEAN /\ initial \in BOOLEAN /\ marked \in BOOLEAN
      /\ pending \in 0..Capacity /\ Capacity \in Nat /\ OutLimit \in Nat
      /\ targets \in Views /\ view \in Views
      /\ todo \in Seq(TargetIds) /\ asked \in Seq([add : BOOLEAN, id : TargetIds])
      /\ sending \in Seq(Messages) /\ out \in Seq(Messages) /\ Len(out) <= OutLimit
      /\ requests \in 0..MaxRequests /\ since \in [TargetIds -> Nat \ {0}]
  BY ListenersAssumption DEF TypeOK, Views
<1>b. \/ ~(FeedTypeOK')
      \/ ~(open' \in BOOLEAN /\ lagged' \in BOOLEAN /\ initial' \in BOOLEAN /\ marked' \in BOOLEAN)
      \/ ~(pending' \in 0..Capacity /\ requests' \in 0..MaxRequests /\ since' \in [TargetIds -> Nat \ {0}])
      \/ ~(targets' \in Views /\ view' \in Views)
      \/ ~(todo' \in Seq(TargetIds) /\ asked' \in Seq([add : BOOLEAN, id : TargetIds]))
      \/ ~(sending' \in Seq(Messages) /\ out' \in Seq(Messages) /\ Len(out') <= OutLimit)
      \/ TypeOK'
  BY DEF TypeOK, Views
<1>1. CASE Store
  <2>1. FeedTypeOK'
    BY <1>1, StoreFacts
  <2>2. /\ open' = open /\ targets' = targets /\ todo' = todo /\ initial' = initial
        /\ sending' = sending /\ out' = out /\ asked' = asked /\ view' = view
        /\ requests' = requests /\ since' = since /\ marked' = marked
    BY <1>1 DEF Store
  <2>3. lagged' \in BOOLEAN
    BY <1>a, <1>1 DEF Store, Notified
  <2>4. pending' \in 0..Capacity
    BY <1>a, <1>1 DEF Store, Notified
  <2> QED BY <1>a, <1>b, <2>1, <2>2, <2>3, <2>4
<1>2. CASE AddTarget
  <2> DEFINE m == Response("add", Head(asked).id, None, 0)
  <2>1. /\ asked # <<>> /\ Head(asked).id \in TargetIds /\ Tail(asked) \in Seq([add : BOOLEAN, id : TargetIds])
    BY <1>2, AskedFacts DEF AddTarget
  <2>2. /\ targets' = [targets EXCEPT ![Head(asked).id] = Nothing]
        /\ todo' = <<Head(asked).id>> /\ initial' = TRUE /\ sending' = <<m>> /\ asked' = Tail(asked)
        /\ UNCHANGED <<feedVars, open, pending, lagged, out, view, requests, since, marked>>
    BY <1>2 DEF AddTarget, Known
  <2>3. m \in Messages
    BY <2>1, ResponseType
  <2> HIDE DEF m
  <2>4. targets' \in Views
    BY <1>a, <2>1, <2>2, NoneFacts DEF Views
  <2>5. todo' \in Seq(TargetIds) /\ sending' \in Seq(Messages)
    BY <2>1, <2>2, <2>3
  <2>6. FeedTypeOK'
    BY <2>2, QuietStore
  <2> QED BY <1>a, <1>b, <2>1, <2>2, <2>4, <2>5, <2>6
<1>3. CASE RemoveTarget
  <2> DEFINE m == Response("remove", Head(asked).id, None, 0)
  <2>1. /\ asked # <<>> /\ Head(asked).id \in TargetIds /\ Tail(asked) \in Seq([add : BOOLEAN, id : TargetIds])
    BY <1>3, AskedFacts DEF RemoveTarget
  <2>2. /\ targets' = [targets EXCEPT ![Head(asked).id] = None]
        /\ sending' = <<m>> /\ asked' = Tail(asked)
        /\ UNCHANGED <<feedVars, open, pending, lagged, todo, initial, out, view, requests, since, marked>>
    BY <1>3 DEF RemoveTarget
  <2>3. m \in Messages
    BY <2>1, ResponseType
  <2> HIDE DEF m
  <2>4. targets' \in Views
    BY <1>a, <2>1, <2>2 DEF Views
  <2>5. sending' \in Seq(Messages)
    BY <2>2, <2>3
  <2>6. FeedTypeOK'
    BY <2>2, QuietStore
  <2> QED BY <1>a, <1>b, <2>1, <2>2, <2>4, <2>5, <2>6
<1>4. CASE Event
  <2> DEFINE S == {id \in TargetIds : targets[id] # None}
  <2>1. /\ todo' = InOrder(S) /\ initial' = FALSE /\ Taken /\ (lagged \/ pending > 0)
        /\ UNCHANGED <<feedVars, open, targets, sending, out, asked, view, requests, since, marked>>
    BY <1>4 DEF Event
  <2>2. S \subseteq Nat /\ IsFiniteSet(S) /\ S \subseteq TargetIds
    BY NoneFacts, FeedAssumption, FS_Subset
  <2> HIDE DEF S
  <2>3. InOrder(S) \in Seq(TargetIds)
    BY <2>2, InOrderFacts, SeqMonotonic
  <2>4. lagged' \in BOOLEAN
    BY <1>a, <2>1 DEF Taken
  <2>5. pending' \in 0..Capacity
    BY <1>a, <2>1 DEF Taken
  <2>6. FeedTypeOK'
    BY <2>1, QuietStore
  <2> QED BY <1>a, <1>b, <2>1, <2>3, <2>4, <2>5, <2>6
<1>5. CASE emit_target
  <2>1. PICK id, cur, m : /\ id \in TargetIds /\ cur \in Snapshot /\ m \in Seq(Messages)
                          /\ sending' = m \o <<Response("no_change", None, None, 0)>>
                          /\ targets' = [targets EXCEPT ![id] = cur]
    BY <1>5, EmitFacts DEF IsNews
  <2>2. /\ todo # <<>> /\ todo' = Tail(todo)
        /\ UNCHANGED <<feedVars, open, pending, lagged, initial, out, asked, view, requests, since, marked>>
    BY <1>5 DEF emit_target
  <2>3. sending' \in Seq(Messages)
    <3>1. <<Response("no_change", None, None, 0)>> \in Seq(Messages)
      BY ResponseType
    <3> QED BY <2>1, <3>1, ConcatProperties
  <2>4. targets' \in Views
    BY <1>a, <2>1 DEF Views
  <2>5. todo' \in Seq(TargetIds)
    BY <1>a, <2>2
  <2>6. FeedTypeOK'
    BY <2>2, QuietStore
  <2> QED BY <1>a, <1>b, <2>2, <2>3, <2>4, <2>5, <2>6
<1>6. CASE Send
  <2>1. /\ sending # <<>> /\ Len(out) < OutLimit /\ out' = Append(out, Head(sending)) /\ sending' = Tail(sending)
        /\ UNCHANGED <<feedVars, open, pending, lagged, targets, todo, initial, asked, view, requests, since, marked>>
    BY <1>6 DEF Send
  <2>2. Head(sending) \in Messages /\ Tail(sending) \in Seq(Messages)
    BY <1>a, <2>1, HeadTailProperties
  <2>3. out' \in Seq(Messages) /\ Len(out') = Len(out) + 1 /\ Len(out) \in Nat
    BY <1>a, <2>1, <2>2, AppendProperties
  <2>4. FeedTypeOK'
    BY <2>1, QuietStore
  <2> QED BY <1>a, <1>b, <2>1, <2>2, <2>3, <2>4
<1>7. CASE Receive
  <2>1. /\ out # <<>> /\ out' = Tail(out) /\ view' = Shown(view, Head(out))
        /\ marked' = (Head(out).kind = "no_change")
        /\ UNCHANGED <<feedVars, open, pending, lagged, targets, todo, initial, sending, asked, requests, since>>
    BY <1>7 DEF Receive
  <2>2. /\ Head(out) \in Messages /\ out' \in Seq(Messages) /\ Len(out') = Len(out) - 1
        /\ Len(out) \in Nat
    BY <1>a, <2>1, HeadTailProperties
  <2>3. view' \in Views
    BY <1>a, <2>1, <2>2, ShownFacts
  <2>4. marked' \in BOOLEAN
    BY <2>1
  <2>5. FeedTypeOK'
    BY <2>1, QuietStore
  <2>6. Len(out') <= OutLimit
    BY <1>a, <2>2
  <2> QED BY <1>a, <1>b, <2>1, <2>2, <2>3, <2>4, <2>5, <2>6
<1>8. CASE Close
  <2>1. /\ open' = FALSE /\ pending' = 0 /\ lagged' = FALSE /\ targets' = [id \in TargetIds |-> None]
        /\ todo' = <<>> /\ initial' = FALSE /\ sending' = <<>> /\ asked' = <<>>
        /\ UNCHANGED <<feedVars, out, view, requests, since, marked>>
    BY <1>8 DEF Close
  <2>2. targets' \in Views
    BY <2>1 DEF Views
  <2>3. /\ todo' \in Seq(TargetIds) /\ asked' \in Seq([add : BOOLEAN, id : TargetIds])
        /\ sending' \in Seq(Messages)
    BY <2>1
  <2>4. FeedTypeOK'
    BY <2>1, QuietStore
  <2>5. /\ open' \in BOOLEAN /\ lagged' \in BOOLEAN /\ initial' \in BOOLEAN /\ marked' \in BOOLEAN
    BY <1>a, <2>1
  <2>6. pending' \in 0..Capacity
    BY <1>a, <2>1
  <2> QED BY <1>a, <1>b, <2>1, <2>2, <2>3, <2>4, <2>5, <2>6
<1>9. ASSUME NEW id \in TargetIds, Ask(id) PROVE TypeOK'
  <2>1. /\ requests < MaxRequests /\ requests' = requests + 1
        /\ \E add \in BOOLEAN : asked' = Append(asked, [add |-> add, id |-> id])
        /\ since' = since \/ since' = [since EXCEPT ![id] = Len(log)]
        /\ UNCHANGED <<feedVars, open, pending, lagged, targets, todo, initial, sending, out, view, marked>>
    BY <1>9 DEF Ask
  <2>2. asked' \in Seq([add : BOOLEAN, id : TargetIds])
    BY <1>a, <2>1
  <2>3. since' \in [TargetIds -> Nat \ {0}]
    <3>1. Len(log) \in Nat \ {0}
      BY DEF TypeOK, FeedTypeOK, LogOK
    <3> QED BY <1>a, <2>1, <3>1
  <2>4. requests' \in 0..MaxRequests
    BY <1>a, <2>1, ListenersAssumption
  <2>5. FeedTypeOK'
    BY <2>1, QuietStore
  <2> QED BY <1>a, <1>b, <2>1, <2>2, <2>3, <2>4, <2>5
<1> QED BY <1>1, <1>2, <1>3, <1>4, <1>5, <1>6, <1>7, <1>8, <1>9 DEF Next, Task, Client

\* No step but the store's changes the log, and only a request for a target that
\* is not shown says how old it was.
LEMMA QuietLog ==
  ASSUME Next
  PROVE  \/ Store
         \/ /\ UNCHANGED feedVars
            /\ \/ since' = since
               \/ \E id \in TargetIds : /\ since' = [since EXCEPT ![id] = Len(log)]
                                        /\ targets[id] = None /\ view[id] = None
                                        /\ Ask(id)
<1>1. ASSUME AddTarget \/ RemoveTarget \/ Event \/ emit_target \/ Send \/ Receive \/ Close
      PROVE  UNCHANGED feedVars /\ since' = since
  BY <1>1 DEF AddTarget, RemoveTarget, Event, emit_target, Send, Receive, Close
<1>2. ASSUME NEW id \in TargetIds, Ask(id)
      PROVE  /\ UNCHANGED feedVars
             /\ \/ since' = since
                \/ since' = [since EXCEPT ![id] = Len(log)] /\ targets[id] = None /\ view[id] = None
  BY <1>2 DEF Ask
<1> QED BY <1>1, <1>2 DEF Next, Task, Client

\* The log and the ages of the targets.
LEMMA LogStep ==
  ASSUME TypeOK, LogOK, Next
  PROVE  LogOK'
<1>1. /\ Len(log) \in Nat /\ Len(log) >= 1 /\ since \in [TargetIds -> Nat \ {0}]
      /\ \A id \in TargetIds : since[id] <= Len(log)
  BY DEF TypeOK, FeedTypeOK, LogOK
<1>2. CASE Store
  BY <1>2, StoreFacts
<1>3. CASE UNCHANGED feedVars
  <2>1. \A id \in TargetIds : since'[id] <= Len(log)
    BY <1>1, <1>3, QuietLog DEF Store, feedVars
  <2> QED BY <1>3, <2>1 DEF LogOK, feedVars
<1> QED BY <1>2, <1>3, QuietLog

\* The targets that are still to emit.
LEMMA TodoStep ==
  ASSUME TypeOK, TodoOK, Next
  PROVE  TodoOK'
<1>a. /\ todo \in Seq(TargetIds) /\ targets \in Views
      /\ \A i \in 1..Len(todo) : todo[i] \in TargetIds
  BY DEF TypeOK, Views
<1>1. CASE AddTarget
  <2>1. /\ Head(asked).id \in TargetIds /\ targets' = [targets EXCEPT ![Head(asked).id] = Nothing]
        /\ todo' = <<Head(asked).id>> /\ open'
    BY <1>1, AskedFacts DEF AddTarget, Known, Selecting
  <2>2. targets'[Head(asked).id] # None
    BY <1>a, <2>1, NoneFacts DEF Views
  <2> QED BY <2>1, <2>2 DEF TodoOK
<1>2. CASE RemoveTarget
  <2>1. todo' = <<>> /\ open'
    BY <1>2 DEF RemoveTarget, Selecting
  <2> QED BY <2>1 DEF TodoOK
<1>3. CASE Event
  <2> DEFINE S == {id \in TargetIds : targets[id] # None}
  <2>1. todo' = InOrder(S) /\ initial' = FALSE /\ targets' = targets /\ open'
    BY <1>3 DEF Event, Selecting
  <2>2. S \subseteq Nat /\ IsFiniteSet(S)
    BY NoneFacts, FeedAssumption, FS_Subset
  <2>3. \A id \in S : targets'[id] # None
    BY <2>1
  <2> HIDE DEF S
  <2>4. todo' \in Seq(S)
    BY <2>1, <2>2, InOrderFacts
  <2>5. \A i \in 1..Len(todo') : targets'[todo'[i]] # None
    BY <2>3, <2>4
  <2> QED BY <2>1, <2>5 DEF TodoOK
<1>4. CASE emit_target
  <2>1. PICK id, cur : /\ id \in TargetIds /\ cur \in Snapshot
                       /\ targets' = [targets EXCEPT ![id] = cur]
    BY <1>4, EmitFacts
  <2>2. todo # <<>> /\ todo' = Tail(todo) /\ initial' = initial /\ open'
    BY <1>4 DEF emit_target
  <2>3. /\ Len(todo) \in Nat /\ Len(todo') = Len(todo) - 1
        /\ \A i \in 1..Len(todo') : todo'[i] = todo[i + 1]
    BY <1>a, <2>2, HeadTailProperties
  <2>4. \A i \in 1..Len(todo') : i + 1 \in 1..Len(todo)
    BY <2>3
  <2>5. \A j \in TargetIds : targets[j] # None => targets'[j] # None
    BY <1>a, <2>1, ViewExcept
  <2>6. \A i \in 1..Len(todo') : targets'[todo'[i]] # None
    BY <1>a, <2>3, <2>4, <2>5 DEF TodoOK
  <2>7. ~(initial' /\ todo' # <<>>)
    <3>1. initial => Len(todo') = 0
      BY <2>2, <2>3 DEF TodoOK
    <3>2. todo' \in Seq(TargetIds)
      BY <1>a, <2>2
    <3> QED BY <2>2, <3>1, <3>2, EmptySeq
  <2> QED BY <2>2, <2>6, <2>7 DEF TodoOK
<1>5. CASE Send
  <2>1. open' /\ UNCHANGED <<targets, todo, initial>>
    BY <1>5 DEF Send
  <2> QED BY <2>1 DEF TodoOK
<1>6. CASE Close
  <2>1. todo' = <<>> /\ initial' = FALSE /\ sending' = <<>> /\ asked' = <<>>
    BY <1>6 DEF Close
  <2> QED BY <2>1 DEF TodoOK
<1>7. CASE Store \/ Receive
  BY <1>7 DEF Store, Receive, TodoOK
<1>8. ASSUME NEW id \in TargetIds, Ask(id) PROVE TodoOK'
  <2>1. open' /\ UNCHANGED <<targets, todo, initial>>
    BY <1>8 DEF Ask
  <2> QED BY <2>1 DEF TodoOK
<1> QED BY <1>1, <1>2, <1>3, <1>4, <1>5, <1>6, <1>7, <1>8 DEF Next, Task, Client

\* A snapshot of the log stays one when the log grows.
LEMMA SnapshotGrows ==
  ASSUME NEW id \in TargetIds, NEW s, NEW l, NEW k, Len(l) \in Nat, Len(k) \in Nat, Len(l) <= Len(k),
         \A i \in 1..Len(l) : k[i] = l[i], NEW a \in Nat \ {0},
         \E j \in a..Len(l) : s = Matching(id, l[j])
  PROVE  \E j \in a..Len(k) : s = Matching(id, k[j])
<1>1. PICK j \in a..Len(l) : s = Matching(id, l[j])
  OBVIOUS
<1>2. j \in 1..Len(l) /\ j \in a..Len(k)
  OBVIOUS
<1> QED BY <1>1, <1>2

\* So views that are up to date stay so, also when a target that is not among
\* them is asked for.
LEMMA UpToDateStays ==
  ASSUME TypeOK, LogOK, Next, NEW v, UpToDate(v, since, log),
         \A id \in TargetIds : Ask(id) /\ view[id] = None /\ targets[id] = None => v[id] = None
  PROVE  UpToDate(v, since', log')
<1>1. since \in [TargetIds -> Nat \ {0}]
  BY DEF TypeOK
<1>2. CASE Store
  <2>1. /\ Len(log) \in Nat /\ Len(log') \in Nat /\ Len(log) <= Len(log')
        /\ \A i \in 1..Len(log) : log'[i] = log[i]
    BY <1>2, StoreFacts
  <2>2. since' = since
    BY <1>2 DEF Store
  <2>3. ASSUME NEW id \in TargetIds, v[id] # None
        PROVE  \E j \in since[id]..Len(log') : v[id] = Matching(id, log'[j])
    <3>1. \E j \in since[id]..Len(log) : v[id] = Matching(id, log[j])
      BY <2>3 DEF UpToDate
    <3>2. since[id] \in Nat \ {0}
      BY <1>1
    <3> QED BY <2>1, <3>1, <3>2, SnapshotGrows
  <2> QED BY <2>2, <2>3 DEF UpToDate
<1>3. CASE UNCHANGED feedVars
  <2>1. log' = log
    BY <1>3 DEF feedVars
  <2>2. \A id \in TargetIds : v[id] # None => since'[id] = since[id]
    BY <1>1, <1>3, QuietLog DEF Store
  <2> QED BY <2>1, <2>2 DEF UpToDate
<1> QED BY <1>2, <1>3, QuietLog

\* What the task takes its client to know.
LEMMA TargetsStep ==
  ASSUME TypeOK, LogOK, TodoOK, TargetsOK, Next
  PROVE  TargetsOK'
<1>a. /\ todo \in Seq(TargetIds) /\ targets \in Views /\ since \in [TargetIds -> Nat \ {0}]
      /\ Len(log) \in Nat /\ log[Len(log)] = docs /\ \A id \in TargetIds : since[id] <= Len(log)
  BY DEF TypeOK, FeedTypeOK, Views, LogOK
<1>1. CASE Store
  <2>1. /\ Len(log) \in Nat /\ Len(log') \in Nat /\ Len(log) <= Len(log')
        /\ \A i \in 1..Len(log) : log'[i] = log[i]
    BY <1>1, StoreFacts
  <2>2. UNCHANGED <<since, targets, initial, todo>>
    BY <1>1 DEF Store
  <2>3. \A id \in TargetIds :
          (\E j \in since[id]..Len(log) : targets[id] = Matching(id, log[j]))
            => \E j \in since[id]..Len(log') : targets[id] = Matching(id, log'[j])
    BY <1>a, <2>1, SnapshotGrows
  <2> QED BY <2>2, <2>3 DEF TargetsOK
<1>2. CASE AddTarget
  <2>1. /\ Head(asked).id \in TargetIds /\ targets' = [targets EXCEPT ![Head(asked).id] = Nothing]
        /\ todo' = <<Head(asked).id>> /\ initial' /\ todo = <<>> /\ UNCHANGED <<since, log>>
    BY <1>2, AskedFacts DEF AddTarget, Known, Selecting, feedVars
  <2> DEFINE a == Head(asked).id
  <2>2. todo' # <<>> /\ Head(todo') = a
    BY <2>1
  <2> HIDE DEF a
  <2>3. \A id \in TargetIds : id # a => targets'[id] = targets[id]
    BY <1>a, <2>1 DEF a, Views
  <2> QED BY <2>1, <2>2, <2>3 DEF TargetsOK
<1>3. CASE RemoveTarget
  <2>1. /\ Head(asked).id \in TargetIds /\ targets' = [targets EXCEPT ![Head(asked).id] = None]
        /\ todo = <<>> /\ UNCHANGED <<since, log, todo>>
    BY <1>3, AskedFacts DEF RemoveTarget, Selecting, feedVars
  <2>2. \A id \in TargetIds : targets'[id] = None \/ targets'[id] = targets[id]
    BY <1>a, <2>1 DEF Views
  <2> QED BY <2>1, <2>2 DEF TargetsOK
<1>4. CASE Event
  <2>1. todo = <<>> /\ UNCHANGED <<targets, since, log>>
    BY <1>4 DEF Event, Selecting, feedVars
  <2> QED BY <2>1 DEF TargetsOK
<1>5. CASE emit_target
  <2> DEFINE a == Head(todo)
  <2>1. /\ a \in TargetIds /\ targets' = [targets EXCEPT ![a] = Matching(a, docs)]
    BY <1>5, EmitFacts
  <2>2. UNCHANGED <<since, log>>
    BY <1>5 DEF emit_target, feedVars
  <2> HIDE DEF a
  <2>3. targets'[a] = Matching(a, log[Len(log)]) /\ Len(log) \in since[a]..Len(log)
    BY <1>a, <2>1 DEF Views
  <2>4. \A id \in TargetIds : id # a => targets'[id] = targets[id]
    BY <1>a, <2>1 DEF Views
  <2>5. \A id \in TargetIds : id # a =>
          \/ targets[id] = None
          \/ \E j \in since[id]..Len(log) : targets[id] = Matching(id, log[j])
    BY DEF TargetsOK, a
  <2> QED BY <2>2, <2>3, <2>4, <2>5 DEF TargetsOK
<1>6. CASE Close
  <2>1. \A id \in TargetIds : targets'[id] = None
    BY <1>6 DEF Close
  <2> QED BY <2>1 DEF TargetsOK
<1>7. CASE Send \/ Receive
  BY <1>7 DEF Send, Receive, feedVars, TargetsOK
<1>8. ASSUME NEW a \in TargetIds, Ask(a) PROVE TargetsOK'
  <2>1. UNCHANGED <<targets, todo, initial, log>>
    BY <1>8 DEF Ask, feedVars
  <2>2. \A id \in TargetIds : targets[id] = None \/ since'[id] = since[id]
    BY <1>a, <1>8 DEF Ask
  <2> QED BY <2>1, <2>2 DEF TargetsOK
<1> QED BY <1>1, <1>2, <1>3, <1>4, <1>5, <1>6, <1>7, <1>8 DEF Next, Task, Client

-----------------------------------------------------------------------------
(* The responses on their way.                                             *)

\* They are a sequence; the first k of them are the ones in the channel.
LEMMA WayType ==
  ASSUME TypeOK
  PROVE  /\ out \in Seq(Messages) /\ sending \in Seq(Messages) /\ out \o sending \in Seq(Messages)
         /\ Len(out) \in Nat /\ Len(sending) \in Nat
         /\ Len(out \o sending) = Len(out) + Len(sending)
         /\ view \in Views /\ targets \in Views
  BY ConcatProperties DEF TypeOK, Views

\* Z is the way V, where a target is added or removed at most once, and then the
\* way U, which adds or removes only targets that V does not.
OnceMore(Z, V, n, U, k) ==
  /\ n \in Nat /\ k \in Nat \ {0} /\ Once(V, n)
  /\ \A i \in 0..n : Z[i] = V[i]
  /\ \A i \in 0..k : Z[n + i] = U[i]
  /\ \A id \in TargetIds :
       \/ \A i \in 0..k : U[i][id] = None <=> V[n][id] = None
       \/ /\ V[0][id] = None <=> V[n][id] = None
          /\ \A i \in 1..k : U[i][id] = None <=> V[n][id] # None

\* So it is once on both.
LEMMA OnceConcat ==
  ASSUME NEW n, NEW k, NEW V, NEW U, NEW Z, OnceMore(Z, V, n, U, k)
  PROVE  Once(Z, n + k)
<1>0. /\ n \in Nat /\ k \in Nat \ {0} /\ Once(V, n)
      /\ \A i \in 0..n : Z[i] = V[i]
      /\ \A i \in 0..k : Z[n + i] = U[i]
      /\ \A id \in TargetIds :
           \/ \A i \in 0..k : U[i][id] = None <=> V[n][id] = None
           \/ /\ V[0][id] = None <=> V[n][id] = None
              /\ \A i \in 1..k : U[i][id] = None <=> V[n][id] # None
  BY DEF OnceMore
<1> SUFFICES ASSUME NEW id \in TargetIds, NEW i \in 0..(n + k), NEW j \in 0..(n + k), i <= j,
                    Z[i][id] = None <=> Z[n + k][id] = None
             PROVE  Z[j][id] = None <=> Z[n + k][id] = None
  BY DEF Once
<1> DEFINE last == V[n][id] = None
<1>1. /\ \A x \in 0..(n + k) : x \in 0..n \/ (x - n \in 1..k /\ x - n \in 0..k /\ n + (x - n) = x)
      /\ 0 \in 0..n /\ n \in 0..n /\ k \in 0..k /\ k \in 1..k
      /\ \A x \in 0..n : 0 <= x
  BY <1>0
<1>2. \A x, y \in 0..n : x <= y /\ (V[x][id] = None <=> last) => (V[y][id] = None <=> last)
  BY <1>0 DEF Once
<1>3. CASE \A x \in 0..k : U[x][id] = None <=> last
  <2>1. Z[n + k][id] = None <=> last
    BY <1>0, <1>1, <1>3
  <2>2. CASE j \in 0..n
    <3>1. i \in 0..n
      BY <1>0, <2>2
    <3> QED BY <1>0, <1>2, <2>1, <2>2, <3>1
  <2>3. CASE j - n \in 1..k /\ j - n \in 0..k /\ n + (j - n) = j
    <3> DEFINE x == j - n
    <3>1. x \in 0..k /\ n + x = j
      BY <2>3
    <3> HIDE DEF x
    <3>2. Z[j] = U[x]
      BY <1>0, <3>1
    <3> QED BY <1>3, <2>1, <3>1, <3>2
  <2> QED BY <1>1, <2>2, <2>3
<1>4. CASE /\ V[0][id] = None <=> last
           /\ \A x \in 1..k : U[x][id] = None <=> ~last
  <2>1. \A x \in 0..n : V[x][id] = None <=> last
    BY <1>1, <1>2, <1>4
  <2>2. Z[n + k][id] = None <=> ~last
    BY <1>0, <1>1, <1>4
  <2>3. i \notin 0..n
    BY <1>0, <2>1, <2>2
  <2>4. j \notin 0..n
    BY <1>0, <2>3
  <2> DEFINE x == j - n
  <2>5. x \in 1..k /\ x \in 0..k /\ n + x = j
    BY <1>1, <2>4
  <2> HIDE DEF x
  <2>6. Z[j] = U[x]
    BY <1>0, <2>5
  <2> QED BY <1>4, <2>2, <2>5, <2>6
<1> QED BY <1>0, <1>3, <1>4

\* A step that neither sends nor shows anything leaves the way as it is.
LEMMA WaySame ==
  ASSUME TypeOK, LogOK, WayOK, Next, out' \o sending' = out \o sending,
         view' = view, open' => open, open' => targets' = targets
  PROVE  WayOK'
<1> DEFINE Q == out \o sending
           n == Len(Q)
<1>1. PICK V : Marks(V, view, Q, since, log) /\ (open => V[n] = targets /\ Once(V, n))
  BY DEF WayOK
<1>2. Walk(V, Views, Messages, Showing, view, Q)
  BY <1>1 DEF Marks
<1>3. n \in Nat /\ V[0] = view
  BY <1>2 DEF Walk
<1>4. \A i \in 1..n : Q[i].kind = "no_change" => UpToDate(V[i], since, log)
  BY <1>1 DEF Marks
<1> HIDE DEF n
<1>5. ASSUME NEW i \in 1..n, Q[i].kind = "no_change" PROVE UpToDate(V[i], since', log')
  <2>1. UpToDate(V[i], since, log)
    BY <1>4, <1>5
  <2>2. ASSUME NEW id \in TargetIds, Ask(id), view[id] = None, targets[id] = None
        PROVE  V[i][id] = None
    <3>1. V[n] = targets /\ Once(V, n)
      BY <1>1, <2>2 DEF Ask
    <3>2. 0 \in 0..n /\ i \in 0..n /\ 0 <= i
      BY <1>3
    <3> QED BY <1>3, <2>2, <3>1, <3>2 DEF Once
  <2> QED BY <2>1, <2>2, UpToDateStays
<1> HIDE DEF Q
<1>6. Marks(V, view', Q, since', log')
  BY <1>2, <1>5 DEF Marks, n
<1>7. open' => V[n] = targets' /\ Once(V, n)
  BY <1>1
<1>8. out' \o sending' = Q
  BY DEF Q
<1> QED BY <1>6, <1>7, <1>8 DEF WayOK, n

\* U goes from what the task takes the client to know, T, along the responses m;
\* they add or remove a target only when the client's view v agrees about it.
GoesOn(U, v, T, m, from, l) ==
  /\ Marks(U, T, m, from, l) /\ Len(m) # 0
  /\ \A id \in TargetIds :
       \/ \A i \in 0..Len(m) : U[i][id] = None <=> T[id] = None
       \/ /\ v[id] = None <=> T[id] = None
          /\ \A i \in 1..Len(m) : U[i][id] = None <=> T[id] # None

\* So does the way that ends at T.
LEMMA MarksConcat ==
  ASSUME NEW V, NEW v, NEW Q, NEW from, NEW l, Marks(V, v, Q, from, l), Once(V, Len(Q)),
         NEW U, NEW m, GoesOn(U, v, V[Len(Q)], m, from, l)
  PROVE  \E Z : /\ Marks(Z, v, Q \o m, from, l) /\ Once(Z, Len(Q \o m))
                /\ Z[Len(Q \o m)] = U[Len(m)]
<1> DEFINE n == Len(Q)
           k == Len(m)
           P == Q \o m
<1>g. /\ Marks(U, V[n], m, from, l) /\ k # 0
      /\ \A id \in TargetIds :
           \/ \A i \in 0..k : U[i][id] = None <=> V[n][id] = None
           \/ /\ v[id] = None <=> V[n][id] = None
              /\ \A i \in 1..k : U[i][id] = None <=> V[n][id] # None
  BY DEF GoesOn
<1>1. Walk(V, Views, Messages, Showing, v, Q) /\ Walk(U, Views, Messages, Showing, V[n], m)
  BY <1>g DEF Marks
<1>2. /\ Q \in Seq(Messages) /\ n \in Nat /\ V[0] = v
      /\ m \in Seq(Messages) /\ k \in Nat \ {0} /\ U[0] = V[n]
  BY <1>1, <1>g DEF Walk
<1>3. /\ \A i \in 1..n : Q[i].kind = "no_change" => UpToDate(V[i], from, l)
      /\ \A i \in 1..k : m[i].kind = "no_change" => UpToDate(U[i], from, l)
  BY <1>g DEF Marks
<1>4. P \in Seq(Messages) /\ \A i \in 1..(n + k) : P[i] = IF i <= n THEN Q[i] ELSE m[i - n]
  BY <1>2, ConcatProperties
<1>5. PICK Z : /\ Walk(Z, Views, Messages, Showing, v, P)
               /\ Len(P) = n + k
               /\ \A i \in 0..n : Z[i] = V[i]
               /\ \A i \in 0..k : Z[n + i] = U[i]
  <2>1. Walk(U, Views, Messages, Showing, V[Len(Q)], m)
    BY <1>1
  <2> HIDE DEF n, k, P
  <2>2. \E Z : /\ Walk(Z, Views, Messages, Showing, v, Q \o m)
               /\ Len(Q \o m) = Len(Q) + Len(m)
               /\ \A i \in 0..Len(Q) : Z[i] = V[i]
               /\ \A i \in 0..Len(m) : Z[Len(Q) + i] = U[i]
    BY <1>1, <2>1, WalkConcat
  <2> QED BY <2>2 DEF n, k, P
<1>6. Once(V, n) /\ \A id \in TargetIds :
        \/ \A i \in 0..k : U[i][id] = None <=> V[n][id] = None
        \/ /\ V[0][id] = None <=> V[n][id] = None
           /\ \A i \in 1..k : U[i][id] = None <=> V[n][id] # None
  BY <1>2, <1>g
<1> HIDE DEF n, k, P
<1>7. ASSUME NEW i \in 1..(n + k), P[i].kind = "no_change" PROVE UpToDate(Z[i], from, l)
  <2>1. CASE i <= n
    <3>1. i \in 1..n /\ i \in 0..n
      BY <1>2, <2>1
    <3> QED BY <1>3, <1>4, <1>5, <1>7, <2>1, <3>1
  <2>2. CASE ~(i <= n)
    <3> DEFINE j == i - n
    <3>1. j \in 1..k /\ j \in 0..k /\ n + j = i
      BY <1>2, <2>2
    <3>2. P[i] = m[j]
      BY <1>4, <2>2
    <3> HIDE DEF j
    <3> QED BY <1>3, <1>5, <1>7, <3>1, <3>2
  <2> QED BY <2>1, <2>2
<1>8. Once(Z, n + k)
  <2>1. OnceMore(Z, V, n, U, k)
    BY <1>2, <1>5, <1>6 DEF OnceMore
  <2> QED BY <2>1, OnceConcat
<1>9. Marks(Z, v, P, from, l)
  BY <1>5, <1>7 DEF Marks
<1>10. Z[Len(P)] = U[k]
  <2>1. k \in 0..k
    BY <1>2
  <2> QED BY <1>5, <2>1
<1> QED BY <1>5, <1>8, <1>9, <1>10 DEF n, k, P

\* Responses are appended that turn what the task takes the client to know into
\* what it takes it to know afterwards.
LEMMA WayGrows ==
  ASSUME TypeOK, WayOK, open, sending = <<>>,
         out' = out, view' = view, since' = since, log' = log,
         NEW U, GoesOn(U, view, targets, sending', since, log), U[Len(sending')] = targets'
  PROVE  WayOK'
<1>1. out \o sending = out
  BY WayType, ConcatEmptySeq
<1>2. PICK V : Marks(V, view, out, since, log) /\ V[Len(out)] = targets /\ Once(V, Len(out))
  BY <1>1 DEF WayOK
<1>3. PICK m : m = sending'
  OBVIOUS
<1>4. GoesOn(U, view, V[Len(out)], m, since, log)
  BY <1>2, <1>3
<1>5. \E Z : /\ Marks(Z, view, out \o m, since, log) /\ Once(Z, Len(out \o m))
             /\ Z[Len(out \o m)] = U[Len(m)]
  BY <1>2, <1>4, MarksConcat
<1>6. PICK Z : /\ Marks(Z, view, out \o m, since, log) /\ Once(Z, Len(out \o m))
               /\ Z[Len(out \o m)] = U[Len(m)]
  BY <1>5
<1>7. out' \o sending' = out \o m
  BY <1>3
<1>8. Marks(Z, view', out' \o sending', since', log')
  BY <1>6, <1>7
<1>9. Z[Len(out' \o sending')] = targets' /\ Once(Z, Len(out' \o sending'))
  BY <1>3, <1>6, <1>7
<1> QED BY <1>8, <1>9 DEF WayOK

\* The way without its first response.
LEMMA MarksTail ==
  ASSUME NEW V, NEW v, NEW Q, NEW from, NEW l, Marks(V, v, Q, from, l), Q # <<>>
  PROVE  \E Z : /\ Marks(Z, V[1], Tail(Q), from, l)
                /\ Z[Len(Tail(Q))] = V[Len(Q)]
                /\ Once(V, Len(Q)) => Once(Z, Len(Tail(Q)))
<1> DEFINE n == Len(Q)
           T == Tail(Q)
           k == Len(T)
           Z == [i \in 0..k |-> V[i + 1]]
<1>1. /\ Q \in Seq(Messages) /\ V \in [0..n -> Views]
      /\ \A i \in 1..n : <<V[i - 1], Q[i], V[i]>> \in Showing
      /\ \A i \in 1..n : Q[i].kind = "no_change" => UpToDate(V[i], from, l)
  BY DEF Marks, Walk
<1>2. /\ n \in Nat \ {0} /\ T \in Seq(Messages) /\ k = n - 1 /\ \A i \in 1..k : T[i] = Q[i + 1]
  BY <1>1, HeadTailProperties, EmptySeq
<1> HIDE DEF n, T, k
<1>3. \A i \in 0..k : i + 1 \in 0..n /\ i + 1 \in 1..n
  BY <1>2
<1>4. Z \in [0..k -> Views] /\ \A i \in 0..k : Z[i] = V[i + 1]
  BY <1>1, <1>3
<1> HIDE DEF Z
<1>5. ASSUME NEW i \in 1..k
      PROVE  /\ <<Z[i - 1], T[i], Z[i]>> \in Showing
             /\ T[i].kind = "no_change" => UpToDate(Z[i], from, l)
  <2>1. i \in 0..k /\ i - 1 \in 0..k /\ (i - 1) + 1 = i /\ i + 1 \in 1..n /\ (i + 1) - 1 = i
    BY <1>2
  <2>2. Z[i] = V[i + 1] /\ Z[i - 1] = V[i] /\ T[i] = Q[i + 1]
    BY <1>2, <1>4, <2>1
  <2> DEFINE j == i + 1
  <2>3. j \in 1..n /\ j - 1 = i
    BY <2>1
  <2> HIDE DEF j
  <2>4. <<V[i], Q[j], V[j]>> \in Showing /\ (Q[j].kind = "no_change" => UpToDate(V[j], from, l))
    BY <1>1, <2>3
  <2> QED BY <2>2, <2>4 DEF j
<1>6. Z[0] = V[1] /\ Z[k] = V[n]
  <2>1. 0 \in 0..k /\ k \in 0..k /\ k + 1 = n /\ 0 + 1 = 1
    BY <1>2
  <2> QED BY <1>4, <2>1
<1>7. Marks(Z, V[1], T, from, l)
  BY <1>2, <1>4, <1>5, <1>6 DEF Marks, Walk, k
<1>8. ASSUME Once(V, n) PROVE Once(Z, k)
  <2> SUFFICES ASSUME NEW id \in TargetIds, NEW i \in 0..k, NEW j \in 0..k, i <= j,
                      Z[i][id] = None <=> Z[k][id] = None
               PROVE  Z[j][id] = None <=> Z[k][id] = None
    BY DEF Once
  <2>1. Z[i] = V[i + 1] /\ Z[j] = V[j + 1] /\ Z[k] = V[n]
    BY <1>4, <1>6
  <2>2. i + 1 \in 0..n /\ j + 1 \in 0..n /\ i + 1 <= j + 1
    BY <1>2
  <2> QED BY <1>8, <2>1, <2>2 DEF Once
<1> QED BY <1>6, <1>7, <1>8 DEF n, T, k

\* The way of the responses that are in the channel.
LEMMA MarksStart ==
  ASSUME NEW V, NEW v, NEW Q \in Seq(Messages), NEW M \in Seq(Messages), NEW from, NEW l,
         Marks(V, v, Q \o M, from, l)
  PROVE  \E Z : Marks(Z, v, Q, from, l)
<1> DEFINE n == Len(Q)
           P == Q \o M
<1>1. /\ Walk(V, Views, Messages, Showing, v, P)
      /\ \A i \in 1..Len(P) : P[i].kind = "no_change" => UpToDate(V[i], from, l)
  BY DEF Marks
<1>2. PICK Z : /\ Walk(Z, Views, Messages, Showing, v, Q)
               /\ Len(P) = n + Len(M)
               /\ \A i \in 0..n : Z[i] = V[i]
               /\ \A i \in 1..n : Q[i] = P[i]
  BY <1>1, WalkStart
<1>3. n \in Nat /\ Len(M) \in Nat
  OBVIOUS
<1> HIDE DEF n, P
<1>4. \A i \in 1..n : i \in 0..n /\ i \in 1..Len(P)
  BY <1>2, <1>3
<1>5. \A i \in 1..n : Q[i].kind = "no_change" => UpToDate(Z[i], from, l)
  BY <1>1, <1>2, <1>4
<1> QED BY <1>2, <1>5 DEF Marks, n

\* The first response leaves the channel, or goes on to it.
LEMMA ChannelFacts ==
  ASSUME NEW p \in Seq(Messages), NEW q \in Seq(Messages)
  PROVE  /\ p # <<>> => /\ p \o q # <<>> /\ Head(p) = (p \o q)[1] /\ Tail(p \o q) = Tail(p) \o q
                        /\ Head(p) \in Messages /\ 1 \in 1..Len(p \o q)
         /\ q # <<>> => Append(p, Head(q)) \o Tail(q) = p \o q
<1> DEFINE a == Len(p)
           b == Len(q)
           r == p \o q
<1>1. a \in Nat /\ b \in Nat
  OBVIOUS
<1>2. /\ r \in Seq(Messages) /\ Len(r) = a + b
      /\ \A i \in 1..(a + b) : r[i] = IF i <= a THEN p[i] ELSE q[i - a]
  BY ConcatProperties
<1>3. ASSUME p # <<>>
      PROVE  /\ r # <<>> /\ Head(p) = r[1] /\ Tail(r) = Tail(p) \o q
             /\ Head(p) \in Messages /\ 1 \in 1..Len(r)
  <2> DEFINE t == Tail(p)
             s == t \o q
             u == Tail(r)
  <2>1. /\ a >= 1 /\ t \in Seq(Messages) /\ Len(t) = a - 1 /\ Head(p) = p[1] /\ Head(p) \in Messages
        /\ \A i \in 1..(a - 1) : t[i] = p[i + 1]
    BY <1>1, <1>3, HeadTailProperties, EmptySeq
  <2>2. r # <<>> /\ Head(p) = r[1] /\ 1 \in 1..Len(r)
    <3> HIDE DEF r, a, b
    <3>1. 1 \in 1..(a + b) /\ 1 <= a
      BY <1>1, <2>1
    <3>2. Len(r) # 0
      BY <1>1, <1>2, <2>1
    <3> QED BY <1>2, <2>1, <3>1, <3>2, EmptySeq
  <2> HIDE DEF t
  <2>3. /\ s \in Seq(Messages) /\ Len(s) = (a - 1) + b
        /\ \A i \in 1..((a - 1) + b) : s[i] = IF i <= a - 1 THEN t[i] ELSE q[i - (a - 1)]
    <3>1. /\ s \in Seq(Messages) /\ Len(s) = Len(t) + b
          /\ \A i \in 1..(Len(t) + b) : s[i] = IF i <= Len(t) THEN t[i] ELSE q[i - Len(t)]
      BY <2>1, ConcatProperties
    <3> HIDE DEF s, a, b
    <3> QED BY <2>1, <3>1
  <2> HIDE DEF r, a, b, s
  <2>4. /\ u \in Seq(Messages) /\ Len(u) = (a + b) - 1
        /\ \A i \in 1..((a + b) - 1) : u[i] = r[i + 1]
    BY <1>2, <2>2, HeadTailProperties
  <2> HIDE DEF u
  <2>5. ASSUME NEW i \in 1..Len(u) PROVE u[i] = s[i]
    <3>1. i + 1 \in 1..(a + b) /\ i \in 1..((a - 1) + b) /\ i \in 1..((a + b) - 1)
      BY <1>1, <2>1, <2>4
    <3>2. CASE i <= a - 1
      <4>1. i + 1 <= a /\ i \in 1..(a - 1)
        BY <1>1, <2>1, <3>2
      <4> QED BY <1>2, <2>1, <2>3, <2>4, <3>1, <3>2, <4>1
    <3>3. CASE ~(i <= a - 1)
      <4>1. ~(i + 1 <= a) /\ (i + 1) - a = i - (a - 1)
        BY <1>1, <2>1, <3>1, <3>3
      <4> QED BY <1>2, <2>3, <2>4, <3>1, <3>3, <4>1
    <3> QED BY <3>2, <3>3
  <2>6. Len(u) = Len(s)
    BY <1>1, <2>1, <2>3, <2>4
  <2>7. u = s
    BY <2>3, <2>4, <2>5, <2>6, SeqEqual
  <2> QED BY <2>1, <2>2, <2>7 DEF s, t, u
<1>4. ASSUME q # <<>> PROVE Append(p, Head(q)) \o Tail(q) = r
  <2> DEFINE h == Head(q)
             t == Tail(q)
             s == Append(p, h)
             u == s \o t
  <2>1. /\ b >= 1 /\ t \in Seq(Messages) /\ Len(t) = b - 1 /\ h = q[1] /\ h \in Messages
        /\ \A i \in 1..(b - 1) : t[i] = q[i + 1]
    BY <1>1, <1>4, HeadTailProperties, EmptySeq
  <2> HIDE DEF h, t
  <2>2. /\ s \in Seq(Messages) /\ Len(s) = a + 1 /\ s[a + 1] = h
        /\ \A i \in 1..a : s[i] = p[i]
    BY <2>1, AppendProperties
  <2> HIDE DEF s
  <2>3. /\ u \in Seq(Messages) /\ Len(u) = (a + 1) + (b - 1)
        /\ \A i \in 1..((a + 1) + (b - 1)) : u[i] = IF i <= a + 1 THEN s[i] ELSE t[i - (a + 1)]
    <3>1. /\ u \in Seq(Messages) /\ Len(u) = Len(s) + Len(t)
          /\ \A i \in 1..(Len(s) + Len(t)) : u[i] = IF i <= Len(s) THEN s[i] ELSE t[i - Len(s)]
      BY <2>1, <2>2, ConcatProperties
    <3> HIDE DEF u, a, b
    <3> QED BY <2>1, <2>2, <3>1
  <2> HIDE DEF r, a, b, u
  <2>4. ASSUME NEW i \in 1..Len(u) PROVE u[i] = r[i]
    <3>1. i \in 1..(a + b) /\ i \in 1..((a + 1) + (b - 1))
      BY <1>1, <2>1, <2>3
    <3>2. CASE i <= a
      <4>1. i \in 1..a /\ i <= a + 1
        BY <1>1, <3>1, <3>2
      <4> QED BY <1>2, <2>2, <2>3, <3>1, <3>2, <4>1
    <3>3. CASE i = a + 1
      <4>1. ~(i <= a) /\ i - a = 1 /\ i <= a + 1
        BY <1>1, <3>3
      <4>2. u[i] = s[i] /\ r[i] = q[1]
        BY <1>2, <2>3, <3>1, <4>1
      <4> QED BY <2>1, <2>2, <3>3, <4>2
    <3>4. CASE i > a + 1
      <4> DEFINE j == i - (a + 1)
      <4>1. ~(i <= a) /\ ~(i <= a + 1) /\ j \in 1..(b - 1) /\ i - a = j + 1
        BY <1>1, <2>1, <3>1, <3>4
      <4>2. u[i] = t[j] /\ r[i] = q[j + 1]
        BY <1>2, <2>3, <3>1, <4>1
      <4> QED BY <2>1, <4>1, <4>2
    <3> QED BY <1>1, <3>1, <3>2, <3>3, <3>4
  <2>5. Len(u) = Len(r)
    BY <1>1, <1>2, <2>1, <2>3
  <2>6. u = r
    BY <1>2, <2>3, <2>4, <2>5, SeqEqual
  <2> QED BY <2>6 DEF u, s, h, t
<1> QED BY <1>3, <1>4 DEF r

\* The way along one response.
LEMMA MarksOne ==
  ASSUME NEW v \in Views, NEW m \in Messages, NEW from, NEW l,
         m.kind = "no_change" => UpToDate(v, from, l)
  PROVE  \E U : /\ Marks(U, v, <<m>>, from, l) /\ Len(<<m>>) = 1 /\ U[0] = v /\ U[1] = Shown(v, m)
<1>1. PICK w : w = Shown(v, m)
  OBVIOUS
<1>2. w \in Views /\ <<v, m, w>> \in Showing /\ (m.kind = "no_change" => w = v)
  BY <1>1, ShownFacts
<1>3. PICK U : Walk(U, Views, Messages, Showing, v, <<m>>) /\ U[1] = w
  BY <1>2, WalkOne
<1>4. Len(<<m>>) = 1 /\ <<m>>[1] = m /\ U[0] = v
  BY <1>3 DEF Walk
<1>5. \A i \in 1..Len(<<m>>) : <<m>>[i].kind = "no_change" => UpToDate(U[i], from, l)
  BY <1>2, <1>3, <1>4
<1> QED BY <1>1, <1>3, <1>4, <1>5 DEF Marks

\* A target is added or removed.
LEMMA AskedWay ==
  ASSUME TypeOK, AskedOK, WayOK, AddTarget \/ RemoveTarget
  PROVE  WayOK'
<1> DEFINE id == Head(asked).id
<1>1. /\ id \in TargetIds /\ id = asked[1].id /\ 1 \in 1..Len(asked)
  BY AskedFacts DEF AddTarget, RemoveTarget
<1> HIDE DEF id
<1>2. PICK m : m = IF Head(asked).add THEN Response("add", id, None, 0) ELSE Response("remove", id, None, 0)
  OBVIOUS
<1>3. /\ open /\ sending = <<>> /\ sending' = <<m>> /\ asked # <<>>
      /\ UNCHANGED <<open, out, view, since, log>>
      /\ targets' = [targets EXCEPT ![id] = IF Head(asked).add THEN Nothing ELSE None]
  BY <1>2 DEF AddTarget, RemoveTarget, Selecting, Known, id, feedVars
<1>4. /\ Head(asked) = asked[1] /\ asked[1].add \in BOOLEAN
  BY <1>3, AskedFacts
<1>5. m \in Messages /\ m.id = id /\ m.kind = IF Head(asked).add THEN "add" ELSE "remove"
  BY <1>1, <1>2, ResponseType
<1>6. PICK T : T = targets
  OBVIOUS
<1>7. T \in Views
  BY <1>6 DEF TypeOK, Views
<1>8. Shown(T, m) = targets'
  <2>1. Shown(T, m) = [T EXCEPT ![id] = IF Head(asked).add THEN Nothing ELSE None]
    BY <1>5, <1>7, ShownFacts
  <2> QED BY <1>3, <1>6, <2>1
<1>9. PICK U : Marks(U, T, <<m>>, since, log) /\ Len(<<m>>) = 1 /\ U[0] = T /\ U[1] = Shown(T, m)
  BY <1>5, <1>7, MarksOne
<1>10. /\ \A j \in TargetIds : j # id => U[1][j] = T[j]
       /\ U[1][id] = None <=> T[id] # None
       /\ view[id] = None <=> T[id] = None
  <2>1. U[1] = [T EXCEPT ![id] = IF Head(asked).add THEN Nothing ELSE None]
    BY <1>3, <1>6, <1>8, <1>9
  <2>2. U[1][id] = (IF Head(asked).add THEN Nothing ELSE None) /\ \A j \in TargetIds : j # id => U[1][j] = T[j]
    BY <1>1, <1>7, <2>1 DEF Views
  <2>3. (T[id] = None <=> Head(asked).add) /\ (view[id] = None <=> Head(asked).add)
    BY <1>1, <1>4, <1>6 DEF AskedOK
  <2>4. Nothing # None
    BY NoneFacts
  <2> QED BY <2>2, <2>3, <2>4
<1>11. \A j \in TargetIds :
         \/ \A i \in 0..Len(<<m>>) : U[i][j] = None <=> T[j] = None
         \/ /\ view[j] = None <=> T[j] = None
            /\ \A i \in 1..Len(<<m>>) : U[i][j] = None <=> T[j] # None
  <2>1. 0..1 = {0, 1} /\ 1..1 = {1}
    OBVIOUS
  <2> QED BY <1>9, <1>10, <2>1
<1>12. PICK q : q = <<m>>
  OBVIOUS
<1>13. GoesOn(U, view, T, q, since, log) /\ U[Len(q)] = targets' /\ sending' = q
  BY <1>3, <1>8, <1>9, <1>11, <1>12 DEF GoesOn
<1>14. GoesOn(U, view, targets, sending', since, log) /\ U[Len(sending')] = targets'
  BY <1>6, <1>13
<1> QED BY <1>3, <1>14, WayGrows

\* A target is emitted.
LEMMA EmitWay ==
  ASSUME TypeOK, LogOK, TodoOK, TargetsOK, WayOK, emit_target
  PROVE  WayOK'
<1>e. PICK id, cur, m :
        /\ id = Head(todo) /\ id \in TargetIds /\ targets[id] # None
        /\ cur = Matching(id, docs) /\ cur \in Snapshot
        /\ IsNews(m, Messages, Names, id, targets[id], cur) /\ \A k \in 1..Len(m) : m[k].kind # "no_change"
        /\ sending' = m \o <<Response("no_change", None, None, 0)>>
        /\ targets' = [targets EXCEPT ![id] = cur]
  BY EmitFacts
<1>f. PICK T, W : T = targets /\ W = targets'
  OBVIOUS
<1>1. /\ id = Head(todo) /\ id \in TargetIds /\ T = targets /\ T[id] # None
      /\ cur = Matching(id, docs) /\ cur \in Snapshot
      /\ IsNews(m, Messages, Names, id, T[id], cur) /\ \A k \in 1..Len(m) : m[k].kind # "no_change"
      /\ sending' = m \o <<Response("no_change", None, None, 0)>>
      /\ W = [T EXCEPT ![id] = cur] /\ targets' = W
  BY <1>e, <1>f
<1>2. /\ open /\ sending = <<>> /\ UNCHANGED <<open, out, view, since, log>>
  BY DEF emit_target, feedVars
<1>i. id \in TargetIds /\ cur \in Snapshot /\ T[id] # None /\ IsNews(m, Messages, Names, id, T[id], cur)
  BY <1>1
<1>3. T \in Views /\ W \in Views /\ W[id] = cur /\ \A j \in TargetIds : j # id => W[j] = T[j]
  <2>1. T \in Views
    BY <1>1 DEF TypeOK, Views
  <2>2. [T EXCEPT ![id] = cur] \in Views /\ [T EXCEPT ![id] = cur][id] = cur
        /\ \A j \in TargetIds : j # id => [T EXCEPT ![id] = cur][j] = T[j]
    BY <1>i, <2>1, ViewExcept
  <2> QED BY <1>1, <2>1, <2>2
<1>4. PICK U : /\ Walk(U, Views, Messages, Showing, T, m)
               /\ U[Len(m)] = W
               /\ \A i \in 0..Len(m), j \in TargetIds : U[i][j] = None <=> T[j] = None
  <2>1. \E U : /\ Walk(U, Views, Messages, Showing, T, m)
               /\ U[Len(m)] = [T EXCEPT ![id] = cur]
               /\ \A i \in 0..Len(m), j \in TargetIds : U[i][j] = None <=> T[j] = None
    BY <1>3, <1>i, NewsOfViews
  <2> QED BY <1>1, <2>1
<1>5. Marks(U, T, m, since, log) /\ Once(U, Len(m)) /\ Len(m) \in Nat
  <2>1. Len(m) \in 0..Len(m) /\ Len(m) \in Nat
    BY <1>4 DEF Walk
  <2> QED BY <1>1, <1>4, <2>1 DEF Marks, Once
<1>6. UpToDate(W, since, log)
  <2> SUFFICES ASSUME NEW j \in TargetIds, W[j] # None
               PROVE  \E k \in since[j]..Len(log) : W[j] = Matching(j, log[k])
    BY DEF UpToDate
  <2>1. CASE j = id
    <3>1. Len(log) \in since[j]..Len(log) /\ log[Len(log)] = docs
      BY DEF TypeOK, FeedTypeOK, LogOK
    <3> QED BY <1>1, <1>3, <2>1, <3>1
  <2>2. CASE j # id
    <3>1. W[j] = targets[j] /\ Head(todo) # j
      BY <1>1, <1>3, <2>2
    <3> QED BY <3>1 DEF TargetsOK
  <2> QED BY <2>1, <2>2
<1> DEFINE nc == Response("no_change", None, None, 0)
<1>7. nc \in Messages /\ nc.kind = "no_change"
  BY ResponseType
<1> HIDE DEF nc
<1>8. PICK X : Marks(X, W, <<nc>>, since, log) /\ Len(<<nc>>) = 1 /\ X[0] = W /\ X[1] = W
  <2>1. Shown(W, nc) = W
    BY <1>3, <1>7, ShownFacts
  <2> QED BY <1>3, <1>6, <1>7, <2>1, MarksOne
<1>9. \A j \in TargetIds : \A i \in 0..Len(<<nc>>) : X[i][j] = None <=> U[Len(m)][j] = None
  <2>1. 0..1 = {0, 1}
    OBVIOUS
  <2> QED BY <1>4, <1>8, <2>1
<1>10. PICK q : q = m \o <<nc>>
  OBVIOUS
<1>11. PICK Z : Marks(Z, T, q, since, log) /\ Once(Z, Len(q)) /\ Z[Len(q)] = W
  <2>1. PICK o : o = <<nc>>
    OBVIOUS
  <2>2. GoesOn(X, T, U[Len(m)], o, since, log) /\ Len(o) = 1 /\ X[Len(o)] = W
    BY <1>4, <1>8, <1>9, <2>1 DEF GoesOn
  <2>3. \E Z : Marks(Z, T, m \o o, since, log) /\ Once(Z, Len(m \o o)) /\ Z[Len(m \o o)] = X[Len(o)]
    <3>1. GoesOn(X, T, U[Len(m)], o, since, log) /\ Marks(U, T, m, since, log) /\ Once(U, Len(m))
      BY <1>5, <2>2
    <3> QED BY <3>1, MarksConcat
  <2> QED BY <1>10, <2>1, <2>2, <2>3
<1>12. Len(q) # 0 /\ Len(q) \in Nat /\ Z[0] = T
  <2>1. q \in Seq(Messages) /\ Z[0] = T
    BY <1>11 DEF Marks, Walk
  <2>2. m \in Seq(Messages) /\ <<nc>> \in Seq(Messages)
    BY <1>4, <1>7 DEF Walk
  <2>3. Len(q) = Len(m) + Len(<<nc>>)
    BY <1>10, <2>2, ConcatProperties
  <2> QED BY <1>5, <1>8, <2>1, <2>3
<1>13. \A j \in TargetIds : \A i \in 0..Len(q) : Z[i][j] = None <=> T[j] = None
  <2>1. \A j \in TargetIds : W[j] = None <=> T[j] = None
    <3>1. cur # None
      BY <1>1, NoneFacts
    <3> QED BY <1>1, <1>3, <3>1
  <2>2. 0 \in 0..Len(q) /\ \A i \in 0..Len(q) : 0 <= i
    BY <1>12
  <2> QED BY <1>11, <1>12, <2>1, <2>2 DEF Once
<1>14. GoesOn(Z, view, T, q, since, log)
  BY <1>11, <1>12, <1>13 DEF GoesOn
<1>15. sending' = q
  BY <1>1, <1>10 DEF nc
<1>16. GoesOn(Z, view, targets, sending', since, log) /\ Z[Len(sending')] = targets'
  BY <1>1, <1>11, <1>14, <1>15
<1> QED BY <1>2, <1>16, WayGrows

\* The client reads the first response of the channel.
LEMMA ReceiveFacts ==
  ASSUME TypeOK, WayOK, Receive
  PROVE  \E V, Q : /\ Q = out \o sending /\ Marks(V, view, Q, since, log) /\ Q # <<>>
                   /\ out' \o sending' = Tail(Q) /\ V[0] = view /\ view' = V[1]
                   /\ open => V[Len(Q)] = targets /\ Once(V, Len(Q))
                   /\ Q[1] = Head(out) /\ 1 \in 1..Len(Q)
<1>1. /\ out # <<>> /\ out' = Tail(out) /\ sending' = sending /\ view' = Shown(view, Head(out))
  BY DEF Receive
<1>2. PICK Q : Q = out \o sending
  OBVIOUS
<1>3. /\ Q # <<>> /\ Head(out) = Q[1] /\ Tail(Q) = Tail(out) \o sending /\ 1 \in 1..Len(Q)
  BY <1>1, <1>2, WayType, ChannelFacts
<1>4. PICK V : /\ Marks(V, view, Q, since, log)
               /\ open => V[Len(Q)] = targets /\ Once(V, Len(Q))
  BY <1>2 DEF WayOK
<1>5. V[0] = view /\ <<V[0], Q[1], V[1]>> \in Showing
  <2>1. Walk(V, Views, Messages, Showing, view, Q)
    BY <1>4 DEF Marks
  <2>2. V[0] = view /\ \A i \in 1..Len(Q) : <<V[i - 1], Q[i], V[i]>> \in Showing
    BY <2>1 DEF Walk
  <2>3. <<V[1 - 1], Q[1], V[1]>> \in Showing
    BY <1>3, <2>2
  <2> QED BY <2>2, <2>3
<1>6. V[1] = Shown(view, Q[1])
  BY <1>5 DEF Showing
<1> QED BY <1>1, <1>2, <1>3, <1>4, <1>5, <1>6

\* What the responses on their way make of the views.
LEMMA WayStep ==
  ASSUME TypeOK, LogOK, TodoOK, TargetsOK, AskedOK, WayOK, Next
  PROVE  WayOK'
<1>1. CASE Store
  <2>1. UNCHANGED <<out, sending, view, open, targets>>
    BY <1>1 DEF Store
  <2> QED BY <2>1, WaySame
<1>2. CASE AddTarget \/ RemoveTarget
  BY <1>2, AskedWay
<1>3. CASE Event
  <2>1. UNCHANGED <<out, sending, view, open, targets>>
    BY <1>3 DEF Event
  <2> QED BY <2>1, WaySame
<1>4. CASE emit_target
  BY <1>4, EmitWay
<1>5. CASE Send
  <2>1. /\ sending # <<>> /\ out' = Append(out, Head(sending)) /\ sending' = Tail(sending)
        /\ UNCHANGED <<view, open, targets>>
    BY <1>5 DEF Send
  <2>2. out' \o sending' = out \o sending
    BY <2>1, WayType, ChannelFacts
  <2> QED BY <2>1, <2>2, WaySame
<1>6. CASE Receive
  <2>1. PICK V, Q : /\ Q = out \o sending /\ Marks(V, view, Q, since, log) /\ Q # <<>>
                    /\ out' \o sending' = Tail(Q) /\ V[0] = view /\ view' = V[1]
                    /\ open => V[Len(Q)] = targets /\ Once(V, Len(Q))
    BY <1>6, ReceiveFacts
  <2>2. UNCHANGED <<open, targets, since, log>>
    BY <1>6 DEF Receive, feedVars
  <2>3. PICK Z : /\ Marks(Z, V[1], Tail(Q), since, log)
                 /\ Z[Len(Tail(Q))] = V[Len(Q)]
                 /\ Once(V, Len(Q)) => Once(Z, Len(Tail(Q)))
    <3>1. Marks(V, view, Q, since, log) /\ Q # <<>>
      BY <2>1
    <3> QED BY <3>1, MarksTail
  <2>4. PICK T : T = Tail(Q)
    OBVIOUS
  <2>5. out' \o sending' = T
    BY <2>1, <2>4
  <2>6. Marks(Z, view', T, since', log') /\ (open' => Z[Len(T)] = targets' /\ Once(Z, Len(T)))
    BY <2>1, <2>2, <2>3, <2>4
  <2> QED BY <2>5, <2>6 DEF WayOK
<1>7. CASE Close
  <2>1. ~open' /\ out' = out /\ sending' = <<>> /\ UNCHANGED <<view, since, log>>
    BY <1>7 DEF Close, feedVars
  <2>2. PICK V : Marks(V, view, out \o sending, since, log)
    BY DEF WayOK
  <2>3. PICK Z : Marks(Z, view, out, since, log)
    BY <2>2, WayType, MarksStart
  <2>4. out' \o sending' = out
    BY <2>1, WayType, ConcatEmptySeq
  <2>5. Marks(Z, view', out' \o sending', since', log')
    BY <2>1, <2>3, <2>4
  <2> QED BY <2>1, <2>5 DEF WayOK
<1>8. ASSUME NEW id \in TargetIds, Ask(id) PROVE WayOK'
  <2>1. UNCHANGED <<out, sending, view, open, targets>>
    BY <1>8 DEF Ask
  <2> QED BY <2>1, WaySame
<1> QED BY <1>1, <1>2, <1>3, <1>4, <1>5, <1>6, <1>7, <1>8 DEF Next, Task, Client

\* The client never shows half of a commit when it is told that it is up to date.
LEMMA ViewStep ==
  ASSUME TypeOK, LogOK, ViewIsASnapshot, WayOK, Next
  PROVE  ViewIsASnapshot'
<1>1. CASE Receive
  <2>1. PICK V, Q : /\ Marks(V, view, Q, since, log) /\ view' = V[1]
                    /\ Q[1] = Head(out) /\ 1 \in 1..Len(Q)
    BY <1>1, ReceiveFacts
  <2>2. marked' = (Head(out).kind = "no_change") /\ UNCHANGED <<since, log>>
    BY <1>1 DEF Receive, feedVars
  <2>3. marked' => UpToDate(V[1], since, log)
    BY <2>1, <2>2 DEF Marks
  <2> QED BY <2>1, <2>2, <2>3 DEF ViewIsASnapshot, UpToDate
<1>2. CASE ~Receive
  <2>1. view' = view /\ marked' = marked
    BY <1>2 DEF Next, Task, Client, Store, AddTarget, RemoveTarget, Event, emit_target, Send, Close, Ask
  <2>2. PICK v : v = view
    OBVIOUS
  <2>3. marked => UpToDate(v, since, log)
    BY <2>2 DEF ViewIsASnapshot, UpToDate
  <2>4. marked => UpToDate(v, since', log')
    BY <2>2, <2>3, UpToDateStays
  <2> QED BY <2>1, <2>2, <2>4 DEF ViewIsASnapshot, UpToDate
<1> QED BY <1>1, <1>2

\* The requests that the task has not read.
LEMMA AskedStep ==
  ASSUME TypeOK, TodoOK, AskedOK, WayOK, Next
  PROVE  AskedOK'
<1>a. /\ asked \in Seq([add : BOOLEAN, id : TargetIds]) /\ targets \in Views /\ view \in Views
      /\ Len(asked) \in Nat
  BY DEF TypeOK, Views
<1>b. \A i \in 1..Len(asked) : asked[i].id \in TargetIds
  <2>1. CASE asked = <<>>
    BY <2>1
  <2>2. CASE asked # <<>>
    BY <2>2, AskedFacts
  <2> QED BY <2>1, <2>2
<1>1. CASE AddTarget \/ RemoveTarget
  <2> DEFINE a == asked[1].id
  <2>1. /\ asked # <<>> /\ asked' = Tail(asked) /\ view' = view
        /\ \E t : targets' = [targets EXCEPT ![Head(asked).id] = t]
    BY <1>1 DEF AddTarget, RemoveTarget
  <2>2. /\ Head(asked) = asked[1] /\ Len(asked') = Len(asked) - 1 /\ Len(asked) >= 1
        /\ \A i \in 1..Len(asked') : asked'[i] = asked[i + 1] /\ i + 1 \in 1..Len(asked)
        /\ \A i \in 1..Len(asked) : asked[i].id \in TargetIds
    BY <2>1, AskedFacts
  <2>3. \A i \in 1..Len(asked') : i + 1 # 1 /\ 1 \in 1..Len(asked)
    BY <1>a, <2>2
  <2>4. \A i \in 1..Len(asked') : asked[i + 1].id # a
    BY <2>2, <2>3 DEF AskedOK
  <2>5. \A id \in TargetIds : id # a => targets'[id] = targets[id]
    BY <1>a, <2>1, <2>2 DEF Views
  <2> HIDE DEF a
  <2>6. \A i, j \in 1..Len(asked') : asked'[i].id = asked'[j].id => i = j
    <3> SUFFICES ASSUME NEW i \in 1..Len(asked'), NEW j \in 1..Len(asked'), asked'[i].id = asked'[j].id
                 PROVE  i = j
      OBVIOUS
    <3>1. i + 1 = j + 1
      BY <2>2 DEF AskedOK
    <3> QED BY <3>1
  <2>7. ASSUME NEW i \in 1..Len(asked')
        PROVE  /\ targets'[asked'[i].id] = None <=> asked'[i].add
               /\ view'[asked'[i].id] = None <=> asked'[i].add
    <3>1. asked'[i] = asked[i + 1] /\ i + 1 \in 1..Len(asked) /\ asked[i + 1].id \in TargetIds
      BY <2>2
    <3>2. targets'[asked[i + 1].id] = targets[asked[i + 1].id]
      BY <2>4, <2>5, <3>1
    <3> QED BY <2>1, <3>1, <3>2 DEF AskedOK
  <2> QED BY <2>6, <2>7 DEF AskedOK
<1>2. CASE emit_target
  <2>1. PICK id, cur : /\ id \in TargetIds /\ targets[id] # None /\ cur \in Snapshot
                       /\ targets' = [targets EXCEPT ![id] = cur]
    BY <1>2, EmitFacts
  <2>2. UNCHANGED <<asked, view>>
    BY <1>2 DEF emit_target
  <2>3. cur # None
    BY <2>1, NoneFacts
  <2>4. \A j \in TargetIds : targets'[j] = None <=> targets[j] = None
    BY <1>a, <2>1, <2>3 DEF Views
  <2> QED BY <1>b, <2>2, <2>4 DEF AskedOK
<1>3. CASE Receive
  <2>1. PICK V, Q : /\ Q # <<>> /\ V[0] = view /\ view' = V[1]
                    /\ open => V[Len(Q)] = targets /\ Once(V, Len(Q))
                    /\ 1 \in 1..Len(Q)
    BY <1>3, ReceiveFacts
  <2>2. UNCHANGED <<asked, targets>>
    BY <1>3 DEF Receive
  <2>3. ASSUME NEW i \in 1..Len(asked)
        PROVE  view'[asked[i].id] = None <=> asked[i].add
    <3>1. asked # <<>>
      BY <1>a, <2>3
    <3>2. open
      BY <3>1 DEF TodoOK
    <3>3. asked[i].id \in TargetIds
      BY <1>b
    <3> DEFINE id == asked[i].id
    <3>4. /\ V[0][id] = None <=> V[Len(Q)][id] = None
          /\ targets[id] = None <=> asked[i].add
          /\ V[Len(Q)] = targets /\ Once(V, Len(Q))
      BY <2>1, <3>2 DEF AskedOK
    <3> HIDE DEF id
    <3>5. 0 \in 0..Len(Q) /\ 1 \in 0..Len(Q) /\ 0 <= 1
      BY <2>1
    <3>6. V[1][id] = None <=> V[Len(Q)][id] = None
      BY <3>3, <3>4, <3>5 DEF Once, id
    <3> QED BY <2>1, <3>4, <3>6 DEF id
  <2> QED BY <2>2, <2>3 DEF AskedOK
<1>4. CASE Close
  <2>1. asked' = <<>>
    BY <1>4 DEF Close
  <2> QED BY <2>1 DEF AskedOK
<1>5. CASE Store \/ Event \/ Send
  BY <1>5 DEF Store, Event, Send, AskedOK
<1>6. ASSUME NEW id \in TargetIds, Ask(id) PROVE AskedOK'
  <2>1. PICK add \in BOOLEAN :
          /\ asked' = Append(asked, [add |-> add, id |-> id])
          /\ targets[id] = None <=> add
          /\ view[id] = None <=> add
    BY <1>6 DEF Ask
  <2>2. UNCHANGED <<targets, view>> /\ \A i \in 1..Len(asked) : asked[i].id # id
    BY <1>a, <1>6 DEF Ask
  <2> DEFINE n == Len(asked)
             r == [add |-> add, id |-> id]
             R == [add : BOOLEAN, id : TargetIds]
  <2>4. r \in R /\ r.id = id /\ r.add = add
    OBVIOUS
  <2>a. asked \in Seq(R) /\ asked' = Append(asked, r)
    BY <1>a, <2>1
  <2> HIDE DEF r, R
  <2>3. /\ Len(asked') = n + 1 /\ asked'[n + 1] = r /\ \A i \in 1..n : asked'[i] = asked[i]
    BY <2>4, <2>a, AppendProperties
  <2>5. \A i \in 1..(n + 1) : i \in 1..n \/ i = n + 1
    BY <1>a
  <2>6. \A i, j \in 1..(n + 1) : asked'[i].id = asked'[j].id => i = j
    <3> HIDE DEF n
    <3> QED BY <2>2, <2>3, <2>4, <2>5 DEF AskedOK, n
  <2>7. ASSUME NEW i \in 1..(n + 1)
        PROVE  /\ targets'[asked'[i].id] = None <=> asked'[i].add
               /\ view'[asked'[i].id] = None <=> asked'[i].add
    <3>1. CASE i \in 1..n
      BY <2>2, <2>3, <3>1 DEF AskedOK
    <3>2. CASE i = n + 1
      BY <2>1, <2>2, <2>3, <2>4, <3>2
    <3> QED BY <2>5, <3>1, <3>2
  <2> QED BY <2>3, <2>6, <2>7 DEF AskedOK
<1> QED BY <1>1, <1>2, <1>3, <1>4, <1>5, <1>6 DEF Next, Task, Client

\* A stuttering step changes nothing.
LEMMA StutterIInv ==
  ASSUME IInv, UNCHANGED vars
  PROVE  IInv'
<1>1. TypeOK' /\ LogOK'
  BY DEF IInv, vars, feedVars, listenVars, TypeOK, FeedTypeOK, LogOK
<1>2. TodoOK' /\ TargetsOK' /\ AskedOK'
  BY DEF IInv, vars, feedVars, listenVars, TodoOK, TargetsOK, AskedOK
<1>3. ViewIsASnapshot' /\ WayOK'
  BY DEF IInv, vars, feedVars, listenVars, ViewIsASnapshot, WayOK
<1> QED BY <1>1, <1>2, <1>3 DEF IInv

\* The invariant holds in every state.
THEOREM Invariance == Spec => []IInv
<1>1. IInv /\ [Next]_vars => IInv'
  <2> SUFFICES ASSUME IInv, [Next]_vars PROVE IInv'
    OBVIOUS
  <2>1. CASE UNCHANGED vars
    BY <2>1, StutterIInv
  <2>2. CASE Next
    <3>1. TypeOK' /\ LogOK' /\ TodoOK'
      BY <2>2, TypeStep, LogStep, TodoStep DEF IInv
    <3>2. TargetsOK' /\ AskedOK'
      BY <2>2, TargetsStep, AskedStep DEF IInv
    <3>3. ViewIsASnapshot' /\ WayOK'
      BY <2>2, ViewStep, WayStep DEF IInv
    <3> QED BY <3>1, <3>2, <3>3 DEF IInv
  <2> QED BY <2>1, <2>2
<1> QED BY InitIInv, <1>1, PTL DEF Spec

\* When NO_CHANGE tells the client of listen that it is up to date, each of its
\* views is one snapshot of the store, no older than its request.
THEOREM ViewSafety == Spec => []ViewIsASnapshot
<1>1. IInv => ViewIsASnapshot
  BY DEF IInv
<1> QED BY Invariance, <1>1, PTL

=============================================================================
