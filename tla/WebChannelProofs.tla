--------------------------- MODULE WebChannelProofs ---------------------------
(***************************************************************************)
(* Proofs about WebChannel for every script of the browser, every number   *)
(* of handlers, documents, targets and commits, and any number of requests *)
(* that are given up.                                                      *)
(***************************************************************************)
EXTENDS WebChannel, FoldLemmas

Views == [TargetIds -> Snapshot \cup {None}]
NoViews == [id \in TargetIds |-> None]

\* The responses that are pushed, and what one of them makes of a view.
News ==
  {m \in Responses :
     /\ m.kind \in {"add", "remove", "change", "delete", "current"} => m.id \in TargetIds
     /\ m.kind \in {"change", "delete"} => m.name \in Names}
Showing == {t \in Views \X News \X Views : t[3] = Shown(t[1], t[2])}

\* The browser asked for the target, and its message was taken in.
Added(id, taken) == \E n \in taken : script[n] = [kind |-> "add", id |-> id]

\* A view of the target is one snapshot of the log, no older than from.
UpToDate(id, v, from, l) == \E j \in from..Len(l) : v = Matching(id, l[j])

-----------------------------------------------------------------------------
(* The invariant.                                                          *)

\* The log ends with the documents; no target was asked for after it.
LogOK ==
  Len(log) >= 1 /\ log[Len(log)] = docs /\ \A id \in TargetIds : since[id] \in 1..Len(log)

\* Nothing is taken in or carried by a POST that was not posted.
PostedOK ==
  /\ received \subseteq 1..posted
  /\ \A h \in Posts : \A i \in DOMAIN handlers[h].msgs : handlers[h].msgs[i] <= posted

\* A refresh is about targets that the session has.
TodoOK ==
  \A h \in Handlers : handlers[h].step = "refresh" =>
    \A i \in 1..Len(handlers[h].todo) :
      handlers[h].todo[i] \in TargetIds /\ targets[handlers[h].todo[i]] # None

\* A GET leaves no target out, so when its refresh is over all of them are up
\* to date; the one that reached its deadline ends with a noop.
RefreshOK ==
  \A g \in Gets :
    /\ handlers[g].step = "refresh" =>
         \A id \in TargetIds : \/ targets[id] = None
                               \/ UpToDate(id, targets[id], since[id], log)
                               \/ \E i \in 1..Len(handlers[g].todo) : handlers[g].todo[i] = id
    /\ handlers[g].step = "queued" =>
         \/ \A id \in TargetIds : targets[id] = None \/ UpToDate(id, targets[id], since[id], log)
         \/ pushed # <<>> /\ Last(pushed).kind = "noop"

\* The responses make the browser's views of none, by way of what it has got,
\* into what the session takes it to know; only a target that was asked for is
\* ever shown.
WayOK ==
  \E V : /\ Walk(V, Views, News, Showing, NoViews, pushed)
         /\ V[Len(got)] = view /\ V[Len(pushed)] = targets
         /\ \A i \in 0..Len(pushed), id \in TargetIds : V[i][id] # None => Added(id, received)

(* The inductive invariant: beside the properties, who has the lock, which *)
(* messages a POST still stands for, what a queued commit may be, what is  *)
(* kept for the browser, and what that will make of its views.             *)
IInv ==
  /\ TypeOK /\ LockOK /\ PostsOK /\ CommitsOK /\ GetsOK
  /\ LogOK /\ PostedOK /\ TodoOK /\ RefreshOK /\ WayOK
  /\ GotIsAPrefix /\ AppliedOnceInOrder /\ ViewIsASnapshot

-----------------------------------------------------------------------------
(* Facts about sequences and sets.                                         *)

\* The elements of a sequence.
LEMMA SeqElements ==
  ASSUME NEW S, NEW s \in Seq(S)
  PROVE  \A i \in DOMAIN s : s[i] \in S /\ i \in Nat
OBVIOUS

\* A sequence over a set is one over a larger set.
LEMMA SeqOfSubset ==
  ASSUME NEW S, NEW T, S \subseteq T, NEW s \in Seq(S)
  PROVE  s \in Seq(T)
<1>1. /\ Len(s) \in Nat /\ s = [i \in 1..Len(s) |-> s[i]]
      /\ \A i \in 1..Len(s) : s[i] \in T
  OBVIOUS
<1>2. s \in [1..Len(s) -> T]
  BY <1>1
<1> QED BY <1>1, <1>2, SeqDef

\* Tail of a sequence.
LEMMA TailFacts ==
  ASSUME NEW S, NEW s \in Seq(S), s # <<>>
  PROVE  /\ Len(s) \in Nat \ {0} /\ Head(s) = s[1] /\ s[1] \in S
         /\ Tail(s) \in Seq(S) /\ Len(Tail(s)) = Len(s) - 1
         /\ \A i \in 1..(Len(s) - 1) : Tail(s)[i] = s[i + 1]
OBVIOUS

\* One more element at the end.
LEMMA AppendFacts ==
  ASSUME NEW S, NEW s \in Seq(S), NEW e \in S
  PROVE  /\ Append(s, e) \in Seq(S) /\ Len(Append(s, e)) = Len(s) + 1 /\ Len(s) \in Nat
         /\ Append(s, e)[Len(s) + 1] = e
         /\ \A i \in 1..Len(s) : Append(s, e)[i] = s[i]
OBVIOUS

-----------------------------------------------------------------------------
(* Facts about the constants and the handlers.                             *)

\* The constants have their types.
LEMMA ConstantFacts ==
  /\ MaxFailures \in Nat /\ MaxCommits \in Nat /\ IsFiniteSet(Names) /\ IsFiniteSet(TargetIds)
  /\ Posts \cap Gets = {} /\ None \notin Handlers /\ TargetIds \subseteq Nat
  /\ \A s \in Sessions : /\ s.script \in Seq([kind : {"write", "add", "remove"}, id : Nat])
                         /\ s.handlers \subseteq Handlers
BY WebChannelAssumption, FeedAssumption DEF Handlers

\* What a handler is.
LEMMA HandlerFacts ==
  ASSUME TypeOK, NEW h \in Handlers
  PROVE  /\ h \in Posts => handlers[h].step \in PostSteps
         /\ h \in Gets => handlers[h].step \in GetSteps
         /\ handlers[h].msgs \in Seq(DOMAIN script) /\ handlers[h].aid \in 0..Len(got)
         /\ handlers[h].todo \in Seq(Nat) /\ handlers[h].live \in BOOLEAN
         /\ script \in Seq([kind : {"write", "add", "remove"}, id : Nat])
BY ConstantFacts DEF TypeOK, HandlersTypeOK, script

\* A place in a sequence.
LEMMA PlaceFacts ==
  ASSUME NEW S, NEW s \in Seq(S), NEW n \in DOMAIN s
  PROVE  n \in Nat \ {0} /\ s[n] \in S
OBVIOUS

\* The message that a handler is at.
LEMMA MessageFacts ==
  ASSUME TypeOK, NEW h \in Handlers, handlers[h].msgs # <<>>
  PROVE  LET n == handlers[h].msgs[1] IN
         /\ Head(handlers[h].msgs) = n /\ n \in DOMAIN script /\ n \in Nat \ {0}
         /\ script[n].id \in Nat
<1> DEFINE n == handlers[h].msgs[1]
           M == [kind : {"write", "add", "remove"}, id : Nat]
<1>1. handlers[h].msgs \in Seq(DOMAIN script) /\ script \in Seq(M)
  BY HandlerFacts
<1>2. Head(handlers[h].msgs) = n /\ n \in DOMAIN script
  BY <1>1, TailFacts
<1> HIDE DEF n, M
<1>3. n \in Nat \ {0} /\ script[n] \in M
  BY <1>1, <1>2, PlaceFacts
<1> QED BY <1>2, <1>3 DEF n, M

\* A step of one handler leaves the others alone.
Only(h) ==
  /\ DOMAIN handlers' = Handlers /\ DOMAIN handlers'[h] = DOMAIN Idle
  /\ \A x \in Handlers : x # h => handlers'[x] = handlers[x]

Kept(h, fields) == \A f \in fields : handlers'[h][f] = handlers[h][f]

\* A handler that returns or is dropped.
LEMMA IdleEffect ==
  ASSUME TypeOK, NEW h \in Handlers, handlers' = [handlers EXCEPT ![h] = Idle]
  PROVE  /\ Only(h) /\ handlers'[h].step = "idle" /\ handlers'[h].msgs = <<>>
         /\ handlers'[h].aid = 0 /\ handlers'[h].live = FALSE /\ handlers'[h].todo = <<>>
BY DEF TypeOK, HandlersTypeOK, Only, Idle

\* A handler that goes on to another step.
LEMMA StepEffect ==
  ASSUME TypeOK, NEW h \in Handlers, NEW step, handlers' = Step(h, step)
  PROVE  Only(h) /\ Kept(h, {"msgs", "todo", "aid", "live"}) /\ handlers'[h].step = step
BY DEF TypeOK, HandlersTypeOK, Only, Kept, Idle, Step

(* What each action does to its handler.                                   *)

\* The lock is taken for the messages, for a refresh or for the noop.
LEMMA TakeLockEffect ==
  ASSUME TypeOK, NEW h \in Handlers, TakeLock(h)
  PROVE  /\ Only(h) /\ Kept(h, {"msgs", "aid", "live"}) /\ handlers'[h].todo \in Seq(Nat)
         /\ handlers[h].step \in {"wait", "late"}
         /\ h \in Posts => handlers'[h].step = "process"
         /\ h \notin Posts => handlers'[h].step \in {"refresh", "noop"}
<1> DEFINE ids == {id \in TargetIds : targets[id] # None}
<1>1. InOrder(ids) \in Seq(Nat)
  <2>1. ids \subseteq TargetIds /\ ids \subseteq Nat
    BY ConstantFacts
  <2> HIDE DEF ids
  <2>2. IsFiniteSet(ids)
    <3>1. IsFiniteSet(TargetIds) /\ ids \in SUBSET TargetIds
      BY <2>1, ConstantFacts
    <3> QED BY <3>1, FS_Subset
  <2>3. InOrder(ids) \in Seq(ids)
    BY <2>1, <2>2, InOrderFacts
  <2> QED BY <2>1, <2>3, SeqOfSubset
<1> HIDE DEF ids
<1>2. \/ handlers' = Step(h, IF h \in Posts THEN "process" ELSE "noop")
      \/ /\ h \notin Posts
         /\ handlers' = [handlers EXCEPT ![h].step = "refresh", ![h].changed = FALSE,
                           ![h].initial = FALSE, ![h].todo = InOrder(ids)]
  BY DEF TakeLock, ids
<1>3. handlers[h].step \in {"wait", "late"}
  BY DEF TakeLock
<1>4. CASE handlers' = Step(h, IF h \in Posts THEN "process" ELSE "noop")
  BY <1>3, <1>4, HandlerFacts, StepEffect DEF Kept
<1>5. CASE /\ h \notin Posts
           /\ handlers' = [handlers EXCEPT ![h].step = "refresh", ![h].changed = FALSE,
                             ![h].initial = FALSE, ![h].todo = InOrder(ids)]
  <2> DEFINE s == InOrder(ids)
  <2>1. s \in Seq(Nat)
    BY <1>1
  <2> HIDE DEF s
  <2>2. handlers' = [handlers EXCEPT ![h].step = "refresh", ![h].changed = FALSE,
                       ![h].initial = FALSE, ![h].todo = s]
    BY <1>5 DEF s
  <2> QED BY SMTT(30), <1>3, <1>5, <2>1, <2>2 DEF TypeOK, HandlersTypeOK, Only, Kept, Idle
<1> QED BY <1>2, <1>4, <1>5

\* A message is passed over, answered at once, or becomes a commit.
LEMMA ProcessEffect ==
  ASSUME TypeOK, NEW h \in Handlers, Process(h)
  PROVE  /\ Only(h) /\ Kept(h, {"aid", "live"}) /\ handlers'[h].todo \in Seq(Nat)
         /\ handlers[h].step = "process" /\ handlers[h].msgs # <<>>
         /\ received' = received \cup {handlers[h].msgs[1]}
         /\ \/ /\ handlers'[h].msgs = Tail(handlers[h].msgs)
               /\ handlers'[h].step \in {"process", "refresh"}
            \/ /\ handlers'[h].msgs = handlers[h].msgs /\ handlers'[h].step = "commit"
               /\ handlers[h].msgs[1] \notin received
<1>1. handlers[h].msgs # <<>> /\ Head(handlers[h].msgs) = handlers[h].msgs[1]
  BY HandlerFacts, TailFacts DEF Process
<1>2. DOMAIN handlers = Handlers /\ DOMAIN handlers[h] = DOMAIN Idle
  BY DEF TypeOK, HandlersTypeOK
<1> DEFINE n == Head(handlers[h].msgs)
           rest == [handlers EXCEPT ![h].msgs = Tail(@)]
           added == [rest EXCEPT ![h].step = "refresh", ![h].todo = <<script[n].id>>,
                       ![h].changed = FALSE, ![h].initial = TRUE]
<1>3. /\ received' = received \cup {n} /\ handlers[h].step = "process"
      /\ \/ handlers' = rest
         \/ handlers' = Step(h, "commit") /\ n \notin received
         \/ handlers' = added
  BY DEF Process, Fresh
<1>4. CASE handlers' = rest
  <2>1. /\ Only(h) /\ Kept(h, {"step", "todo", "aid", "live"})
        /\ handlers'[h].msgs = Tail(handlers[h].msgs)
    BY <1>2, <1>4 DEF Only, Kept, Idle
  <2> QED BY <1>1, <1>3, <2>1, HandlerFacts DEF Kept
<1>5. CASE handlers' = Step(h, "commit") /\ n \notin received
  <2>1. Only(h) /\ Kept(h, {"msgs", "todo", "aid", "live"}) /\ handlers'[h].step = "commit"
    BY <1>5, StepEffect
  <2> QED BY <1>1, <1>3, <1>5, <2>1, HandlerFacts DEF Kept
<1>6. CASE handlers' = added
  <2>1. DOMAIN rest = Handlers /\ DOMAIN rest[h] = DOMAIN Idle
    BY <1>2 DEF Idle
  <2>2. /\ \A x \in Handlers : x # h => rest[x] = handlers[x]
        /\ rest[h].msgs = Tail(handlers[h].msgs) /\ rest[h].aid = handlers[h].aid
        /\ rest[h].live = handlers[h].live
    BY <1>2 DEF Idle
  <2> HIDE DEF rest
  <2>3. /\ Only(h) /\ handlers'[h].step = "refresh" /\ handlers'[h].msgs = rest[h].msgs
        /\ handlers'[h].todo = <<script[n].id>>
        /\ handlers'[h].aid = rest[h].aid /\ handlers'[h].live = rest[h].live
    BY <1>6, <2>1, <2>2 DEF Only, Idle
  <2>4. <<script[n].id>> \in Seq(Nat)
    <3>1. n = handlers[h].msgs[1]
      BY <1>1
    <3>2. script[n].id \in Nat
      BY <1>1, <3>1, MessageFacts
    <3> QED BY <3>2
  <2> QED BY <1>1, <1>3, <2>2, <2>3, <2>4 DEF Kept
<1> QED BY <1>3, <1>4, <1>5, <1>6

\* The commit of the first message is queued or refused.
LEMMA QueueCommitEffect ==
  ASSUME TypeOK, NEW h \in Handlers, QueueCommit(h)
  PROVE  /\ Only(h) /\ Kept(h, {"msgs", "todo", "aid", "live"})
         /\ handlers[h].step = "commit"
         /\ \/ queue' = Append(queue, Head(handlers[h].msgs)) /\ handlers'[h].step = "job"
            \/ UNCHANGED queue /\ handlers'[h].step = "result"
<1>1. handlers' = Step(h, "job") \/ handlers' = Step(h, "result")
  BY DEF QueueCommit
<1>2. "job" # "result"
  OBVIOUS
<1> QED BY <1>1, <1>2, StepEffect DEF QueueCommit

\* A handler may learn that its commit took effect.
LEMMA RunCommitEffect ==
  ASSUME TypeOK, RunCommit
  PROVE  /\ DOMAIN handlers' = Handlers
         /\ \A h \in Handlers :
              /\ DOMAIN handlers'[h] = DOMAIN Idle /\ Kept(h, {"msgs", "todo", "aid", "live"})
              /\ \/ handlers'[h].step = handlers[h].step
                 \/ handlers[h].step = "job" /\ handlers'[h].step = "result"
BY DEF TypeOK, HandlersTypeOK, RunCommit, Kept, Idle

\* The first message is done.
LEMMA PushResultEffect ==
  ASSUME TypeOK, NEW h \in Handlers, PushResult(h)
  PROVE  /\ Only(h) /\ Kept(h, {"todo", "aid", "live"})
         /\ handlers[h].step = "result" /\ handlers'[h].step = "process"
         /\ handlers'[h].msgs = Tail(handlers[h].msgs)
BY DEF TypeOK, HandlersTypeOK, PushResult, Only, Kept, Idle

\* The first target is done.
LEMMA RefreshEffect ==
  ASSUME TypeOK, NEW h \in Handlers, Refresh(h)
  PROVE  /\ Only(h) /\ Kept(h, {"step", "msgs", "aid", "live"}) /\ handlers[h].step = "refresh"
         /\ handlers[h].todo # <<>> /\ handlers'[h].todo = Tail(handlers[h].todo)
BY DEF TypeOK, HandlersTypeOK, Refresh, Only, Kept, Idle

\* Only the browser stops waiting.
LEMMA GiveUpEffect ==
  ASSUME TypeOK, NEW h \in Handlers, GiveUp(h)
  PROVE  Only(h) /\ Kept(h, {"step", "msgs", "todo", "aid"}) /\ handlers'[h].live = FALSE
BY DEF TypeOK, HandlersTypeOK, GiveUp, Only, Kept, Idle

\* A POST carries what was not acknowledged up to the last message posted.
LEMMA SendPostEffect ==
  ASSUME TypeOK, NEW h \in Handlers, SendPost(h)
  PROVE  /\ Only(h) /\ handlers'[h].step = "wait" /\ handlers'[h].live = TRUE
         /\ handlers'[h].aid = 0 /\ handlers'[h].todo = <<>>
         /\ handlers'[h].msgs = [i \in 1..(posted' - acked) |-> acked + i]
         /\ posted' \in Nat /\ acked < posted' /\ posted' <= Len(script)
         /\ \A p \in Posts : ~handlers[p].live
<1>1. posted' \in Nat /\ acked < posted' /\ posted' <= Len(script)
  BY SMTT(30), HandlerFacts DEF TypeOK, SendPost
<1>2. /\ Only(h) /\ handlers'[h].step = "wait" /\ handlers'[h].live = TRUE
      /\ handlers'[h].aid = 0 /\ handlers'[h].todo = <<>>
      /\ handlers'[h].msgs = [i \in 1..(posted' - acked) |-> acked + i]
  BY DEF TypeOK, HandlersTypeOK, SendPost, Only, Idle
<1> QED BY <1>1, <1>2 DEF SendPost

\* A GET acknowledges what the browser has got.
LEMMA SendGetEffect ==
  ASSUME TypeOK, NEW h \in Handlers, SendGet(h)
  PROVE  /\ Only(h) /\ handlers'[h].step = "wait" /\ handlers'[h].live = TRUE
         /\ handlers'[h].aid = Len(got) /\ handlers'[h].msgs = <<>> /\ handlers'[h].todo = <<>>
         /\ \A g \in Gets : ~handlers[g].live
BY DEF TypeOK, HandlersTypeOK, SendGet, Only, Idle

-----------------------------------------------------------------------------
(* What is pushed: at every step but the answer of a GET the responses     *)
(* grow at their end, and the new ones are kept.                           *)
Grown ==
  /\ pushed' \in Seq(Responses) /\ Len(pushed) <= Len(pushed')
  /\ \A i \in 1..Len(pushed) : pushed'[i] = pushed[i]
  /\ messages' = messages \cup ((Len(pushed) + 1)..Len(pushed'))

\* Nothing is pushed.
LEMMA SameGrown ==
  ASSUME TypeOK, UNCHANGED <<pushed, messages>>
  PROVE  Grown
BY DEF TypeOK, Grown

\* Responses are pushed.
LEMMA PushGrown ==
  ASSUME TypeOK, NEW r \in Seq(Responses), Push(r)
  PROVE  Grown
<1>1. /\ pushed \in Seq(Responses) /\ pushed' = pushed \o r
      /\ messages' = messages \cup ((Len(pushed) + 1)..(Len(pushed) + Len(r)))
  BY DEF TypeOK, Push
<1>2. /\ pushed \o r \in Seq(Responses) /\ Len(pushed \o r) = Len(pushed) + Len(r)
      /\ Len(pushed) \in Nat /\ Len(r) \in Nat
      /\ \A i \in 1..Len(pushed) : (pushed \o r)[i] = pushed[i]
  BY <1>1
<1> QED BY <1>1, <1>2 DEF Grown

\* One response is pushed that names no document.
LEMMA PushOneGrown ==
  ASSUME TypeOK, NEW kind \in Kinds, NEW id \in Nat \cup {None}, Push(<<Response(kind, id, None, 0)>>)
  PROVE  Grown
<1>1. Response(kind, id, None, 0) \in Responses
  BY ConstantFacts DEF Responses, Response, Version
<1>2. <<Response(kind, id, None, 0)>> \in Seq(Responses)
  BY <1>1
<1> QED BY <1>2, PushGrown

\* What a message pushes.
LEMMA ProcessGrown ==
  ASSUME TypeOK, NEW h \in Handlers, Process(h)
  PROVE  Grown
<1> DEFINE n == Head(handlers[h].msgs)
<1>0. handlers[h].msgs # <<>>
  BY DEF Process
<1>1. n \in Nat /\ script[n].id \in Nat
  BY <1>0, MessageFacts
<1>3. \/ UNCHANGED <<pushed, messages>>
      \/ Push(<<Response("stream", n, None, 0)>>)
      \/ Push(<<Response("add", script[n].id, None, 0)>>)
      \/ Push(<<Response("remove", script[n].id, None, 0)>>)
  BY DEF Process
<1> HIDE DEF n
<1> QED BY <1>1, <1>3, SameGrown, PushOneGrown DEF Kinds

\* What a commit pushes.
LEMMA PushResultGrown ==
  ASSUME TypeOK, CommitsOK, NEW h \in Handlers, PushResult(h)
  PROVE  Grown
<1>1. Head(handlers[h].msgs) \in Nat
  BY HandlerFacts, TailFacts DEF PushResult, CommitsOK
<1> QED BY <1>1, PushOneGrown DEF PushResult, Kinds

\* The documents' versions are versions.
LEMMA MatchingType ==
  ASSUME TypeOK, NEW id
  PROVE  Matching(id, docs) \in Snapshot
BY ConstantFacts DEF TypeOK, FeedTypeOK, Matching, Snapshot, Version

\* A response for each document of a set.
LEMMA EachType ==
  ASSUME TypeOK, NEW S, S \subseteq Names, NEW Each,
         Each = [i \in DOMAIN SetToSeq(S) |-> Each[i]],
         \A i \in DOMAIN SetToSeq(S) : SetToSeq(S)[i] \in Names => Each[i] \in Responses
  PROVE  Each \in Seq(Responses)
<1>1. IsFiniteSet(S)
  BY ConstantFacts, FS_Subset
<1>2. SetToSeq(S) \in [1..Cardinality(S) -> S] /\ Cardinality(S) \in Nat
  BY <1>1, SetToSeqFacts
<1>3. Each \in [1..Cardinality(S) -> Responses]
  BY <1>2
<1> QED BY <1>2, <1>3, SeqDef

\* What the refresh of a target pushes.
LEMMA RefreshGrown ==
  ASSUME TypeOK, NEW h \in Handlers, Refresh(h)
  PROVE  Grown
<1> DEFINE id == Head(handlers[h].todo)
           current == Matching(id, docs)
           changed == Changes(id, current)
           removed == Removals(id, current)
           changes == [i \in DOMAIN SetToSeq(changed) |->
                         Response("change", id, SetToSeq(changed)[i], current[SetToSeq(changed)[i]])]
           deletes == [i \in DOMAIN SetToSeq(removed) |->
                         Response("delete", id, SetToSeq(removed)[i], 0)]
           last == IF handlers[h].initial THEN <<Response("current", id, None, 0)>> ELSE <<>>
<1>1. Push((changes \o deletes) \o last)
  BY DEF Refresh
<1>2. id \in Nat
  <2>1. handlers[h].todo \in Seq(Nat) /\ handlers[h].todo # <<>>
    BY HandlerFacts DEF Refresh
  <2> QED BY <2>1, TailFacts
<1>3. current \in Snapshot
  BY MatchingType
<1>4. changed \subseteq Names /\ removed \subseteq Names
  BY DEF Changes, Removals
<1> HIDE DEF id, current, changed, removed
<1>5. /\ \A n \in Names : /\ Response("change", id, n, current[n]) \in Responses
                          /\ Response("delete", id, n, 0) \in Responses
      /\ Response("current", id, None, 0) \in Responses
  BY <1>2, <1>3, ConstantFacts DEF Response, Responses, Kinds, Snapshot, Version
<1>6. changes \in Seq(Responses)
  <2>1. changes = [i \in DOMAIN SetToSeq(changed) |-> changes[i]]
    OBVIOUS
  <2>2. \A i \in DOMAIN SetToSeq(changed) :
          SetToSeq(changed)[i] \in Names => changes[i] \in Responses
    BY <1>5
  <2> HIDE DEF changes
  <2> QED BY <1>4, <2>1, <2>2, EachType
<1>7. deletes \in Seq(Responses)
  <2>1. deletes = [i \in DOMAIN SetToSeq(removed) |-> deletes[i]]
    OBVIOUS
  <2>2. \A i \in DOMAIN SetToSeq(removed) :
          SetToSeq(removed)[i] \in Names => deletes[i] \in Responses
    BY <1>5
  <2> HIDE DEF deletes
  <2> QED BY <1>4, <2>1, <2>2, EachType
<1>8. last \in Seq(Responses)
  BY <1>5
<1> HIDE DEF changes, deletes, last
<1>9. (changes \o deletes) \o last \in Seq(Responses)
  BY <1>6, <1>7, <1>8
<1> QED BY <1>1, <1>9, PushGrown

\* What the end of a refresh pushes.
LEMMA RefreshedGrown ==
  ASSUME TypeOK, NEW h \in Handlers, Refreshed(h)
  PROVE  Grown
<1>1. Push(<<Response("no_change", None, None, 0)>>) \/ UNCHANGED <<pushed, messages>>
  BY DEF Refreshed
<1> QED BY <1>1, SameGrown, PushOneGrown DEF Kinds

\* What a failed refresh pushes.
LEMMA RefreshFailsGrown ==
  ASSUME TypeOK, NEW h \in Handlers, RefreshFails(h)
  PROVE  Grown
<1>1. Push(<<Response("error", None, None, 0)>>) \/ UNCHANGED <<pushed, messages>>
  BY DEF RefreshFails
<1> QED BY <1>1, SameGrown, PushOneGrown DEF Kinds

\* What the deadline pushes.
LEMMA NoopGrown ==
  ASSUME TypeOK, NEW h \in Handlers, Noop(h)
  PROVE  Grown
BY PushOneGrown DEF Noop, Kinds

\* The steps, by whose they are.
LEMMA NextCases ==
  ASSUME Next
  PROVE  \/ Store \/ RunCommit \/ Terminate
         \/ \E h \in Handlers : TakeLock(h) \/ Refresh(h) \/ Refreshed(h) \/ RefreshFails(h)
         \/ \E h \in Posts : Process(h) \/ QueueCommit(h) \/ PushResult(h) \/ AnswerPost(h)
         \/ \E h \in Gets : Noop(h) \/ AnswerGet(h) \/ Wake(h)
         \/ \E h \in Handlers : GiveUp(h) \/ Drop(h)
         \/ \E h \in Posts : SendPost(h)
         \/ \E h \in Gets : SendGet(h)
BY DEF Next, Handler, Post, Get, Handlers

\* Every step but the answer of a GET.
LEMMA NextGrown ==
  ASSUME TypeOK, CommitsOK, Next, \A h \in Gets : ~AnswerGet(h)
  PROVE  Grown /\ UNCHANGED <<got, view>>
<1>1. CASE \E h \in Handlers : Process(h)
  <2>1. UNCHANGED <<got, view>>
    BY <1>1 DEF Process
  <2> QED BY <1>1, <2>1, ProcessGrown
<1>2. CASE \E h \in Handlers : PushResult(h)
  BY <1>2, PushResultGrown DEF PushResult
<1>3. CASE \E h \in Handlers : Refresh(h)
  BY <1>3, RefreshGrown DEF Refresh
<1>4. CASE \E h \in Handlers : Refreshed(h)
  BY <1>4, RefreshedGrown DEF Refreshed
<1>5. CASE \E h \in Handlers : RefreshFails(h)
  BY <1>5, RefreshFailsGrown DEF RefreshFails
<1>6. CASE \E h \in Handlers : Noop(h)
  BY <1>6, NoopGrown DEF Noop
<1>7. CASE Store \/ RunCommit \/ Terminate
  BY <1>7, SameGrown DEF Store, RunCommit, Terminate, webVars
<1>8. CASE \E h \in Handlers : TakeLock(h) \/ QueueCommit(h) \/ AnswerPost(h) \/ Wake(h)
                               \/ GiveUp(h) \/ Drop(h) \/ SendPost(h) \/ SendGet(h)
  BY <1>8, SameGrown DEF TakeLock, QueueCommit, AnswerPost, Wake, GiveUp, Drop, SendPost, SendGet
<1> QED BY <1>1, <1>2, <1>3, <1>4, <1>5, <1>6, <1>7, <1>8 DEF Next, Handler, Post, Get, Handlers

-----------------------------------------------------------------------------
(* Type correctness.                                                       *)

\* The answer brings the queued responses.
Answered(h, body) ==
  /\ body \in Seq(Responses) /\ Len(body) = Cardinality(Queued(h)) /\ Len(body) > 0
  /\ \A i \in 1..Len(body) : body[i] = pushed[InOrder(Queued(h))[i]]
  /\ got' = got \o body /\ view' = FoldLeft(Shown, view, body)

\* The answer of a GET, in its three outcomes.
LEMMA AnswerGetEffect ==
  ASSUME TypeOK, NEW h \in Gets, AnswerGet(h)
  PROVE  /\ Only(h) /\ messages' = Queued(h) /\ pushed' = pushed /\ lock' = Unlocked(h)
         /\ handlers[h].step = "queued"
         /\ \/ /\ Kept(h, {"msgs", "todo", "aid", "live"}) /\ handlers'[h].step = "hang"
               /\ UNCHANGED <<got, view>>
            \/ /\ handlers' = [handlers EXCEPT ![h] = Idle]
               /\ \/ ~handlers[h].live /\ UNCHANGED <<got, view>>
                  \/ handlers[h].live /\ \E body : Answered(h, body)
<1> DEFINE queued == Queued(h)
           numbers == InOrder(queued)
           body == [i \in DOMAIN numbers |-> pushed[numbers[i]]]
<1>1. h \in Handlers
  BY DEF Handlers
<1>2. queued \subseteq DOMAIN pushed /\ pushed \in Seq(Responses) /\ Len(pushed) \in Nat
  BY DEF TypeOK, Queued
<1>3. queued \subseteq Nat /\ IsFiniteSet(queued)
  <2>1. DOMAIN pushed = 1..Len(pushed) /\ 1..Len(pushed) \subseteq Nat
    BY <1>2
  <2>2. IsFiniteSet(1..Len(pushed))
    BY <1>2, FS_Interval
  <2> HIDE DEF queued
  <2> QED BY <1>2, <2>1, <2>2, FS_Subset
<1>4. numbers \in Seq(queued) /\ Len(numbers) = Cardinality(queued)
  <2> HIDE DEF queued
  <2> QED BY <1>3, InOrderFacts
<1>5. body \in Seq(Responses) /\ Len(body) = Len(numbers)
  <2> HIDE DEF queued, numbers
  <2>1. /\ DOMAIN numbers = 1..Len(numbers) /\ Len(numbers) \in Nat
        /\ \A i \in 1..Len(numbers) : pushed[numbers[i]] \in Responses
    BY <1>2, <1>4
  <2>2. body \in [1..Len(numbers) -> Responses]
    BY <2>1
  <2> QED BY <2>1, <2>2, SeqDef
<1>6. \A i \in 1..Len(body) : body[i] = pushed[numbers[i]]
  <2> HIDE DEF queued, numbers
  <2> QED BY <1>4, <1>5
<1>7. /\ messages' = queued /\ pushed' = pushed /\ lock' = Unlocked(h)
      /\ handlers[h].step = "queued"
      /\ \/ handlers' = Step(h, "hang") /\ UNCHANGED <<got, view>>
         \/ /\ handlers' = [handlers EXCEPT ![h] = Idle] /\ numbers # <<>>
            /\ IF handlers[h].live THEN got' = got \o body /\ view' = FoldLeft(Shown, view, body)
               ELSE UNCHANGED <<got, view>>
  BY DEF AnswerGet
<1>a. numbers # <<>> => Len(numbers) > 0
  <2> HIDE DEF queued, numbers
  <2> QED BY <1>4
<1>8. numbers # <<>> /\ got' = got \o body /\ view' = FoldLeft(Shown, view, body) => Answered(h, body)
  <2> HIDE DEF body
  <2> QED BY <1>4, <1>5, <1>6, <1>a DEF Answered
<1> HIDE DEF body
<1>9. handlers[h].live \in BOOLEAN
  BY <1>1, HandlerFacts
<1>10. CASE handlers' = Step(h, "hang") /\ UNCHANGED <<got, view>>
  BY <1>1, <1>7, <1>10, StepEffect
<1>11. CASE /\ handlers' = [handlers EXCEPT ![h] = Idle] /\ numbers # <<>>
            /\ IF handlers[h].live THEN got' = got \o body /\ view' = FoldLeft(Shown, view, body)
               ELSE UNCHANGED <<got, view>>
  <2>1. Only(h)
    BY <1>1, <1>11, IdleEffect
  <2> QED BY <1>7, <1>8, <1>9, <1>11, <2>1
<1> QED BY <1>7, <1>10, <1>11

\* The responses and what the browser has of them, which only grows.
LEMMA PushedType ==
  ASSUME TypeOK, CommitsOK, Next
  PROVE  /\ {pushed', got'} \subseteq Seq(Responses) /\ messages' \subseteq DOMAIN pushed'
         /\ Len(got) \in Nat /\ Len(got') \in Nat /\ Len(got) <= Len(got')
<1>1. CASE \E h \in Gets : AnswerGet(h)
  <2>1. PICK h \in Gets : AnswerGet(h)
    BY <1>1
  <2>2. pushed' = pushed /\ messages' \subseteq messages
    BY <2>1, AnswerGetEffect DEF Queued
  <2>3. got' = got \/ \E body : Answered(h, body)
    BY <2>1, AnswerGetEffect
  <2>4. \A body \in Seq(Responses) : /\ got \o body \in Seq(Responses)
                                    /\ Len(got \o body) = Len(got) + Len(body)
                                    /\ Len(body) \in Nat /\ Len(got) \in Nat
    BY DEF TypeOK
  <2>5. got \in Seq(Responses) /\ Len(got) \in Nat
    BY DEF TypeOK
  <2>6. got' \in Seq(Responses) /\ Len(got') \in Nat /\ Len(got) <= Len(got')
    <3>1. CASE got' = got
      BY <2>5, <3>1
    <3>2. CASE \E body : Answered(h, body)
      <4>1. PICK body : Answered(h, body)
        BY <3>2
      <4>2. body \in Seq(Responses) /\ got' = got \o body
        BY <4>1 DEF Answered
      <4> QED BY <2>4, <4>2
    <3> QED BY <2>3, <3>1, <3>2
  <2> QED BY <2>2, <2>5, <2>6 DEF TypeOK
<1>2. CASE \A h \in Gets : ~AnswerGet(h)
  <2>1. Grown /\ got' = got
    BY <1>2, NextGrown
  <2>2. /\ pushed \in Seq(Responses) /\ Len(pushed) \in Nat /\ messages \subseteq 1..Len(pushed)
        /\ got \in Seq(Responses) /\ Len(got) \in Nat
    BY DEF TypeOK
  <2>3. DOMAIN pushed' = 1..Len(pushed') /\ Len(pushed') \in Nat
    BY <2>1 DEF Grown
  <2>4. messages' \subseteq DOMAIN pushed'
    <3>1. \A a, b \in Nat : a <= b => (1..a) \cup ((a + 1)..b) \subseteq 1..b
      OBVIOUS
    <3>2. (1..Len(pushed)) \cup ((Len(pushed) + 1)..Len(pushed')) \subseteq 1..Len(pushed')
      BY <2>1, <2>2, <2>3, <3>1 DEF Grown
    <3> QED BY <2>1, <2>2, <2>3, <3>2 DEF Grown
  <2> QED BY <2>1, <2>2, <2>4 DEF Grown
<1> QED BY <1>1, <1>2

\* Only the store changes the documents.
LEMMA QuietFeed ==
  ASSUME Next, ~Store
  PROVE  UNCHANGED feedVars
<1>1. CASE RunCommit \/ Terminate
  BY <1>1 DEF RunCommit, Terminate
<1>2. CASE \E h \in Handlers : TakeLock(h) \/ Refresh(h) \/ Refreshed(h) \/ RefreshFails(h)
  BY <1>2 DEF TakeLock, Refresh, Refreshed, RefreshFails
<1>3. CASE \E h \in Posts : Process(h) \/ QueueCommit(h) \/ PushResult(h) \/ AnswerPost(h)
  <2>1. PICK h \in Posts : Process(h) \/ QueueCommit(h) \/ PushResult(h) \/ AnswerPost(h)
    BY <1>3
  <2>2. Process(h) => UNCHANGED feedVars
    BY DEF Process
  <2> QED BY <2>1, <2>2 DEF QueueCommit, PushResult, AnswerPost
<1>4. CASE \E h \in Gets : Noop(h) \/ AnswerGet(h) \/ Wake(h)
  BY <1>4 DEF Noop, AnswerGet, Wake
<1>5. CASE \E h \in Handlers : GiveUp(h) \/ Drop(h) \/ SendPost(h) \/ SendGet(h)
  BY <1>5 DEF GiveUp, Drop, SendPost, SendGet
<1> QED BY <1>1, <1>2, <1>3, <1>4, <1>5, NextCases DEF Handlers

\* The documents keep their type.
LEMMA FeedType ==
  ASSUME TypeOK, Next
  PROVE  FeedTypeOK'
<1>1. CASE Store
  <2>1. Change /\ UNCHANGED <<unsent, missed>>
    BY <1>1 DEF Store
  <2>2. log \in Seq(Snapshot) /\ Len(log) \in Nat
    BY DEF TypeOK, FeedTypeOK
  <2>3. docs' \in Snapshot
    BY <2>1, <2>2, ConstantFacts DEF Change, TypeOK, FeedTypeOK, Snapshot, Version
  <2>4. log' \in Seq(Snapshot)
    BY <2>1, <2>2, <2>3 DEF Change
  <2> QED BY <2>1, <2>3, <2>4 DEF TypeOK, FeedTypeOK, Change
<1>2. CASE ~Store
  <2>1. UNCHANGED feedVars
    BY <1>2, QuietFeed
  <2> QED BY <2>1 DEF TypeOK, FeedTypeOK, feedVars
<1> QED BY <1>1, <1>2

\* The handlers' records after a step of one of them.
Typed(h) ==
  /\ h \in Posts => handlers'[h].step \in PostSteps
  /\ h \in Gets => handlers'[h].step \in GetSteps
  /\ handlers'[h].msgs \in Seq(DOMAIN script) /\ handlers'[h].todo \in Seq(Nat)
  /\ handlers'[h].aid \in 0..Len(got) /\ handlers'[h].live \in BOOLEAN

\* One handler changed, and its record is one.
LEMMA OneHandlerType ==
  ASSUME TypeOK, CommitsOK, Next, UNCHANGED session, NEW h \in Handlers, Only(h), Typed(h)
  PROVE  HandlersTypeOK'
<1>1. \A n \in 0..Len(got) : n \in 0..Len(got')
  <2>1. \A a, b \in Nat : a <= b => \A n \in 0..a : n \in 0..b
    OBVIOUS
  <2> QED BY <2>1, PushedType
<1>2. /\ DOMAIN handlers' = Handlers /\ DOMAIN handlers'[h] = DOMAIN Idle
      /\ \A x \in Handlers : x # h => handlers'[x] = handlers[x]
  BY DEF Only
<1>3. \A x \in Handlers :
        /\ DOMAIN handlers'[x] = DOMAIN Idle
        /\ handlers'[x].step \in IF x \in Posts THEN PostSteps ELSE GetSteps
        /\ handlers'[x].msgs \in Seq(DOMAIN script) /\ handlers'[x].aid \in 0..Len(got)
        /\ handlers'[x].todo \in Seq(Nat) /\ handlers'[x].live \in BOOLEAN
  BY <1>2 DEF TypeOK, HandlersTypeOK, Typed, Handlers
<1>4. script' = script
  BY DEF script
<1> QED BY <1>1, <1>2, <1>3, <1>4 DEF HandlersTypeOK

\* No handler changed, or one learnt that its commit took effect.
LEMMA SameHandlersType ==
  ASSUME TypeOK, CommitsOK, Next, UNCHANGED session,
         DOMAIN handlers' = Handlers,
         \A h \in Handlers : /\ DOMAIN handlers'[h] = DOMAIN Idle
                             /\ Kept(h, {"msgs", "todo", "aid", "live"})
                             /\ \/ handlers'[h].step = handlers[h].step
                                \/ handlers[h].step = "job" /\ handlers'[h].step = "result"
  PROVE  HandlersTypeOK'
<1>1. \A n \in 0..Len(got) : n \in 0..Len(got')
  <2>1. \A a, b \in Nat : a <= b => \A n \in 0..a : n \in 0..b
    OBVIOUS
  <2> QED BY <2>1, PushedType
<1>2. \A x \in Handlers :
        /\ handlers'[x].step \in IF x \in Posts THEN PostSteps ELSE GetSteps
        /\ handlers'[x].msgs \in Seq(DOMAIN script) /\ handlers'[x].aid \in 0..Len(got)
        /\ handlers'[x].todo \in Seq(Nat) /\ handlers'[x].live \in BOOLEAN
  BY DEF TypeOK, HandlersTypeOK, Kept, PostSteps, GetSteps
<1>3. script' = script
  BY DEF script
<1> QED BY <1>1, <1>2, <1>3 DEF HandlersTypeOK

\* The handlers' records after every step.
LEMMA HandlersTypeStep ==
  ASSUME TypeOK, CommitsOK, Next
  PROVE  HandlersTypeOK'
<1> DEFINE Goal == HandlersTypeOK'
<1>a. ASSUME NEW h \in Handlers, Only(h), Typed(h), UNCHANGED session PROVE Goal
  BY <1>a, OneHandlerType
<1>1. ASSUME Store \/ Terminate PROVE Goal
  BY <1>1, SameHandlersType DEF TypeOK, HandlersTypeOK, Store, Terminate, webVars, Kept
<1>2. ASSUME RunCommit PROVE Goal
  BY <1>2, RunCommitEffect, SameHandlersType DEF RunCommit
<1> HIDE DEF Goal
<1>b. <<>> \in Seq(DOMAIN script) /\ <<>> \in Seq(Nat) /\ 0 \in 0..Len(got) /\ Len(got) \in 0..Len(got)
  BY PushedType
<1>3. ASSUME NEW h \in Handlers, TakeLock(h) \/ Refresh(h) \/ Refreshed(h) PROVE Goal
  <2>1. UNCHANGED session
    BY <1>3 DEF TakeLock, Refresh, Refreshed
  <2>2. CASE TakeLock(h)
    <3>1. Only(h) /\ Kept(h, {"msgs", "aid", "live"}) /\ handlers'[h].todo \in Seq(Nat)
      BY <2>2, TakeLockEffect
    <3>2. /\ h \in Posts => handlers'[h].step \in PostSteps
          /\ h \in Gets => handlers'[h].step \in GetSteps
      BY <2>2, TakeLockEffect, ConstantFacts DEF PostSteps, GetSteps
    <3>3. Typed(h)
      BY <3>1, <3>2, HandlerFacts DEF Typed, Kept
    <3> QED BY <1>a, <2>1, <3>1, <3>3
  <2>3. CASE Refresh(h)
    <3>1. Tail(handlers[h].todo) \in Seq(Nat)
      BY <2>3, RefreshEffect, HandlerFacts, TailFacts
    <3>2. Only(h) /\ Typed(h)
      BY <2>3, <3>1, RefreshEffect, HandlerFacts DEF Kept, Typed
    <3> QED BY <1>a, <2>1, <3>2
  <2>4. CASE Refreshed(h)
    <3>1. PICK step \in {"process", "queued"} :
            handlers' = Step(h, step) /\ (step = "process" <=> h \in Posts)
      BY <2>4 DEF Refreshed
    <3>2. Only(h) /\ Typed(h)
      <4>1. Only(h) /\ Kept(h, {"msgs", "todo", "aid", "live"}) /\ handlers'[h].step = step
        BY <3>1, StepEffect
      <4>2. /\ h \in Posts => handlers'[h].step \in PostSteps
            /\ h \in Gets => handlers'[h].step \in GetSteps
        BY <3>1, <4>1, ConstantFacts DEF PostSteps, GetSteps
      <4> QED BY <4>1, <4>2, HandlerFacts DEF Kept, Typed
    <3> QED BY <1>a, <2>1, <3>2
  <2> QED BY <1>3, <2>2, <2>3, <2>4
<1>4. ASSUME NEW h \in Handlers, handlers' = [handlers EXCEPT ![h] = Idle], UNCHANGED session
      PROVE  Goal
  <2>1. Only(h) /\ Typed(h)
    BY <1>4, <1>b, IdleEffect DEF Typed, PostSteps, GetSteps
  <2> QED BY <1>a, <1>4, <2>1
<1>5. ASSUME NEW h \in Handlers, RefreshFails(h) PROVE Goal
  <2>1. CASE h \in Posts /\ handlers' = Step(h, "process")
    <3>1. Only(h) /\ Typed(h)
      BY <2>1, StepEffect, HandlerFacts, ConstantFacts DEF Kept, Typed, PostSteps
    <3> QED BY <1>a, <1>5, <3>1 DEF RefreshFails
  <2>2. CASE handlers' = [handlers EXCEPT ![h] = Idle]
    BY <1>4, <1>5, <2>2 DEF RefreshFails
  <2> QED BY <1>5, <2>1, <2>2 DEF RefreshFails
<1>6. ASSUME NEW h \in Posts, Process(h) PROVE Goal
  <2>1. h \in Handlers /\ h \notin Gets
    BY ConstantFacts DEF Handlers
  <2>2. Tail(handlers[h].msgs) \in Seq(DOMAIN script)
    BY <1>6, <2>1, ProcessEffect, HandlerFacts, TailFacts
  <2>3. Only(h) /\ Typed(h)
    BY <1>6, <2>1, <2>2, ProcessEffect, HandlerFacts DEF Kept, Typed, PostSteps
  <2> QED BY <1>a, <1>6, <2>1, <2>3 DEF Process
<1>7. ASSUME NEW h \in Posts, QueueCommit(h) \/ PushResult(h) PROVE Goal
  <2>1. h \in Handlers /\ h \notin Gets
    BY ConstantFacts DEF Handlers
  <2>2. CASE QueueCommit(h)
    <3>1. Only(h) /\ Typed(h)
      BY <2>1, <2>2, QueueCommitEffect, HandlerFacts DEF Kept, Typed, PostSteps
    <3> QED BY <1>a, <2>1, <2>2, <3>1 DEF QueueCommit
  <2>3. CASE PushResult(h)
    <3>1. handlers[h].msgs \in Seq(DOMAIN script) /\ handlers[h].msgs # <<>>
      BY <2>1, <2>3, HandlerFacts DEF PushResult, CommitsOK
    <3>2. Tail(handlers[h].msgs) \in Seq(DOMAIN script)
      BY <3>1, TailFacts
    <3>3. Only(h) /\ Typed(h)
      BY <2>1, <2>3, <3>2, PushResultEffect, HandlerFacts DEF Kept, Typed, PostSteps
    <3> QED BY <1>a, <2>1, <2>3, <3>3 DEF PushResult
  <2> QED BY <1>7, <2>2, <2>3
<1>8. ASSUME NEW h \in Gets, Noop(h) \/ Wake(h) \/ AnswerGet(h) PROVE Goal
  <2>1. h \in Handlers /\ h \notin Posts
    BY ConstantFacts DEF Handlers
  <2>2. ASSUME Only(h), Kept(h, {"msgs", "todo", "aid", "live"}), UNCHANGED session,
               handlers'[h].step \in {"queued", "wait", "late", "hang"}
        PROVE  Goal
    <3>1. Typed(h)
      BY <2>1, <2>2, HandlerFacts DEF Kept, Typed, GetSteps
    <3> QED BY <1>a, <2>1, <2>2, <3>1
  <2>3. CASE Noop(h) \/ Wake(h)
    <3>1. PICK step \in {"queued", "wait", "late", "hang"} : handlers' = Step(h, step)
      BY <2>3 DEF Noop, Wake
    <3> QED BY <2>1, <2>2, <2>3, <3>1, StepEffect DEF Noop, Wake
  <2>4. CASE AnswerGet(h)
    <3>1. session' = session
      BY <2>4 DEF AnswerGet
    <3>2. \/ handlers' = [handlers EXCEPT ![h] = Idle]
          \/ Only(h) /\ Kept(h, {"msgs", "todo", "aid", "live"}) /\ handlers'[h].step = "hang"
      BY <2>4, AnswerGetEffect
    <3> QED BY <1>4, <2>1, <2>2, <3>1, <3>2
  <2> QED BY <1>8, <2>3, <2>4
<1>9. ASSUME NEW h \in Handlers, GiveUp(h) PROVE Goal
  <2>1. Only(h) /\ Typed(h)
    BY <1>9, GiveUpEffect, HandlerFacts DEF Kept, Typed
  <2> QED BY <1>a, <1>9, <2>1 DEF GiveUp
<1>10. ASSUME NEW h \in Posts, SendPost(h) PROVE Goal
  <2>1. h \in Handlers /\ h \notin Gets
    BY ConstantFacts DEF Handlers
  <2>2. posted' \in Nat /\ acked < posted' /\ posted' <= Len(script)
    BY <1>10, <2>1, SendPostEffect
  <2>3. /\ acked \in Nat /\ Len(script) \in Nat
        /\ DOMAIN script = 1..Len(script)
    BY <2>1, HandlerFacts DEF TypeOK
  <2>4. PICK last \in Nat : last = posted' /\ acked < last /\ last <= Len(script)
    BY <2>2
  <2>5. [i \in 1..(last - acked) |-> acked + i] \in Seq(DOMAIN script)
    <3>1. \A a, b, c \in Nat : a < b /\ b <= c =>
            b - a \in Nat /\ [i \in 1..(b - a) |-> a + i] \in [1..(b - a) -> 1..c]
      OBVIOUS
    <3>2. last - acked \in Nat /\ [i \in 1..(last - acked) |-> acked + i] \in [1..(last - acked) -> DOMAIN script]
      BY <2>3, <2>4, <3>1
    <3> QED BY <3>2, SeqDef
  <2>6. handlers'[h].msgs \in Seq(DOMAIN script)
    <3>1. handlers'[h].msgs = [i \in 1..(last - acked) |-> acked + i]
      BY <1>10, <2>1, <2>4, SendPostEffect
    <3> QED BY <2>5, <3>1
  <2>7. Only(h) /\ Typed(h)
    BY <1>10, <1>b, <2>1, <2>6, SendPostEffect DEF Typed, PostSteps
  <2> QED BY <1>a, <1>10, <2>1, <2>7 DEF SendPost
<1>11. ASSUME NEW h \in Gets, SendGet(h) PROVE Goal
  <2>1. h \in Handlers /\ h \notin Posts
    BY ConstantFacts DEF Handlers
  <2>2. Only(h) /\ Typed(h)
    BY <1>11, <1>b, <2>1, SendGetEffect DEF Typed, GetSteps
  <2> QED BY <1>a, <1>11, <2>1, <2>2 DEF SendGet
<1>12. ASSUME NEW h \in Handlers, AnswerPost(h) \/ Drop(h) PROVE Goal
  BY <1>4, <1>12 DEF AnswerPost, Drop
<1> QED BY <1>1, <1>2, <1>3, <1>5, <1>6, <1>7, <1>8, <1>9, <1>10, <1>11, <1>12, NextCases
        DEF Goal, Handlers

\* The session stays, and who holds its lock is a handler.
LEMMA SessionType ==
  ASSUME TypeOK, Next
  PROVE  session' = session /\ alive' \in BOOLEAN /\ lock' \in Handlers \cup {None}
<1> DEFINE Goal == session' = session /\ alive' \in BOOLEAN /\ lock' \in Handlers \cup {None}
<1>1. ASSUME Store \/ RunCommit \/ Terminate PROVE Goal
  BY <1>1 DEF TypeOK, Store, RunCommit, Terminate, webVars
<1>2. ASSUME NEW h \in Handlers, TakeLock(h) \/ Refresh(h) \/ Refreshed(h) \/ RefreshFails(h)
      PROVE  Goal
  BY <1>2 DEF TypeOK, TakeLock, Refresh, Refreshed, RefreshFails, Unlocked
<1>3. ASSUME NEW h \in Posts, Process(h) \/ QueueCommit(h) \/ PushResult(h) \/ AnswerPost(h)
      PROVE  Goal
  BY <1>3 DEF TypeOK, Process, QueueCommit, PushResult, AnswerPost, Unlocked
<1>4. ASSUME NEW h \in Gets, Noop(h) \/ AnswerGet(h) \/ Wake(h) PROVE Goal
  BY <1>4 DEF TypeOK, Noop, AnswerGet, Wake, Unlocked
<1>5. ASSUME NEW h \in Handlers, GiveUp(h) \/ Drop(h) \/ SendPost(h) \/ SendGet(h) PROVE Goal
  BY <1>5 DEF TypeOK, GiveUp, Drop, SendPost, SendGet, Unlocked
<1> QED BY <1>1, <1>2, <1>3, <1>4, <1>5, NextCases DEF Handlers

\* What was taken in and what each target was last told.
LEMMA TargetsType ==
  ASSUME TypeOK, Next
  PROVE  received' \subseteq DOMAIN script /\ targets' \in [TargetIds -> Snapshot \cup {None}]
<1> DEFINE Goal == received' \subseteq DOMAIN script /\ targets' \in [TargetIds -> Snapshot \cup {None}]
<1>1. ASSUME Store \/ RunCommit \/ Terminate PROVE Goal
  BY <1>1 DEF TypeOK, Store, RunCommit, Terminate, webVars
<1>2. ASSUME NEW h \in Handlers, Refresh(h) PROVE Goal
  <2>1. \E id : targets' = [targets EXCEPT ![id] = Matching(id, docs)]
    BY <1>2 DEF Refresh
  <2>2. PICK id, current : targets' = [targets EXCEPT ![id] = current] /\ current \in Snapshot
    BY <2>1, MatchingType
  <2>3. targets' \in [TargetIds -> Snapshot \cup {None}]
    BY <2>2 DEF TypeOK
  <2> QED BY <1>2, <2>3 DEF TypeOK, Refresh
<1>3. ASSUME NEW h \in Handlers, TakeLock(h) \/ Refreshed(h) \/ RefreshFails(h) PROVE  Goal
  BY <1>3 DEF TypeOK, TakeLock, Refreshed, RefreshFails
<1>4. ASSUME NEW h \in Posts, Process(h) PROVE Goal
  <2>1. Nothing \in Snapshot
    BY ConstantFacts DEF Nothing, Snapshot, Version
  <2>2. PICK id : \/ targets' = targets
                  \/ targets' = [targets EXCEPT ![id] = Nothing]
                  \/ targets' = [targets EXCEPT ![id] = None]
    BY <1>4 DEF Process
  <2>3. targets' \in [TargetIds -> Snapshot \cup {None}]
    BY <2>1, <2>2 DEF TypeOK
  <2>4. handlers[h].msgs \in Seq(DOMAIN script) /\ handlers[h].msgs # <<>>
    BY <1>4, HandlerFacts DEF Process, Handlers
  <2>5. Head(handlers[h].msgs) \in DOMAIN script
    BY <2>4, TailFacts
  <2> QED BY <1>4, <2>3, <2>5 DEF TypeOK, Process
<1>5. ASSUME NEW h \in Posts, QueueCommit(h) \/ PushResult(h) \/ AnswerPost(h) PROVE  Goal
  BY <1>5 DEF TypeOK, QueueCommit, PushResult, AnswerPost
<1>6. ASSUME NEW h \in Gets, Noop(h) \/ AnswerGet(h) \/ Wake(h) PROVE Goal
  BY <1>6 DEF TypeOK, Noop, AnswerGet, Wake
<1>7. ASSUME NEW h \in Handlers, GiveUp(h) \/ Drop(h) \/ SendPost(h) \/ SendGet(h) PROVE Goal
  BY <1>7 DEF TypeOK, GiveUp, Drop, SendPost, SendGet
<1> QED BY <1>1, <1>2, <1>3, <1>4, <1>5, <1>6, <1>7, NextCases DEF Handlers

\* The commits that wait and those that took effect.
LEMMA QueueType ==
  ASSUME TypeOK, CommitsOK, Next
  PROVE  {queue', applied'} \subseteq Seq(DOMAIN script)
<1> DEFINE Goal == {queue', applied'} \subseteq Seq(DOMAIN script)
<1>1. ASSUME RunCommit PROVE Goal
  <2>1. /\ queue \in Seq(DOMAIN script) /\ queue # <<>> /\ applied \in Seq(DOMAIN script)
    BY <1>1 DEF RunCommit, TypeOK
  <2>2. Tail(queue) \in Seq(DOMAIN script) /\ Head(queue) \in DOMAIN script
    BY <2>1, TailFacts
  <2> QED BY <1>1, <2>1, <2>2 DEF RunCommit
<1>2. ASSUME NEW h \in Posts, QueueCommit(h) PROVE Goal
  <2>1. handlers[h].msgs \in Seq(DOMAIN script) /\ handlers[h].msgs # <<>>
    BY <1>2, HandlerFacts DEF QueueCommit, Handlers, CommitsOK
  <2>2. Head(handlers[h].msgs) \in DOMAIN script
    BY <2>1, TailFacts
  <2>3. PICK n \in DOMAIN script : queue' = Append(queue, n) \/ queue' = queue
    BY <1>2, <2>2 DEF QueueCommit
  <2>4. queue' \in Seq(DOMAIN script)
    <3>1. queue \in Seq(DOMAIN script)
      BY DEF TypeOK
    <3> QED BY <2>3, <3>1, AppendFacts
  <2> QED BY <1>2, <2>4 DEF QueueCommit, TypeOK
<1>3. ASSUME UNCHANGED <<queue, applied>> PROVE Goal
  BY <1>3 DEF TypeOK
<1> HIDE DEF Goal
<1>4. ASSUME Store \/ Terminate PROVE Goal
  BY <1>3, <1>4 DEF Store, Terminate, webVars
<1>5. ASSUME NEW h \in Handlers, TakeLock(h) \/ Refresh(h) \/ Refreshed(h) \/ RefreshFails(h)
      PROVE  Goal
  BY <1>3, <1>5 DEF TakeLock, Refresh, Refreshed, RefreshFails
<1>6. ASSUME NEW h \in Posts, Process(h) \/ PushResult(h) \/ AnswerPost(h) PROVE  Goal
  BY <1>3, <1>6 DEF Process, PushResult, AnswerPost
<1>7. ASSUME NEW h \in Gets, Noop(h) \/ AnswerGet(h) \/ Wake(h) PROVE Goal
  BY <1>3, <1>7 DEF Noop, AnswerGet, Wake
<1>8. ASSUME NEW h \in Handlers, GiveUp(h) \/ Drop(h) \/ SendPost(h) \/ SendGet(h) PROVE Goal
  BY <1>3, <1>8 DEF GiveUp, Drop, SendPost, SendGet
<1> QED BY <1>1, <1>2, <1>4, <1>5, <1>6, <1>7, <1>8, NextCases DEF Handlers, Goal

\* What the browser has posted and what went wrong.
LEMMA BrowserType ==
  ASSUME TypeOK, Next
  PROVE  acked' \in 0..posted' /\ posted' \in 0..Len(script) /\ failures' \in 0..MaxFailures
<1> DEFINE Goal ==
      acked' \in 0..posted' /\ posted' \in 0..Len(script) /\ failures' \in 0..MaxFailures
<1>0. acked \in Nat /\ posted \in Nat /\ acked <= posted /\ failures \in Nat /\ MaxFailures \in Nat
  BY ConstantFacts DEF TypeOK
<1>1. ASSUME Store \/ RunCommit \/ Terminate PROVE Goal
  BY <1>0, <1>1 DEF TypeOK, Store, RunCommit, Terminate, webVars
<1>2. ASSUME NEW h \in Handlers, TakeLock(h) \/ Refresh(h) \/ Refreshed(h) \/ RefreshFails(h)
      PROVE  Goal
  <2>1. /\ UNCHANGED <<acked, posted>>
        /\ failures' = failures \/ (failures < MaxFailures /\ failures' = failures + 1)
    BY <1>2 DEF TakeLock, Refresh, Refreshed, RefreshFails
  <2> QED BY <1>0, <2>1 DEF TypeOK
<1>3. ASSUME NEW h \in Posts, Process(h) \/ QueueCommit(h) \/ PushResult(h) \/ AnswerPost(h)
      PROVE  Goal
  <2>1. UNCHANGED <<posted, failures>> /\ acked' \in {acked, posted}
    BY <1>3 DEF Process, QueueCommit, PushResult, AnswerPost
  <2> QED BY <1>0, <2>1 DEF TypeOK
<1>4. ASSUME NEW h \in Gets, Noop(h) \/ AnswerGet(h) \/ Wake(h) PROVE Goal
  BY <1>4 DEF TypeOK, Noop, AnswerGet, Wake
<1>5. ASSUME NEW h \in Handlers, GiveUp(h) \/ Drop(h) \/ SendGet(h) PROVE Goal
  BY <1>0, <1>5 DEF TypeOK, GiveUp, Drop, SendGet
<1>6. ASSUME NEW h \in Posts, SendPost(h) PROVE Goal
  <2>1. posted' \in Nat /\ acked < posted' /\ posted' <= Len(script)
    BY <1>6, SendPostEffect DEF Handlers
  <2>2. acked' = acked /\ failures' = failures /\ Len(script) \in Nat
    BY <1>6, HandlerFacts DEF SendPost, Handlers
  <2>3. \A a, p, n \in Nat : a < p /\ p <= n => a \in 0..p /\ p \in 0..n
    OBVIOUS
  <2> QED BY <1>0, <2>1, <2>2, <2>3 DEF TypeOK
<1> QED BY <1>1, <1>2, <1>3, <1>4, <1>5, <1>6, NextCases DEF Handlers

\* Type correctness is preserved.
LEMMA TypeStep ==
  ASSUME TypeOK, CommitsOK, Next
  PROVE  TypeOK'
<1>1. session' = session /\ script' = script
  BY SessionType DEF script
<1> QED BY <1>1, FeedType, SessionType, PushedType, TargetsType, QueueType, BrowserType,
           HandlersTypeStep DEF TypeOK

-----------------------------------------------------------------------------
(* The lock.                                                               *)

\* A handler at work keeps the lock from the others.
LEMMA LockStep ==
  ASSUME TypeOK, LockOK, CommitsOK, Next
  PROVE  LockOK'
<1> DEFINE Goal == LockOK'
<1>a. ASSUME NEW h \in Handlers, Only(h), lock' = lock,
             handlers'[h].step \in Holding => handlers[h].step \in Holding
      PROVE  Goal
  BY <1>a DEF LockOK, Only
<1>b. ASSUME NEW h \in Handlers, Only(h), handlers'[h].step \notin Holding, lock' = Unlocked(h)
      PROVE  Goal
  BY <1>b DEF LockOK, Only, Unlocked
<1>c. ASSUME NEW h \in Handlers, NEW step, handlers' = Step(h, step), lock' = lock,
             step \in Holding => handlers[h].step \in Holding
      PROVE  Goal
  BY <1>a, <1>c, StepEffect
<1>d. ASSUME NEW h \in Handlers, handlers' = [handlers EXCEPT ![h] = Idle], lock' = Unlocked(h)
      PROVE  Goal
  BY <1>b, <1>d, IdleEffect DEF Holding
<1>1. ASSUME Store \/ Terminate PROVE Goal
  BY <1>1 DEF LockOK, Store, Terminate, webVars
<1>2. ASSUME RunCommit PROVE Goal
  BY <1>2, RunCommitEffect DEF LockOK, Holding, RunCommit
<1>3. ASSUME NEW h \in Handlers, TakeLock(h) PROVE Goal
  <2>1. lock = None /\ lock' = h
    BY <1>3 DEF TakeLock
  <2>2. \A x \in Handlers : handlers[x].step \notin Holding
    BY <2>1, ConstantFacts DEF LockOK
  <2> QED BY <1>3, <2>1, <2>2, TakeLockEffect DEF LockOK, Only
<1> HIDE DEF Goal
<1>4. ASSUME NEW h \in Handlers, Refresh(h) PROVE Goal
  BY <1>a, <1>4, RefreshEffect DEF Refresh, Kept
<1>5. ASSUME NEW h \in Handlers, Refreshed(h) PROVE Goal
  BY <1>c, <1>5 DEF Refreshed, Holding
<1>6. ASSUME NEW h \in Handlers, RefreshFails(h) PROVE Goal
  <2>1. \/ handlers' = Step(h, "process") /\ lock' = lock
        \/ handlers' = [handlers EXCEPT ![h] = Idle] /\ lock' = Unlocked(h)
    BY <1>6 DEF RefreshFails
  <2> QED BY <1>c, <1>d, <1>6, <2>1 DEF RefreshFails, Holding
<1>7. ASSUME NEW h \in Handlers, Process(h) PROVE Goal
  BY <1>a, <1>7, ProcessEffect DEF Process, Holding
<1>8. ASSUME NEW h \in Handlers, QueueCommit(h) PROVE Goal
  BY <1>a, <1>8, QueueCommitEffect DEF QueueCommit, Holding
<1>9. ASSUME NEW h \in Handlers, PushResult(h) PROVE Goal
  BY <1>a, <1>9, PushResultEffect DEF PushResult, Holding
<1>10. ASSUME NEW h \in Handlers, AnswerPost(h) \/ Drop(h) PROVE Goal
  BY <1>d, <1>10 DEF AnswerPost, Drop
<1>11. ASSUME NEW h \in Handlers, Noop(h) PROVE Goal
  BY <1>c, <1>11 DEF Noop, Holding
<1>12. ASSUME NEW h \in Gets, AnswerGet(h) PROVE Goal
  <2>1. h \in Handlers
    BY DEF Handlers
  <2>2. \/ handlers' = [handlers EXCEPT ![h] = Idle]
        \/ Only(h) /\ handlers'[h].step = "hang"
    BY <1>12, AnswerGetEffect
  <2>3. lock' = Unlocked(h)
    BY <1>12, AnswerGetEffect
  <2> QED BY <1>b, <1>d, <2>1, <2>2, <2>3 DEF Holding
<1>13. ASSUME NEW h \in Handlers, Wake(h) PROVE Goal
  BY <1>c, <1>13 DEF Wake, Holding
<1>14. ASSUME NEW h \in Handlers, GiveUp(h) PROVE Goal
  BY <1>a, <1>14, GiveUpEffect DEF GiveUp, Kept
<1>15. ASSUME NEW h \in Handlers, SendPost(h) PROVE Goal
  BY <1>a, <1>15, SendPostEffect DEF SendPost, Holding
<1>16. ASSUME NEW h \in Handlers, SendGet(h) PROVE Goal
  BY <1>a, <1>16, SendGetEffect DEF SendGet, Holding
<1> QED BY <1>1, <1>2, <1>3, <1>4, <1>5, <1>6, <1>7, <1>8, <1>9, <1>10, <1>11, <1>12, <1>13,
           <1>14, <1>15, <1>16, NextCases DEF Goal, Handlers

-----------------------------------------------------------------------------
(* The commits.                                                            *)

\* Steps that queue and run nothing.
LEMMA CommitsSame ==
  ASSUME CommitsOK, UNCHANGED <<session, received, queue, applied>>,
         \A x \in Handlers : handlers'[x].step \in {"commit", "job", "result"} =>
           handlers'[x].step = handlers[x].step /\ handlers'[x].msgs = handlers[x].msgs
  PROVE  CommitsOK'
<1>1. script' = script
  BY DEF script
<1> QED BY <1>1 DEF CommitsOK

\* The same, when one handler changes.
LEMMA CommitsOne ==
  ASSUME CommitsOK, UNCHANGED <<session, received, queue, applied>>,
         NEW h \in Handlers, Only(h), handlers'[h].step \notin {"commit", "job", "result"}
  PROVE  CommitsOK'
BY CommitsSame DEF Only

\* A message is taken in once, and after those before it.
LEMMA ProcessCommits ==
  ASSUME TypeOK, LockOK, PostsOK, CommitsOK, NEW h \in Posts, Process(h)
  PROVE  CommitsOK'
<1> DEFINE n == handlers[h].msgs[1]
<1>1. h \in Handlers /\ UNCHANGED <<session, queue, applied>> /\ script' = script
  BY DEF Handlers, Process, script
<1>2. /\ Only(h) /\ handlers[h].step = "process" /\ handlers[h].msgs # <<>>
      /\ received' = received \cup {n}
      /\ \/ handlers'[h].step \in {"process", "refresh"}
         \/ /\ handlers'[h].msgs = handlers[h].msgs /\ handlers'[h].step = "commit"
            /\ n \notin received
  BY <1>1, ProcessEffect
<1>3. \A x \in Handlers : x # h => handlers'[x].step \notin {"commit", "job", "result"}
  BY <1>1, <1>2 DEF LockOK, Only, Holding
<1>4. PICK k \in 0..Len(script) : received = 1..k
  BY DEF CommitsOK
<1>5. n \in 1..Len(script) /\ Len(script) \in Nat
  <2>1. handlers[h].msgs \in Seq(DOMAIN script) /\ script \in Seq([kind : {"write", "add", "remove"}, id : Nat])
    BY <1>1, HandlerFacts
  <2>2. n \in DOMAIN script
    BY <1>2, <2>1, TailFacts
  <2> QED BY <2>1, <2>2
<1>6. 1..(n - 1) \subseteq 1..k
  BY <1>2, <1>4 DEF PostsOK
<1> HIDE DEF n
<1>7. CASE n \in received
  <2>1. received' = received
    BY <1>2, <1>7
  <2>2. handlers'[h].step \notin {"commit", "job", "result"}
    BY <1>2, <1>7
  <2> QED BY <1>1, <1>2, <2>1, <2>2, CommitsOne
<1>8. CASE n \notin received
  <2>1. n = k + 1
    <3>1. ~(n <= k) /\ ~(k + 1 <= n - 1)
      BY <1>4, <1>5, <1>6, <1>8
    <3> QED BY <1>5, <3>1
  <2>2. received' = 1..n
    BY <1>2, <1>4, <2>1
  <2>3. \A m \in received : m \in received' /\ m < n
    BY <1>2, <1>4, <2>1
  <2>4. n \in 0..Len(script)
    BY <1>5
  <2>5. /\ \A i \in DOMAIN queue : queue[i] \in received' /\ queue[i] < n
        /\ \A i \in DOMAIN applied : applied[i] \in received' /\ applied[i] < n
    BY <2>3 DEF CommitsOK
  <2>6. \A x \in Handlers : handlers'[x].step \in {"commit", "job", "result"} =>
          x = h /\ handlers'[x].msgs # <<>> /\ handlers'[x].msgs[1] = n
    BY <1>2, <1>3 DEF n
  <2> QED BY <1>1, <2>2, <2>4, <2>5, <2>6 DEF CommitsOK
<1> QED BY <1>7, <1>8

\* The last message that was taken in is queued behind the older ones.
LEMMA QueueCommitCommits ==
  ASSUME TypeOK, LockOK, CommitsOK, NEW h \in Posts, QueueCommit(h)
  PROVE  CommitsOK'
<1> DEFINE n == handlers[h].msgs[1]
<1>1. h \in Handlers /\ UNCHANGED <<session, received, applied>> /\ script' = script
  BY DEF Handlers, QueueCommit, script
<1>2. /\ Only(h) /\ Kept(h, {"msgs"}) /\ handlers[h].step = "commit"
      /\ \/ queue' = Append(queue, Head(handlers[h].msgs)) /\ handlers'[h].step = "job"
         \/ UNCHANGED queue /\ handlers'[h].step = "result"
  BY <1>1, QueueCommitEffect DEF Kept
<1>3. \A x \in Handlers : x # h => handlers'[x].step \notin {"commit", "job", "result"}
  BY <1>1, <1>2 DEF LockOK, Only, Holding
<1>4. /\ handlers[h].msgs # <<>> /\ received = 1..n
      /\ \A i \in DOMAIN queue : queue[i] < n
      /\ \A i \in DOMAIN applied : applied[i] < n
  BY <1>1, <1>2 DEF CommitsOK
<1>5. Head(handlers[h].msgs) = n /\ n \in DOMAIN script /\ n \in Nat \ {0}
  BY <1>1, <1>4, MessageFacts
<1>6. \A x \in Handlers : handlers'[x].step \in {"commit", "job", "result"} =>
        /\ x = h /\ handlers'[x].msgs # <<>> /\ handlers'[x].msgs[1] = n
        /\ handlers'[x].step # "commit"
  BY <1>2, <1>3, <1>4 DEF Kept
<1> HIDE DEF n
<1>7. CASE queue' = queue
  BY <1>1, <1>4, <1>6, <1>7 DEF CommitsOK
<1>8. CASE queue' = Append(queue, n)
  <2> DEFINE q == Append(queue, n)
  <2>1. queue \in Seq(DOMAIN script) /\ DOMAIN queue = 1..Len(queue) /\ Len(queue) \in Nat
    BY DEF TypeOK
  <2>2. /\ q \in Seq(DOMAIN script) /\ Len(q) = Len(queue) + 1 /\ q[Len(queue) + 1] = n
        /\ \A i \in 1..Len(queue) : q[i] = queue[i]
    BY <1>5, <2>1, AppendFacts
  <2>3. DOMAIN q = 1..(Len(queue) + 1)
    BY <2>2
  <2> HIDE DEF q
  <2>4. \A i \in DOMAIN q : \/ i \in DOMAIN queue /\ q[i] = queue[i]
                            \/ i = Len(queue) + 1 /\ q[i] = n
    BY <2>1, <2>2, <2>3
  <2>5. \A i \in DOMAIN q : q[i] \in received
    BY <1>4, <1>5, <2>4 DEF CommitsOK
  <2>6. \A i, j \in DOMAIN q : i < j => q[i] < q[j]
    <3>1. \A i \in DOMAIN queue : i < Len(queue) + 1 /\ queue[i] < n
      BY <1>4, <2>1
    <3>2. SUFFICES ASSUME NEW i \in DOMAIN q, NEW j \in DOMAIN q, i < j PROVE q[i] < q[j]
      OBVIOUS
    <3>3. CASE j \in DOMAIN queue /\ q[j] = queue[j]
      <4>1. i \in DOMAIN queue
        BY <2>1, <2>3, <3>2, <3>3
      <4> QED BY <2>1, <2>2, <3>2, <3>3, <4>1 DEF CommitsOK
    <3>4. CASE j = Len(queue) + 1 /\ q[j] = n
      <4>1. i \in DOMAIN queue
        BY <2>1, <2>3, <3>2, <3>4
      <4> QED BY <2>1, <2>2, <3>1, <3>4, <4>1
    <3> QED BY <2>4, <3>3, <3>4
  <2>7. \A i \in DOMAIN applied, j \in DOMAIN q : applied[i] < q[j]
    BY <1>4, <2>4 DEF CommitsOK
  <2>8. queue' = q
    BY <1>8 DEF q
  <2> QED BY <1>1, <1>4, <1>6, <2>5, <2>6, <2>7, <2>8 DEF CommitsOK
<1> QED BY <1>2, <1>5, <1>7, <1>8

\* The oldest queued commit takes effect.
LEMMA RunCommitCommits ==
  ASSUME TypeOK, CommitsOK, AppliedOnceInOrder, RunCommit
  PROVE  CommitsOK' /\ AppliedOnceInOrder'
<1> DEFINE n == queue[1]
           q == Tail(queue)
           a == Append(applied, n)
<1>1. /\ UNCHANGED <<session, received>> /\ script' = script
      /\ queue # <<>> /\ queue' = Tail(queue) /\ applied' = Append(applied, Head(queue))
  BY DEF RunCommit, script
<1>2. /\ queue \in Seq(DOMAIN script) /\ applied \in Seq(DOMAIN script)
      /\ DOMAIN queue = 1..Len(queue) /\ DOMAIN applied = 1..Len(applied) /\ Len(applied) \in Nat
  BY DEF TypeOK
<1>3. /\ Len(queue) \in Nat \ {0} /\ Head(queue) = n /\ n \in DOMAIN script
      /\ q \in Seq(DOMAIN script) /\ Len(q) = Len(queue) - 1
      /\ \A i \in 1..(Len(queue) - 1) : q[i] = queue[i + 1]
  BY <1>1, <1>2, TailFacts
<1>4. /\ a \in Seq(DOMAIN script) /\ Len(a) = Len(applied) + 1 /\ a[Len(applied) + 1] = n
      /\ \A i \in 1..Len(applied) : a[i] = applied[i]
  BY <1>2, <1>3, AppendFacts
<1>5. DOMAIN q = 1..(Len(queue) - 1) /\ DOMAIN a = 1..(Len(applied) + 1) /\ 1 \in DOMAIN queue
  BY <1>2, <1>3, <1>4
<1>6. queue' = q /\ applied' = a
  BY <1>1, <1>3
<1> HIDE DEF q, a
<1>7. \A i \in DOMAIN q : i + 1 \in DOMAIN queue /\ q[i] = queue[i + 1] /\ 1 < i + 1 /\ i \in Nat
  BY <1>2, <1>3, <1>5
<1>8. \A i \in DOMAIN a : /\ i \in Nat
                          /\ \/ i \in DOMAIN applied /\ a[i] = applied[i]
                             \/ i = Len(applied) + 1 /\ a[i] = n
  BY <1>2, <1>4, <1>5
<1>9. \A i \in DOMAIN applied : applied[i] < n /\ i < Len(applied) + 1
  <2>1. \A i \in DOMAIN applied, j \in DOMAIN queue : applied[i] < queue[j]
    BY DEF CommitsOK
  <2>2. \A i \in DOMAIN applied : applied[i] < queue[1]
    BY <1>5, <2>1
  <2>3. \A i \in DOMAIN applied : i < Len(applied) + 1
    BY <1>2
  <2> QED BY <2>2, <2>3
<1>10. \A i \in DOMAIN q : n < q[i]
  BY <1>5, <1>7 DEF CommitsOK
<1>11. n \in received
  BY <1>5 DEF CommitsOK
<1> HIDE DEF n
<1>12. /\ \A i \in DOMAIN q : q[i] \in received
       /\ \A i \in DOMAIN a : a[i] \in received
  BY <1>7, <1>8, <1>11 DEF CommitsOK
<1>13. \A i, j \in DOMAIN q : i < j => q[i] < q[j]
  BY <1>7 DEF CommitsOK
<1>14. \A i \in DOMAIN a, j \in DOMAIN q : a[i] < q[j]
  BY <1>7, <1>8, <1>10 DEF CommitsOK
<1>15. \A i, j \in DOMAIN a : i < j => a[i] < a[j]
  <2>1. SUFFICES ASSUME NEW i \in DOMAIN a, NEW j \in DOMAIN a, i < j PROVE a[i] < a[j]
    OBVIOUS
  <2>2. i \in DOMAIN applied /\ a[i] = applied[i]
    <3>1. CASE i = Len(applied) + 1
      BY <1>2, <1>5, <2>1, <3>1
    <3> QED BY <1>8, <3>1
  <2> QED BY <1>8, <1>9, <2>1, <2>2 DEF AppliedOnceInOrder
<1>16. \A x \in Handlers : handlers'[x].step \in {"commit", "job", "result"} =>
         /\ handlers[x].step \in {"commit", "job", "result"}
         /\ handlers'[x].msgs = handlers[x].msgs
         /\ handlers'[x].step = "commit" => handlers[x].step = "commit"
  BY RunCommitEffect DEF Kept
<1>17. \A x \in Handlers : handlers'[x].step \in {"commit", "job", "result"} =>
         /\ handlers'[x].msgs # <<>> /\ received = 1..handlers'[x].msgs[1]
         /\ handlers'[x].step = "commit" =>
              /\ \A i \in DOMAIN q : q[i] < handlers'[x].msgs[1]
              /\ \A i \in DOMAIN a : a[i] < handlers'[x].msgs[1]
  <2>1. SUFFICES ASSUME NEW x \in Handlers, handlers'[x].step \in {"commit", "job", "result"}
                 PROVE  /\ handlers[x].msgs # <<>> /\ received = 1..handlers[x].msgs[1]
                        /\ handlers[x].step = "commit" =>
                             /\ \A i \in DOMAIN q : q[i] < handlers[x].msgs[1]
                             /\ \A i \in DOMAIN a : a[i] < handlers[x].msgs[1]
    BY <1>16
  <2>2. handlers[x].msgs # <<>> /\ received = 1..handlers[x].msgs[1]
    BY <1>16, <2>1 DEF CommitsOK
  <2>3. ASSUME handlers[x].step = "commit"
        PROVE  /\ \A i \in DOMAIN queue : queue[i] < handlers[x].msgs[1]
               /\ \A i \in DOMAIN applied : applied[i] < handlers[x].msgs[1]
    BY <2>3 DEF CommitsOK
  <2> QED BY <1>5, <1>7, <1>8, <2>2, <2>3 DEF n
<1>18. CommitsOK'
  <2>1. \E k \in 0..Len(script) : received = 1..k
    BY DEF CommitsOK
  <2> QED BY <1>1, <1>6, <1>12, <1>13, <1>14, <1>17, <2>1 DEF CommitsOK
<1> QED BY <1>6, <1>15, <1>18 DEF AppliedOnceInOrder

\* The commits keep their order.
LEMMA CommitsStep ==
  ASSUME TypeOK, LockOK, PostsOK, CommitsOK, AppliedOnceInOrder, Next
  PROVE  CommitsOK' /\ AppliedOnceInOrder'
<1> DEFINE Goal == CommitsOK' /\ AppliedOnceInOrder'
<1>a. ASSUME NEW h \in Handlers, Only(h), handlers'[h].step \notin {"commit", "job", "result"},
             UNCHANGED <<session, received, queue, applied>>
      PROVE  Goal
  BY <1>a, CommitsOne DEF AppliedOnceInOrder
<1>b. ASSUME NEW h \in Handlers, NEW step, step \notin {"commit", "job", "result"},
             handlers' = Step(h, step), UNCHANGED <<session, received, queue, applied>>
      PROVE  Goal
  BY <1>a, <1>b, StepEffect
<1>c. ASSUME NEW h \in Handlers, handlers' = [handlers EXCEPT ![h] = Idle],
             UNCHANGED <<session, received, queue, applied>>
      PROVE  Goal
  BY <1>a, <1>c, IdleEffect
<1>1. ASSUME Store \/ Terminate PROVE Goal
  BY <1>1, CommitsSame DEF Store, Terminate, webVars, AppliedOnceInOrder
<1>2. ASSUME RunCommit PROVE Goal
  BY <1>2, RunCommitCommits
<1>3. ASSUME NEW h \in Posts, Process(h) PROVE Goal
  BY <1>3, ProcessCommits DEF Process, AppliedOnceInOrder
<1>4. ASSUME NEW h \in Posts, QueueCommit(h) PROVE Goal
  BY <1>4, QueueCommitCommits DEF QueueCommit, AppliedOnceInOrder
<1>5. ASSUME NEW h \in Handlers, GiveUp(h) PROVE Goal
  <2>1. UNCHANGED <<session, received, queue, applied>>
    BY <1>5 DEF GiveUp
  <2>2. Only(h) /\ handlers'[h].step = handlers[h].step /\ handlers'[h].msgs = handlers[h].msgs
    BY <1>5, GiveUpEffect DEF Kept
  <2> QED BY <2>1, <2>2, CommitsSame DEF Only, AppliedOnceInOrder
<1> HIDE DEF Goal
<1>6. ASSUME NEW h \in Handlers, TakeLock(h) PROVE Goal
  BY <1>a, <1>6, TakeLockEffect DEF TakeLock
<1>7. ASSUME NEW h \in Handlers, Refresh(h) PROVE Goal
  BY <1>a, <1>7, RefreshEffect DEF Refresh, Kept
<1>8. ASSUME NEW h \in Handlers, Refreshed(h) PROVE Goal
  BY <1>b, <1>8 DEF Refreshed
<1>9. ASSUME NEW h \in Handlers, RefreshFails(h) PROVE Goal
  <2>1. handlers' = Step(h, "process") \/ handlers' = [handlers EXCEPT ![h] = Idle]
    BY <1>9 DEF RefreshFails
  <2> QED BY <1>b, <1>c, <1>9, <2>1 DEF RefreshFails
<1>10. ASSUME NEW h \in Handlers, PushResult(h) PROVE Goal
  BY <1>a, <1>10, PushResultEffect DEF PushResult
<1>11. ASSUME NEW h \in Handlers, AnswerPost(h) \/ Drop(h) PROVE Goal
  BY <1>c, <1>11 DEF AnswerPost, Drop
<1>12. ASSUME NEW h \in Handlers, Noop(h) \/ Wake(h) PROVE Goal
  BY <1>b, <1>12 DEF Noop, Wake
<1>13. ASSUME NEW h \in Gets, AnswerGet(h) PROVE Goal
  <2>1. h \in Handlers
    BY DEF Handlers
  <2>2. \/ handlers' = [handlers EXCEPT ![h] = Idle]
        \/ Only(h) /\ handlers'[h].step = "hang"
    BY <1>13, AnswerGetEffect
  <2> QED BY <1>a, <1>c, <1>13, <2>1, <2>2 DEF AnswerGet
<1>14. ASSUME NEW h \in Handlers, SendPost(h) PROVE Goal
  BY <1>a, <1>14, SendPostEffect DEF SendPost
<1>15. ASSUME NEW h \in Handlers, SendGet(h) PROVE Goal
  BY <1>a, <1>15, SendGetEffect DEF SendGet
<1> QED BY <1>1, <1>2, <1>3, <1>4, <1>5, <1>6, <1>7, <1>8, <1>9, <1>10, <1>11, <1>12, <1>13,
           <1>14, <1>15, NextCases DEF Goal, Handlers

-----------------------------------------------------------------------------
(* The POSTs.                                                              *)

\* What a POST with the messages msgs, which the browser may wait for, stands
\* for when it has posted up to last and taken are taken in.
PostOK(msgs, live, last, taken) ==
  /\ \A i \in DOMAIN msgs : msgs[i] = msgs[1] + i - 1
  /\ msgs # <<>> => 1..(msgs[1] - 1) \subseteq taken
  /\ live => /\ 1..(last - Len(msgs)) \subseteq taken
             /\ msgs # <<>> => msgs[1] + Len(msgs) - 1 = last

\* PostsOK in these terms.
LEMMA PostsAre ==
  PostsOK <=> /\ 1..acked \subseteq received
              /\ \A h \in Posts : PostOK(handlers[h].msgs, handlers[h].live, posted, received)
BY DEF PostsOK, PostOK

\* The same of the next state.
LEMMA PostsAreNext ==
  PostsOK' <=> /\ 1..acked' \subseteq received'
               /\ \A h \in Posts : PostOK(handlers'[h].msgs, handlers'[h].live, posted', received')
BY DEF PostsOK, PostOK

\* Without its first message, which is taken in.
LEMMA PostTail ==
  ASSUME NEW n \in Nat, NEW msgs \in Seq(1..n), msgs # <<>>, NEW live \in BOOLEAN, NEW last \in Nat,
         NEW taken, PostOK(msgs, live, last, taken), NEW more, taken \subseteq more, msgs[1] \in more
  PROVE  PostOK(Tail(msgs), live, last, more)
<1> DEFINE rest == Tail(msgs)
<1>1. /\ Len(msgs) \in Nat \ {0} /\ msgs[1] \in Nat \ {0}
      /\ rest \in Seq(1..n) /\ Len(rest) = Len(msgs) - 1
      /\ \A i \in 1..(Len(msgs) - 1) : rest[i] = msgs[i + 1]
  BY TailFacts
<1>2. DOMAIN rest = 1..(Len(msgs) - 1) /\ DOMAIN msgs = 1..Len(msgs)
  BY <1>1
<1> HIDE DEF rest
<1>3. \A i \in 1..(Len(msgs) - 1) : rest[i] = msgs[1] + i
  <2>1. TAKE i \in 1..(Len(msgs) - 1)
  <2>2. i \in Nat /\ i + 1 \in DOMAIN msgs
    BY <1>1, <1>2
  <2>3. rest[i] = msgs[1] + (i + 1) - 1
    BY <1>1, <2>2 DEF PostOK
  <2>4. \A a, b \in Nat : a + (b + 1) - 1 = a + b
    OBVIOUS
  <2> QED BY <1>1, <2>2, <2>3, <2>4
<1>4. rest # <<>> => 1 \in 1..(Len(msgs) - 1) /\ rest[1] = msgs[1] + 1
  BY <1>1, <1>3
<1>5. \A i \in DOMAIN rest : rest[i] = rest[1] + i - 1
  <2>1. SUFFICES ASSUME NEW i \in 1..(Len(msgs) - 1) PROVE rest[i] = rest[1] + i - 1
    BY <1>2
  <2>2. rest[1] = msgs[1] + 1
    BY <1>1, <1>3
  <2> QED BY <1>1, <1>3, <2>2
<1>6. 1..(msgs[1] - 1) \subseteq more /\ 1..msgs[1] \subseteq more
  <2>1. \A i \in 1..msgs[1] : i \in 1..(msgs[1] - 1) \/ i = msgs[1]
    BY <1>1
  <2> QED BY <2>1 DEF PostOK
<1>7. rest # <<>> => 1..(rest[1] - 1) \subseteq more
  <2>1. \A a \in Nat : (a + 1) - 1 = a
    OBVIOUS
  <2> QED BY <1>1, <1>4, <1>6, <2>1
<1>8. ASSUME live
      PROVE  /\ 1..(last - Len(rest)) \subseteq more
             /\ rest # <<>> => rest[1] + Len(rest) - 1 = last
  <2>1. msgs[1] + Len(msgs) - 1 = last
    BY <1>8 DEF PostOK
  <2>2. last - Len(rest) = msgs[1]
    BY <1>1, <2>1
  <2>3. rest # <<>> => rest[1] + Len(rest) - 1 = last
    <3>1. \A a, b \in Nat : (a + 1) + (b - 1) - 1 = a + b - 1
      OBVIOUS
    <3>2. msgs[1] \in Nat /\ Len(msgs) \in Nat /\ Len(rest) = Len(msgs) - 1
      BY <1>1
    <3>3. (msgs[1] + 1) + (Len(msgs) - 1) - 1 = last
      BY <2>1, <3>1, <3>2
    <3> QED BY <1>4, <3>2, <3>3
  <2> QED BY <1>6, <2>2, <2>3
<1> QED BY <1>5, <1>7, <1>8 DEF PostOK, rest

\* A POST stays what it stands for.
LEMMA PostsStep ==
  ASSUME TypeOK, LockOK, PostsOK, CommitsOK, Next
  PROVE  PostsOK'
<1> DEFINE Goal == PostsOK'
<1>0. /\ 1..acked \subseteq received
      /\ \A h \in Posts : PostOK(handlers[h].msgs, handlers[h].live, posted, received)
  BY PostsAre
<1>a. ASSUME NEW h \in Handlers, Only(h), Kept(h, {"msgs"}),
             handlers'[h].live => handlers[h].live, UNCHANGED <<received, acked, posted>>
      PROVE  Goal
  <2>1. \A x \in Posts : PostOK(handlers'[x].msgs, handlers'[x].live, posted, received)
    <3>1. TAKE x \in Posts
    <3>2. handlers'[x].msgs = handlers[x].msgs /\ (handlers'[x].live => handlers[x].live)
      BY <1>a DEF Only, Kept, Handlers
    <3> QED BY <1>0, <3>2 DEF PostOK
  <2> QED BY <1>0, <1>a, <2>1, PostsAreNext
<1>b. ASSUME NEW h \in Handlers, NEW step, handlers' = Step(h, step),
             UNCHANGED <<received, acked, posted>>
      PROVE  Goal
  BY <1>a, <1>b, StepEffect DEF Kept
<1>c. ASSUME NEW h \in Handlers, Only(h), handlers'[h].msgs = <<>>, ~handlers'[h].live,
             UNCHANGED <<received, posted>>, 1..acked' \subseteq received
      PROVE  Goal
  <2>1. \A x \in Posts : PostOK(handlers'[x].msgs, handlers'[x].live, posted, received)
    <3>1. TAKE x \in Posts
    <3>2. CASE x = h
      BY <1>c, <3>2 DEF PostOK
    <3>3. CASE x # h
      BY <1>0, <1>c, <3>3 DEF Only, Handlers
    <3> QED BY <3>2, <3>3
  <2> QED BY <1>c, <2>1, PostsAreNext
<1>d. ASSUME NEW h \in Handlers, handlers' = [handlers EXCEPT ![h] = Idle],
             UNCHANGED <<received, posted>>, 1..acked' \subseteq received
      PROVE  Goal
  BY <1>c, <1>d, IdleEffect
<1>e. ASSUME NEW h \in Posts, Only(h), Kept(h, {"live"}), handlers[h].msgs # <<>>,
             handlers'[h].msgs = Tail(handlers[h].msgs), UNCHANGED <<acked, posted>>,
             received \subseteq received', handlers[h].msgs[1] \in received'
      PROVE  Goal
  <2>1. \A x \in Posts : PostOK(handlers'[x].msgs, handlers'[x].live, posted, received')
    <3>1. TAKE x \in Posts
    <3>2. CASE x = h
      <4>1. /\ handlers[h].msgs \in Seq(1..Len(script)) /\ Len(script) \in Nat
            /\ handlers[h].live \in BOOLEAN /\ posted \in Nat
        <5>1. /\ handlers[h].msgs \in Seq(DOMAIN script) /\ handlers[h].live \in BOOLEAN
              /\ script \in Seq([kind : {"write", "add", "remove"}, id : Nat])
          BY HandlerFacts DEF Handlers
        <5> QED BY <5>1 DEF TypeOK
      <4>2. handlers'[h].live = handlers[h].live
        BY <1>e DEF Kept
      <4>3. PICK more : more = received'
        OBVIOUS
      <4>4. PostOK(Tail(handlers[h].msgs), handlers[h].live, posted, more)
        BY <1>0, <1>e, <4>1, <4>3, PostTail
      <4> QED BY <1>e, <3>2, <4>2, <4>3, <4>4
    <3>3. CASE x # h
      <4>1. PostOK(handlers[x].msgs, handlers[x].live, posted, received)
        BY <1>0
      <4>2. PostOK(handlers[x].msgs, handlers[x].live, posted, received')
        BY <1>e, <4>1 DEF PostOK
      <4> QED BY <1>e, <3>3, <4>2 DEF Only, Handlers
    <3> QED BY <3>2, <3>3
  <2>2. 1..acked' \subseteq received'
    BY <1>0, <1>e
  <2> QED BY <1>e, <2>1, <2>2, PostsAreNext
<1>1. ASSUME Store \/ Terminate PROVE Goal
  BY <1>1 DEF PostsOK, Store, Terminate, webVars
<1>2. ASSUME RunCommit PROVE Goal
  <2>1. \A x \in Posts : PostOK(handlers'[x].msgs, handlers'[x].live, posted, received)
    BY <1>0, <1>2, RunCommitEffect DEF Kept, Handlers
  <2> QED BY <1>0, <1>2, <2>1, PostsAreNext DEF RunCommit
<1> HIDE DEF Goal
<1>3. ASSUME NEW h \in Handlers, TakeLock(h) PROVE Goal
  <2>1. Only(h) /\ Kept(h, {"msgs", "aid", "live"})
    BY <1>3, TakeLockEffect
  <2> QED BY <1>a, <1>3, <2>1 DEF TakeLock, Kept
<1>4. ASSUME NEW h \in Handlers, Refresh(h) PROVE Goal
  BY <1>a, <1>4, RefreshEffect DEF Refresh, Kept
<1>5. ASSUME NEW h \in Handlers, Refreshed(h) \/ Noop(h) \/ Wake(h) PROVE Goal
  BY <1>b, <1>5 DEF Refreshed, Noop, Wake
<1>6. ASSUME NEW h \in Handlers, RefreshFails(h) PROVE Goal
  <2>1. handlers' = Step(h, "process") \/ handlers' = [handlers EXCEPT ![h] = Idle]
    BY <1>6 DEF RefreshFails
  <2> QED BY <1>0, <1>b, <1>d, <1>6, <2>1 DEF RefreshFails
<1>7. ASSUME NEW h \in Posts, Process(h) PROVE Goal
  <2>1. h \in Handlers
    BY DEF Handlers
  <2>2. /\ Only(h) /\ Kept(h, {"live"}) /\ handlers[h].msgs # <<>>
        /\ received' = received \cup {handlers[h].msgs[1]}
        /\ \/ handlers'[h].msgs = Tail(handlers[h].msgs)
           \/ handlers'[h].msgs = handlers[h].msgs
    BY <1>7, <2>1, ProcessEffect DEF Kept
  <2>3. UNCHANGED <<acked, posted>>
    BY <1>7 DEF Process
  <2>4. CASE handlers'[h].msgs = Tail(handlers[h].msgs)
    BY <1>e, <2>2, <2>3, <2>4
  <2>5. CASE handlers'[h].msgs = handlers[h].msgs
    <3>1. \A x \in Posts : PostOK(handlers'[x].msgs, handlers'[x].live, posted, received')
      <4>1. TAKE x \in Posts
      <4>2. handlers'[x].msgs = handlers[x].msgs /\ handlers'[x].live = handlers[x].live
        BY <2>2, <2>5 DEF Only, Kept, Handlers
      <4>3. PostOK(handlers[x].msgs, handlers[x].live, posted, received)
        BY <1>0
      <4>4. PostOK(handlers[x].msgs, handlers[x].live, posted, received')
        BY <2>2, <4>3 DEF PostOK
      <4> QED BY <4>2, <4>4
    <3>2. 1..acked' \subseteq received'
      BY <1>0, <2>2, <2>3
    <3> QED BY <2>3, <3>1, <3>2, PostsAreNext DEF Goal
  <2> QED BY <2>2, <2>4, <2>5
<1>8. ASSUME NEW h \in Handlers, QueueCommit(h) PROVE Goal
  BY <1>a, <1>8, QueueCommitEffect DEF QueueCommit, Kept
<1>9. ASSUME NEW h \in Posts, PushResult(h) PROVE Goal
  <2>1. h \in Handlers
    BY DEF Handlers
  <2>2. /\ Only(h) /\ Kept(h, {"live"}) /\ handlers'[h].msgs = Tail(handlers[h].msgs)
        /\ handlers[h].step = "result"
    BY <1>9, <2>1, PushResultEffect DEF Kept
  <2>3. handlers[h].msgs # <<>> /\ received = 1..handlers[h].msgs[1]
    BY <2>1, <2>2 DEF CommitsOK
  <2>4. handlers[h].msgs[1] \in received
    <3>1. handlers[h].msgs[1] \in Nat \ {0}
      BY <2>1, <2>3, MessageFacts
    <3> QED BY <2>3, <3>1
  <2> QED BY <1>e, <1>9, <2>2, <2>3, <2>4 DEF PushResult
<1>10. ASSUME NEW h \in Posts, AnswerPost(h) PROVE Goal
  <2>1. h \in Handlers
    BY DEF Handlers
  <2>2. PostOK(<<>>, handlers[h].live, posted, received)
    BY <1>0, <1>10 DEF AnswerPost
  <2>3. handlers[h].live => 1..posted \subseteq received
    <3>1. posted - Len(<<>>) = posted
      BY DEF TypeOK
    <3> QED BY <2>2, <3>1 DEF PostOK
  <2>4. 1..acked' \subseteq received
    BY <1>0, <1>10, <2>3 DEF AnswerPost
  <2> QED BY <1>d, <1>10, <2>1, <2>4 DEF AnswerPost
<1>11. ASSUME NEW h \in Handlers, Drop(h) PROVE Goal
  BY <1>0, <1>d, <1>11 DEF Drop
<1>12. ASSUME NEW h \in Gets, AnswerGet(h) PROVE Goal
  <2>1. h \in Handlers
    BY DEF Handlers
  <2>2. \/ handlers' = [handlers EXCEPT ![h] = Idle]
        \/ Only(h) /\ Kept(h, {"msgs", "live"})
    BY <1>12, AnswerGetEffect DEF Kept
  <2> QED BY <1>0, <1>a, <1>d, <1>12, <2>1, <2>2 DEF AnswerGet, Kept
<1>13. ASSUME NEW h \in Handlers, GiveUp(h) PROVE Goal
  BY <1>a, <1>13, GiveUpEffect DEF GiveUp, Kept
<1>14. ASSUME NEW h \in Posts, SendPost(h) PROVE Goal
  <2>1. h \in Handlers
    BY DEF Handlers
  <2>2. /\ Only(h) /\ posted' \in Nat /\ acked < posted'
        /\ handlers'[h].msgs = [i \in 1..(posted' - acked) |-> acked + i]
        /\ \A p \in Posts : ~handlers[p].live
    BY <1>14, <2>1, SendPostEffect
  <2>3. acked' = acked /\ received' = received /\ acked \in Nat
    BY <1>14 DEF SendPost, TypeOK
  <2>4. PICK last \in Nat : last = posted' /\ acked < last
    BY <2>2
  <2>5. PICK msgs : msgs = [i \in 1..(last - acked) |-> acked + i]
    OBVIOUS
  <2>6. /\ msgs \in Seq(Nat) /\ Len(msgs) = last - acked /\ msgs # <<>>
        /\ DOMAIN msgs = 1..(last - acked) /\ msgs[1] = acked + 1
        /\ \A i \in DOMAIN msgs : msgs[i] = acked + i
    <3>1. last - acked \in Nat \ {0}
      <4>1. \A a, b \in Nat : a < b => b - a \in Nat \ {0}
        OBVIOUS
      <4> QED BY <2>3, <2>4, <4>1
    <3>2. msgs \in [1..(last - acked) -> Nat]
      BY <2>3, <2>5
    <3>3. msgs \in Seq(Nat) /\ Len(msgs) = last - acked
      BY <3>1, <3>2, SeqDef
    <3> QED BY <2>3, <2>5, <3>1, <3>3
  <2>7. PostOK(msgs, TRUE, last, received)
    <3>1. \A i \in DOMAIN msgs : msgs[i] = msgs[1] + i - 1
      BY <2>3, <2>4, <2>6
    <3>2. msgs[1] - 1 = acked /\ last - Len(msgs) = acked /\ msgs[1] + Len(msgs) - 1 = last
      <4>1. \A a, b \in Nat : /\ (a + 1) - 1 = a /\ b - (b - a) = a
                               /\ (a + 1) + (b - a) - 1 = b
        OBVIOUS
      <4>2. /\ (acked + 1) - 1 = acked /\ last - (last - acked) = acked
            /\ (acked + 1) + (last - acked) - 1 = last
        BY <2>3, <2>4, <4>1
      <4> QED BY <2>6, <4>2
    <3> QED BY <1>0, <3>1, <3>2 DEF PostOK
  <2>8. \A x \in Posts : PostOK(handlers'[x].msgs, handlers'[x].live, last, received)
    <3>1. TAKE x \in Posts
    <3>2. CASE x = h
      <4>1. handlers'[h].msgs = msgs /\ handlers'[h].live = TRUE
        BY <1>14, <2>1, <2>2, <2>4, <2>5, SendPostEffect
      <4> QED BY <2>7, <3>2, <4>1
    <3>3. CASE x # h
      <4>1. handlers'[x] = handlers[x] /\ ~handlers[x].live
        BY <2>2, <3>3 DEF Only, Handlers
      <4>2. PostOK(handlers[x].msgs, handlers[x].live, posted, received)
        BY <1>0
      <4> QED BY <4>1, <4>2 DEF PostOK
    <3> QED BY <3>2, <3>3
  <2> QED BY <1>0, <2>3, <2>4, <2>8, PostsAreNext DEF Goal
<1>15. ASSUME NEW h \in Gets, SendGet(h) PROVE Goal
  <2>1. \A x \in Posts : x \in Handlers /\ x # h
    BY ConstantFacts DEF Handlers
  <2>2. \A x \in Posts : handlers'[x] = handlers[x]
    <3>1. Only(h)
      BY <1>15, SendGetEffect DEF Handlers
    <3> QED BY <2>1, <3>1 DEF Only
  <2> QED BY <1>0, <1>15, <2>2, PostsAreNext DEF Goal, SendGet
<1> QED BY <1>1, <1>2, <1>3, <1>4, <1>5, <1>6, <1>7, <1>8, <1>9, <1>10, <1>11, <1>12, <1>13,
           <1>14, <1>15, NextCases DEF Goal, Handlers

-----------------------------------------------------------------------------
(* The GETs.                                                               *)

\* IsPrefix, element by element.
LEMMA PrefixFacts ==
  ASSUME NEW S, NEW s \in Seq(S), NEW t \in Seq(S)
  PROVE  IsPrefix(s, t) <=> Len(s) <= Len(t) /\ \A i \in 1..Len(s) : s[i] = t[i]
<1> DEFINE n == Len(s)
<1>0. n \in Nat /\ Len(t) \in Nat
  OBVIOUS
<1>1. SubSeq(s, 1, n) = [i \in 1..n |-> s[i]]
  OBVIOUS
<1>2. SubSeq(t, 1, n) = [i \in 1..n |-> t[i]]
  OBVIOUS
<1>3. SubSeq(s, 1, n) = SubSeq(t, 1, n) <=> \A i \in 1..n : s[i] = t[i]
  <2> DEFINE f == [i \in 1..n |-> s[i]]
             g == [i \in 1..n |-> t[i]]
  <2>1. f = g => \A i \in 1..n : f[i] = g[i]
    OBVIOUS
  <2>2. (\A i \in 1..n : s[i] = t[i]) => f = g
    OBVIOUS
  <2> QED BY <1>1, <1>2, <2>1, <2>2
<1> QED BY <1>3 DEF IsPrefix

\* At every step but the answer and the sending of a GET, no GET is waited for
\* that was not before.
LEMMA LiveStep ==
  ASSUME TypeOK, Next, \A h \in Gets : ~AnswerGet(h) /\ ~SendGet(h)
  PROVE  \A g \in Gets : handlers'[g].live => handlers[g].live /\ handlers'[g].aid = handlers[g].aid
<1> DEFINE Goal ==
      \A g \in Gets : handlers'[g].live => handlers[g].live /\ handlers'[g].aid = handlers[g].aid
<1>a. ASSUME NEW h \in Handlers, Only(h),
             \/ ~handlers'[h].live
             \/ h \in Posts
             \/ Kept(h, {"aid", "live"})
      PROVE  Goal
  BY <1>a, ConstantFacts DEF Only, Kept, Handlers
<1>b. ASSUME NEW h \in Handlers, NEW step, handlers' = Step(h, step) PROVE Goal
  BY <1>a, <1>b, StepEffect DEF Kept
<1>c. ASSUME NEW h \in Handlers, handlers' = [handlers EXCEPT ![h] = Idle] PROVE Goal
  BY <1>a, <1>c, IdleEffect
<1>1. ASSUME Store \/ Terminate PROVE Goal
  BY <1>1 DEF Store, Terminate, webVars
<1>2. ASSUME RunCommit PROVE Goal
  BY <1>2, RunCommitEffect DEF Kept, Handlers
<1> HIDE DEF Goal
<1>3. ASSUME NEW h \in Handlers, TakeLock(h) PROVE Goal
  BY <1>a, <1>3, TakeLockEffect DEF Kept
<1>4. ASSUME NEW h \in Handlers, Refresh(h) PROVE Goal
  BY <1>a, <1>4, RefreshEffect DEF Kept
<1>5. ASSUME NEW h \in Handlers, Refreshed(h) \/ Noop(h) \/ Wake(h) PROVE Goal
  BY <1>b, <1>5 DEF Refreshed, Noop, Wake
<1>6. ASSUME NEW h \in Handlers, RefreshFails(h) PROVE Goal
  BY <1>b, <1>c, <1>6 DEF RefreshFails
<1>7. ASSUME NEW h \in Handlers, AnswerPost(h) \/ Drop(h) PROVE Goal
  BY <1>c, <1>7 DEF AnswerPost, Drop
<1>8. ASSUME NEW h \in Posts, Process(h) \/ QueueCommit(h) \/ PushResult(h) \/ SendPost(h) PROVE Goal
  BY <1>a, <1>8, ProcessEffect, QueueCommitEffect, PushResultEffect, SendPostEffect DEF Handlers
<1>9. ASSUME NEW h \in Handlers, GiveUp(h) PROVE Goal
  BY <1>a, <1>9, GiveUpEffect
<1> QED BY <1>1, <1>2, <1>3, <1>4, <1>5, <1>6, <1>7, <1>8, <1>9, NextCases DEF Goal, Handlers

\* With a GET that the browser waits for it gets all that was pushed.
LEMMA AnswerFacts ==
  ASSUME TypeOK, GetsOK, GotIsAPrefix, NEW h \in Gets, AnswerGet(h)
  PROVE  \/ UNCHANGED <<got, view>>
         \/ /\ handlers' = [handlers EXCEPT ![h] = Idle] /\ \A g \in Gets : handlers[g].live => g = h
            /\ \E body \in Seq(Responses) :
                 got' = got \o body /\ got \o body = pushed /\ view' = FoldLeft(Shown, view, body)
<1>0. /\ got \in Seq(Responses) /\ pushed \in Seq(Responses)
      /\ Len(got) \in Nat /\ Len(pushed) \in Nat
      /\ (Len(got) + 1)..Len(pushed) \subseteq messages /\ messages \subseteq 1..Len(pushed)
  BY DEF TypeOK, GetsOK
<1>1. Len(got) <= Len(pushed) /\ \A i \in 1..Len(got) : got[i] = pushed[i]
  BY <1>0, PrefixFacts DEF GotIsAPrefix
<1> SUFFICES ASSUME ~UNCHANGED <<got, view>>
             PROVE  /\ handlers' = [handlers EXCEPT ![h] = Idle] /\ \A g \in Gets : handlers[g].live => g = h
                    /\ \E body \in Seq(Responses) :
                         got' = got \o body /\ got \o body = pushed /\ view' = FoldLeft(Shown, view, body)
  OBVIOUS
<1>2. /\ handlers' = [handlers EXCEPT ![h] = Idle] /\ handlers[h].live
      /\ \E body : Answered(h, body)
  BY AnswerGetEffect
<1>3. handlers[h].aid = Len(got) /\ \A g \in Gets : handlers[g].live => g = h
  BY <1>2 DEF GetsOK
<1>4. Queued(h) = (Len(got) + 1)..Len(pushed)
  <2>1. \A n, b \in Nat : \A i \in 1..b : i > n <=> i \in (n + 1)..b
    OBVIOUS
  <2> QED BY <1>0, <1>3, <2>1 DEF Queued
<1>5. PICK body : Answered(h, body)
  BY <1>2
<1> DEFINE a == Len(got) + 1
           b == Len(pushed)
<1>6. a <= b
  <2>1. ASSUME ~(a <= b) PROVE FALSE
    <3>1. Queued(h) = {}
      BY <1>0, <1>4, <2>1
    <3> QED BY <1>5, <3>1, FS_EmptySet DEF Answered
  <2> QED BY <2>1
<1>7. /\ a \in Nat /\ b \in Nat /\ Cardinality(a..b) = b - a + 1
      /\ \A i \in 1..(b - a + 1) : InOrder(a..b)[i] = a + i - 1
  <2>1. a \in Nat /\ b \in Nat
    BY <1>0
  <2> HIDE DEF a, b
  <2>2. Cardinality(a..b) = b - a + 1
    BY <1>6, <2>1, FS_Interval
  <2> QED BY <1>6, <2>1, <2>2, InOrderInterval
<1>8. /\ body \in Seq(Responses) /\ Len(body) = b - a + 1 /\ got' = got \o body
      /\ \A i \in 1..(b - a + 1) : body[i] = pushed[a + i - 1]
      /\ view' = FoldLeft(Shown, view, body)
  BY <1>4, <1>5, <1>7 DEF Answered
<1> DEFINE all == got \o body
<1>9. /\ all \in Seq(Responses) /\ Len(all) = Len(got) + Len(body)
      /\ \A i \in 1..Len(got) : all[i] = got[i]
      /\ \A i \in 1..Len(body) : all[Len(got) + i] = body[i]
  BY <1>0, <1>8
<1> HIDE DEF all
<1>10. Len(all) = Len(pushed)
  BY <1>0, <1>7, <1>8, <1>9
<1>11. \A i \in 1..Len(pushed) : all[i] = pushed[i]
  <2>1. TAKE i \in 1..Len(pushed)
  <2>2. CASE i <= Len(got)
    BY <1>0, <1>1, <1>9, <2>2
  <2>3. CASE Len(got) < i
    <3>1. PICK j \in 1..(b - a + 1) : i = Len(got) + j /\ a + j - 1 = i
      <4>1. i - Len(got) \in 1..(b - a + 1)
        BY <1>0, <2>3
      <4>2. i = Len(got) + (i - Len(got)) /\ a + (i - Len(got)) - 1 = i
        BY <1>0
      <4> QED BY <4>1, <4>2
    <3>2. all[Len(got) + j] = body[j] /\ body[j] = pushed[a + j - 1]
      BY <1>8, <1>9
    <3> QED BY <3>1, <3>2
  <2> QED BY <1>0, <2>2, <2>3
<1>12. all = pushed
  <2>1. \A s, t \in Seq(Responses) : Len(s) = Len(t) /\ (\A i \in 1..Len(t) : s[i] = t[i]) => s = t
    OBVIOUS
  <2> QED BY <1>0, <1>9, <1>10, <1>11, <2>1
<1> QED BY <1>2, <1>3, <1>8, <1>12 DEF all

\* What follows what the browser has got is kept, and what it got was pushed.
LEMMA GetsStep ==
  ASSUME TypeOK, CommitsOK, GetsOK, GotIsAPrefix, Next
  PROVE  GetsOK' /\ GotIsAPrefix'
<1>0. /\ got \in Seq(Responses) /\ pushed \in Seq(Responses)
      /\ Len(got) \in Nat /\ Len(pushed) \in Nat
      /\ (Len(got) + 1)..Len(pushed) \subseteq messages /\ messages \subseteq 1..Len(pushed)
  BY DEF TypeOK, GetsOK
<1>1. Len(got) <= Len(pushed) /\ \A i \in 1..Len(got) : got[i] = pushed[i]
  BY <1>0, PrefixFacts DEF GotIsAPrefix
<1>2. CASE \A h \in Gets : ~AnswerGet(h)
  <2>1. Grown /\ got' = got
    BY <1>2, NextGrown
  <2>2. PICK p : p = pushed'
    OBVIOUS
  <2>3. /\ p \in Seq(Responses) /\ Len(p) \in Nat /\ Len(pushed) <= Len(p)
        /\ \A i \in 1..Len(pushed) : p[i] = pushed[i]
        /\ messages' = messages \cup ((Len(pushed) + 1)..Len(p))
    BY <2>1, <2>2 DEF Grown
  <2>4. IsPrefix(got, p)
    <3>1. Len(got) <= Len(p) /\ \A i \in 1..Len(got) : i \in 1..Len(pushed)
      BY <1>0, <1>1, <2>3
    <3>2. \A i \in 1..Len(got) : got[i] = p[i]
      BY <1>1, <2>3, <3>1
    <3> QED BY <1>0, <2>3, <3>1, <3>2, PrefixFacts
  <2>5. (Len(got) + 1)..Len(p) \subseteq messages'
    <3>1. \A a, b, c \in Nat : \A i \in (a + 1)..c : i \in (a + 1)..b \/ i \in (b + 1)..c
      OBVIOUS
    <3>2. \A i \in (Len(got) + 1)..Len(p) :
            i \in (Len(got) + 1)..Len(pushed) \/ i \in (Len(pushed) + 1)..Len(p)
      BY <1>0, <2>3, <3>1
    <3> QED BY <1>0, <2>3, <3>2
  <2>6. \A g \in Gets : handlers'[g].live =>
          handlers'[g].aid = Len(got) /\ \A f \in Gets : handlers'[f].live => f = g
    <3>1. CASE \E h \in Gets : SendGet(h)
      <4>1. PICK h \in Gets : SendGet(h)
        BY <3>1
      <4>2. /\ Only(h) /\ handlers'[h].aid = Len(got) /\ \A g \in Gets : ~handlers[g].live
        BY <4>1, SendGetEffect DEF Handlers
      <4>3. \A g \in Gets : g # h => ~handlers'[g].live
        BY <4>2 DEF Only, Handlers
      <4> QED BY <4>2, <4>3
    <3>2. CASE \A h \in Gets : ~SendGet(h)
      BY <1>2, <3>2, LiveStep DEF GetsOK
    <3> QED BY <3>1, <3>2
  <2> QED BY <2>1, <2>2, <2>4, <2>5, <2>6 DEF GetsOK, GotIsAPrefix
<1>3. CASE \E h \in Gets : AnswerGet(h)
  <2>1. PICK h \in Gets : AnswerGet(h)
    BY <1>3
  <2>2. h \in Handlers
    BY DEF Handlers
  <2>3. Only(h) /\ messages' = Queued(h) /\ pushed' = pushed
    BY <2>1, AnswerGetEffect
  <2>4. handlers[h].aid \in Nat /\ handlers[h].aid <= Len(got) /\ handlers[h].live \in BOOLEAN
    BY <1>0, <2>2, HandlerFacts
  <2>5. (Len(got) + 1)..Len(pushed) \subseteq Queued(h)
    <3>1. \A a, n \in Nat, i \in Int : a <= n /\ n + 1 <= i => i > a
      OBVIOUS
    <3> QED BY <1>0, <2>4, <3>1 DEF Queued
  <2>6. CASE got' = got
    <3>1. \A g \in Gets : handlers'[g].live => handlers[g].live /\ handlers'[g].aid = handlers[g].aid
      <4>1. \/ Kept(h, {"aid", "live"})
            \/ ~handlers'[h].live
        BY <2>1, <2>2, AnswerGetEffect, IdleEffect DEF Kept
      <4> QED BY <2>3, <4>1 DEF Only, Kept, Handlers
    <3> QED BY <2>3, <2>5, <2>6, <3>1 DEF GetsOK, GotIsAPrefix
  <2>7. CASE got' # got
    <3>1. /\ handlers' = [handlers EXCEPT ![h] = Idle] /\ got' = pushed
          /\ \A g \in Gets : handlers[g].live => g = h
      BY <2>1, <2>7, AnswerFacts
    <3>2. \A g \in Gets : ~handlers'[g].live
      <4>1. ~handlers'[h].live
        BY <2>2, <3>1, IdleEffect
      <4> QED BY <2>3, <3>1, <4>1 DEF Only, Handlers
    <3>3. IsPrefix(pushed, pushed)
      BY <1>0, PrefixFacts
    <3>4. (Len(pushed) + 1)..Len(pushed) \subseteq messages'
      BY <1>0
    <3> QED BY <2>3, <3>1, <3>2, <3>3, <3>4 DEF GetsOK, GotIsAPrefix
  <2> QED BY <2>6, <2>7
<1> QED BY <1>2, <1>3

-----------------------------------------------------------------------------
(* What responses make of views.                                           *)

\* None is told apart from what is shown.
LEMMA NoneFacts ==
  /\ None \notin Snapshot /\ None \notin TargetIds /\ None \notin Names
  /\ Nothing \in Snapshot /\ 0 \in Version /\ NoViews \in Views
BY FeedAssumption DEF Snapshot, Version, Nothing, NoViews, Views

\* What a response shows.
LEMMA ShownFacts ==
  ASSUME NEW v \in Views, NEW m \in News
  PROVE  /\ Shown(v, m) \in Views
         /\ m.kind = "add" => Shown(v, m) = [v EXCEPT ![m.id] = Nothing]
         /\ m.kind = "remove" => Shown(v, m) = [v EXCEPT ![m.id] = None]
         /\ m.kind \in {"change", "delete"} /\ v[m.id] # None =>
              Shown(v, m) = [v EXCEPT ![m.id] = [@ EXCEPT ![m.name] = m.version]]
         /\ m.kind \notin {"add", "remove", "change", "delete"} => Shown(v, m) = v
         /\ <<v, m, Shown(v, m)>> \in Showing
<1>1. /\ m.kind \in {"add", "remove", "change", "delete", "current"} => m.id \in TargetIds
      /\ m.kind \in {"change", "delete"} => m.name \in Names
      /\ m.version \in Version
  BY DEF News, Responses
<1>2. \A id \in TargetIds : v[id] # None => v[id] \in Snapshot
  BY DEF Views
<1>3. CASE m.kind = "add"
  <2>1. Shown(v, m) = [v EXCEPT ![m.id] = Nothing]
    BY <1>3 DEF Shown
  <2>2. Shown(v, m) \in Views
    BY <1>1, <1>3, <2>1, NoneFacts DEF Views
  <2> QED BY <1>3, <2>1, <2>2 DEF Showing
<1>4. CASE m.kind = "remove"
  <2>1. Shown(v, m) = [v EXCEPT ![m.id] = None]
    BY <1>4 DEF Shown
  <2>2. Shown(v, m) \in Views
    BY <1>1, <1>4, <2>1 DEF Views
  <2> QED BY <1>4, <2>1, <2>2 DEF Showing
<1>5. CASE m.kind \in {"change", "delete"} /\ v[m.id] # None
  <2>1. Shown(v, m) = [v EXCEPT ![m.id] = [@ EXCEPT ![m.name] = m.version]]
    BY <1>5 DEF Shown
  <2>2. [v[m.id] EXCEPT ![m.name] = m.version] \in Snapshot
    BY <1>1, <1>2, <1>5 DEF Snapshot
  <2>3. Shown(v, m) \in Views
    BY <1>1, <1>5, <2>1, <2>2 DEF Views
  <2> QED BY <1>5, <2>1, <2>3 DEF Showing
<1>6. CASE \/ m.kind \notin {"add", "remove", "change", "delete"}
           \/ m.kind \in {"change", "delete"} /\ v[m.id] = None
  <2>1. Shown(v, m) = v
    BY <1>6 DEF Shown
  <2> QED BY <1>6, <2>1 DEF Showing
<1> QED BY <1>3, <1>4, <1>5, <1>6

\* What responses that set one document, or nothing, make of the views.
LEMMA ShowingDisplays == Displays(Showing, Views, News, None)
<1> SUFFICES ASSUME NEW v \in Views, NEW m \in News
             PROVE  /\ m.kind = "current" => <<v, m, v>> \in Showing
                    /\ m.kind \in {"change", "delete"} /\ v[m.id] # None =>
                         <<v, m, [v EXCEPT ![m.id] = [@ EXCEPT ![m.name] = m.version]]>> \in Showing
  BY DEF Displays
<1> QED BY ShownFacts

\* News turn what is known of the target into what it is now, and touch no
\* other target.
LEMMA NewsOfViews ==
  ASSUME NEW T \in Views, NEW id \in TargetIds, NEW cur \in Snapshot, T[id] # None,
         NEW m, IsNews(m, News, Names, id, T[id], cur)
  PROVE  \E V : /\ Walk(V, Views, News, Showing, T, m)
                /\ V[Len(m)] = [T EXCEPT ![id] = cur]
                /\ \A i \in 0..Len(m), j \in TargetIds : V[i][j] = None <=> T[j] = None
<1>1. AreViews(Views, TargetIds, Names, Version, None)
  BY NoneFacts DEF AreViews, Views, Snapshot
<1>2. cur \in [Names -> Version]
  BY DEF Snapshot
<1> QED BY <1>1, <1>2, ShowingDisplays, NewsWay

\* The fold of the responses is where the walk along them ends.
LEMMA FoldIsWalk ==
  ASSUME NEW v \in Views, NEW V, NEW Q, Walk(V, Views, News, Showing, v, Q)
  PROVE  FoldLeft(Shown, v, Q) = V[Len(Q)]
<1> DEFINE step == [p \in Views \X News |-> Shown(p[1], p[2])]
           D == 1..Len(Q)
           iter == CHOOSE iter : iter = [u \in SUBSET D |->
                     IF u = {} THEN v ELSE Shown(iter[u \ {Max(u)}], Q[Max(u)])]
<1>1. Q \in Seq(News) /\ Len(Q) \in Nat
  BY DEF Walk
<1>2. step \in [Views \X News -> Views] /\ \A w \in Views, m \in News : step[<<w, m>>] = Shown(w, m)
  BY ShownFacts
<1>3. ASSUME NEW u \in SUBSET D, u # {} PROVE Max(u) \in D /\ Q[Max(u)] \in News
  <2>1. Max(u) \in u
    BY <1>1, <1>3, MaxFacts
  <2>2. \A i \in D : Q[i] \in News
    BY <1>1
  <2> QED BY <2>1, <2>2
<1>4. FoldLeft(Shown, v, Q) = iter[D]
  <2>1. DOMAIN Q = D
    BY <1>1
  <2> QED BY <2>1 DEF FoldLeft, MapThenFoldSet
<1> HIDE DEF step
<1>5. PICK h : IsFoldLeft(h, Views, v, News, step, Q)
  BY <1>1, <1>2, FoldLeftExists
<1>6. h \in [SUBSET D -> Views]
  BY <1>5 DEF IsFoldLeft
<1>7. h = [u \in SUBSET D |-> IF u = {} THEN v ELSE Shown(h[u \ {Max(u)}], Q[Max(u)])]
  <2>1. ASSUME NEW u \in SUBSET D
        PROVE  h[u] = IF u = {} THEN v ELSE Shown(h[u \ {Max(u)}], Q[Max(u)])
    <3>1. h[u] = IF u = {} THEN v ELSE step[<<h[u \ {Max(u)}], Q[Max(u)]>>]
      BY <1>5 DEF IsFoldLeft
    <3>2. h[u \ {Max(u)}] \in Views
      BY <1>6
    <3> QED BY <1>2, <1>3, <3>1, <3>2
  <2> QED BY <1>6, <2>1
<1>8. iter = [u \in SUBSET D |-> IF u = {} THEN v ELSE Shown(iter[u \ {Max(u)}], Q[Max(u)])]
  BY <1>7
<1> HIDE DEF iter
<1>9. iter[D] = h[D]
  <2>1. ASSUME NEW u \in SUBSET D
        PROVE  /\ u = {} => iter[u] = v
               /\ u # {} /\ iter[u \ {Max(u)}] \in Views =>
                    iter[u] = step[<<iter[u \ {Max(u)}], Q[Max(u)]>>]
    <3>1. iter[u] = IF u = {} THEN v ELSE Shown(iter[u \ {Max(u)}], Q[Max(u)])
      BY <1>8
    <3> QED BY <1>2, <1>3, <3>1
  <2>2. Follows(iter, Views, v, step, Q)
    BY <2>1 DEF Follows
  <2> QED BY <1>5, <2>2, FoldLeftUnique
<1>10. PICK g \in [0..Len(Q) -> Views] :
         /\ g[0] = v /\ \A i \in 1..Len(Q) : g[i] = step[<<g[i - 1], Q[i]>>]
         /\ g[Len(Q)] = h[1..Len(Q)]
  BY <1>5, FoldLeftChain
<1>11. V \in [0..Len(Q) -> Views] /\ V[0] = v /\ \A i \in 1..Len(Q) : V[i] = Shown(V[i - 1], Q[i])
  BY DEF Walk, Showing
<1>12. \A i \in 0..Len(Q) : g[i] = V[i]
  <2> DEFINE P == {i \in 0..Len(Q) : g[i] = V[i]}
  <2>1. 0 \in P
    BY <1>1, <1>10, <1>11
  <2>2. ASSUME NEW i \in 1..Len(Q), i - 1 \in P PROVE i \in P
    <3>1. i - 1 \in 0..Len(Q) /\ i \in 0..Len(Q) /\ Q[i] \in News
      BY <1>1
    <3>2. g[i] = step[<<g[i - 1], Q[i]>>] /\ V[i] = Shown(V[i - 1], Q[i]) /\ g[i - 1] = V[i - 1]
      BY <1>10, <1>11, <2>2
    <3>3. g[i - 1] \in Views
      BY <1>10, <3>1
    <3> QED BY <1>2, <3>1, <3>2, <3>3
  <2> HIDE DEF P
  <2>3. \A i \in 0..Len(Q) : i \in P
    BY <1>1, <2>1, <2>2, IntervalInduction
  <2> QED BY <2>3 DEF P
<1> QED BY <1>1, <1>4, <1>9, <1>10, <1>12 DEF D

-----------------------------------------------------------------------------
(* The way of the views.                                                   *)

\* WayOK for given values.
WayTo(V, p, g, v, t, taken) ==
  /\ Walk(V, Views, News, Showing, NoViews, p) /\ V[g] = v /\ V[Len(p)] = t
  /\ \A i \in 0..Len(p), id \in TargetIds : V[i][id] # None => Added(id, taken)

\* The way goes on along m, from the views t to w.
GoesOn(U, t, m, w, taken) ==
  /\ Walk(U, Views, News, Showing, t, m) /\ U[Len(m)] = w
  /\ \A i \in 0..Len(m), id \in TargetIds : U[i][id] # None => t[id] # None \/ Added(id, taken)

LEMMA WayIs == WayOK <=> \E V : WayTo(V, pushed, Len(got), view, targets, received)
BY DEF WayOK, WayTo

LEMMA WayIsNext ==
  ASSUME session' = session
  PROVE  WayOK' <=> \E V : WayTo(V, pushed', Len(got'), view', targets', received')
BY DEF WayOK, WayTo, Added, script

\* Nothing is pushed or received.
LEMMA WayKept ==
  ASSUME WayOK, UNCHANGED <<session, pushed, got, view, targets>>, received \subseteq received'
  PROVE  WayOK'
<1>1. PICK V : WayTo(V, pushed, Len(got), view, targets, received)
  BY WayIs
<1>2. WayTo(V, pushed, Len(got), view, targets, received')
  BY <1>1 DEF WayTo, Added
<1> QED BY <1>2, WayIsNext

\* What is pushed goes on with the way.
LEMMA WayGrows ==
  ASSUME NEW V, NEW p, NEW g \in 0..Len(p), NEW v, NEW t, NEW taken, WayTo(V, p, g, v, t, taken),
         NEW m, NEW w, NEW more, taken \subseteq more, NEW U, GoesOn(U, t, m, w, more)
  PROVE  \E Z : WayTo(Z, p \o m, g, v, w, more)
<1>0. /\ Walk(U, Views, News, Showing, t, m) /\ U[Len(m)] = w
      /\ \A i \in 0..Len(m), id \in TargetIds : U[i][id] # None => t[id] # None \/ Added(id, more)
  BY DEF GoesOn
<1>1. Walk(V, Views, News, Showing, NoViews, p) /\ V[g] = v /\ V[Len(p)] = t
  BY DEF WayTo
<1>2. PICK Z : /\ Walk(Z, Views, News, Showing, NoViews, p \o m)
               /\ Len(p \o m) = Len(p) + Len(m)
               /\ \A i \in 0..Len(p) : Z[i] = V[i]
               /\ \A i \in 0..Len(m) : Z[Len(p) + i] = U[i]
  BY <1>0, <1>1, WalkConcat
<1> DEFINE n == Len(p)
           k == Len(m)
<1>3. n \in Nat /\ k \in Nat /\ n \in 0..n /\ k \in 0..k
  BY <1>0, <1>1 DEF Walk
<1>4. Z[g] = v
  BY <1>1, <1>2
<1>5. Z[Len(p \o m)] = w
  BY <1>0, <1>2, <1>3
<1>6. ASSUME NEW id \in TargetIds, t[id] # None PROVE Added(id, more)
  <2>1. n \in 0..Len(p) /\ V[n][id] # None
    BY <1>1, <1>3, <1>6
  <2>2. Added(id, taken)
    BY <2>1 DEF WayTo
  <2> QED BY <2>2 DEF Added
<1>7. ASSUME NEW i \in 0..(n + k), NEW id \in TargetIds, Z[i][id] # None PROVE Added(id, more)
  <2>1. CASE i <= n
    <3>1. i \in 0..n
      BY <1>3, <2>1
    <3>2. V[i][id] # None
      BY <1>2, <1>7, <3>1
    <3> QED BY <3>1, <3>2 DEF WayTo, Added
  <2>2. CASE ~(i <= n)
    <3>1. PICK j \in 0..k : i = n + j
      <4>1. i - n \in 0..k /\ i = n + (i - n)
        BY <1>3, <2>2
      <4> QED BY <4>1
    <3>2. U[j][id] # None
      BY <1>2, <1>7, <3>1
    <3> QED BY <1>0, <1>6, <3>2
  <2> QED BY <2>1, <2>2
<1>8. WayTo(Z, p \o m, g, v, w, more)
  BY <1>2, <1>4, <1>5, <1>7 DEF WayTo
<1> QED BY <1>8

\* The same of a step.
LEMMA WayPushed ==
  ASSUME TypeOK, GotIsAPrefix, WayOK, UNCHANGED <<session, got, view>>, received \subseteq received',
         NEW m, pushed' = pushed \o m, \E U : GoesOn(U, targets, m, targets', received')
  PROVE  WayOK'
<1>1. PICK V : WayTo(V, pushed, Len(got), view, targets, received)
  BY WayIs
<1>2. Len(got) \in 0..Len(pushed)
  BY PrefixFacts DEF TypeOK, GotIsAPrefix
<1>3. PICK more, w : more = received' /\ w = targets'
  OBVIOUS
<1>4. PICK U : GoesOn(U, targets, m, w, more)
  BY <1>3
<1>5. received \subseteq more
  BY <1>3
<1>6. \E Z : WayTo(Z, pushed \o m, Len(got), view, w, more)
  BY <1>1, <1>2, <1>4, <1>5, WayGrows
<1> QED BY <1>3, <1>6, WayIsNext

\* One response is pushed that shows what the targets become.
LEMMA WayPushedOne ==
  ASSUME TypeOK, GotIsAPrefix, WayOK, UNCHANGED <<session, got, view>>, received \subseteq received',
         NEW r \in News, pushed' = pushed \o <<r>>, targets' = Shown(targets, r),
         \A id \in TargetIds : targets'[id] # None => targets[id] # None \/ Added(id, received')
  PROVE  WayOK'
<1>1. targets \in Views
  BY DEF TypeOK, Views
<1>2. PICK w, taken : w = targets' /\ taken = received'
  OBVIOUS
<1>3. w \in Views /\ <<targets, r, w>> \in Showing
  BY <1>1, <1>2, ShownFacts
<1>4. PICK U : Walk(U, Views, News, Showing, targets, <<r>>) /\ U[1] = w
  BY <1>1, <1>3, WalkOne
<1>5. Len(<<r>>) = 1 /\ U[0] = targets /\ \A i \in 0..1 : i = 0 \/ i = 1
  BY <1>4 DEF Walk
<1>6. \A id \in TargetIds : w[id] # None => targets[id] # None \/ Added(id, taken)
  BY <1>2 DEF Added
<1>7. GoesOn(U, targets, <<r>>, w, taken)
  BY <1>4, <1>5, <1>6 DEF GoesOn
<1>8. \E Z : GoesOn(Z, targets, <<r>>, targets', received')
  BY <1>2, <1>7
<1> QED BY <1>8, WayPushed

\* One response is pushed that shows nothing.
LEMMA WayPushedPlain ==
  ASSUME TypeOK, GotIsAPrefix, WayOK, UNCHANGED <<session, got, view, targets>>,
         received \subseteq received',
         NEW kind \in {"stream", "result", "error", "noop", "no_change"}, NEW id \in Nat \cup {None},
         Push(<<Response(kind, id, None, 0)>>)
  PROVE  WayOK'
<1> DEFINE r == Response(kind, id, None, 0)
<1>1. r \in News /\ r.kind = kind
  BY NoneFacts DEF News, Responses, Kinds, Response
<1>2. pushed' = pushed \o <<r>>
  BY DEF Push
<1> HIDE DEF r
<1>3. targets \in Views /\ r.kind \notin {"add", "remove", "change", "delete"}
  BY <1>1 DEF TypeOK, Views
<1>4. Shown(targets, r) = targets
  BY <1>1, <1>3, ShownFacts
<1>5. targets' = Shown(targets, r)
  BY <1>4
<1>6. \A j \in TargetIds : targets'[j] # None => targets[j] # None \/ Added(j, received')
  OBVIOUS
<1> QED BY <1>1, <1>2, <1>5, <1>6, WayPushedOne

\* A message about a target is about one that there is.
LEMMA ScriptFacts ==
  ASSUME TypeOK, NEW n \in DOMAIN script
  PROVE  /\ script[n].kind # "write" => script[n].id \in TargetIds
         /\ script[n].kind = "add" => script[n] = [kind |-> "add", id |-> script[n].id]
         /\ n \in Nat \ {0} /\ script \in Seq([kind : {"write", "add", "remove"}, id : Nat])
<1> DEFINE M == [kind : {"write", "add", "remove"}, id : Nat]
<1>1. session \in Sessions
  BY DEF TypeOK
<1>2. script \in Seq(M) /\ (script[n].kind # "write" => script[n].id \in TargetIds)
  BY <1>1, WebChannelAssumption DEF script
<1>3. n \in Nat \ {0} /\ script[n] \in M
  <2> HIDE DEF M
  <2> QED BY <1>2, PlaceFacts
<1>4. \A m \in M : m.kind = "add" => m = [kind |-> "add", id |-> m.id]
  OBVIOUS
<1> HIDE DEF M
<1> QED BY <1>2, <1>3, <1>4 DEF M

\* A message adds or removes its target and says so.
LEMMA ProcessWay ==
  ASSUME TypeOK, GotIsAPrefix, WayOK, NEW h \in Handlers, Process(h)
  PROVE  WayOK'
<1> DEFINE n == Head(handlers[h].msgs)
           m == script[n]
<1>1. handlers[h].msgs # <<>>
  BY DEF Process
<1>2. n \in DOMAIN script
  BY <1>1, MessageFacts
<1>3. UNCHANGED <<session, got, view>> /\ received' = received \cup {n}
  BY DEF Process
<1>4. \/ UNCHANGED <<pushed, targets>>
      \/ Push(<<Response("stream", n, None, 0)>>) /\ UNCHANGED targets
      \/ /\ m.kind = "add" /\ targets' = [targets EXCEPT ![m.id] = Nothing]
         /\ Push(<<Response("add", m.id, None, 0)>>)
      \/ /\ m.kind = "remove" /\ targets' = [targets EXCEPT ![m.id] = None]
         /\ Push(<<Response("remove", m.id, None, 0)>>)
  BY DEF Process
<1> HIDE DEF n
<1>5. /\ n \in Nat /\ (m.kind # "write" => m.id \in TargetIds)
      /\ m.kind = "add" => m = [kind |-> "add", id |-> m.id]
  BY <1>2, ScriptFacts
<1>6. n \in received' /\ received \subseteq received'
  BY <1>3
<1>7. targets \in Views
  BY DEF TypeOK, Views
<1>8. CASE UNCHANGED <<pushed, targets>>
  BY <1>3, <1>6, <1>8, WayKept
<1>9. CASE Push(<<Response("stream", n, None, 0)>>) /\ UNCHANGED targets
  BY <1>3, <1>5, <1>6, <1>9, WayPushedPlain
<1>10. CASE /\ m.kind = "add" /\ targets' = [targets EXCEPT ![m.id] = Nothing]
            /\ Push(<<Response("add", m.id, None, 0)>>)
  <2> DEFINE r == Response("add", m.id, None, 0)
  <2>1. r \in News /\ r.kind = "add" /\ r.id = m.id
    BY <1>5, <1>10, NoneFacts, ConstantFacts DEF News, Responses, Kinds, Response
  <2>2. pushed' = pushed \o <<r>>
    BY <1>10 DEF Push
  <2> HIDE DEF r
  <2>a. Shown(targets, r) = [targets EXCEPT ![r.id] = Nothing]
    BY <1>7, <2>1, ShownFacts
  <2>3. targets' = Shown(targets, r)
    BY <1>10, <2>1, <2>a
  <2>4. \A id \in TargetIds : targets'[id] # None => targets[id] # None \/ Added(id, received')
    <3>1. Added(m.id, received')
      BY <1>5, <1>6, <1>10 DEF Added
    <3>2. \A id \in TargetIds : id # m.id => targets'[id] = targets[id]
      BY <1>7, <1>10 DEF Views
    <3> QED BY <3>1, <3>2
  <2> QED BY <1>3, <1>6, <2>1, <2>2, <2>3, <2>4, WayPushedOne
<1>11. CASE /\ m.kind = "remove" /\ targets' = [targets EXCEPT ![m.id] = None]
            /\ Push(<<Response("remove", m.id, None, 0)>>)
  <2> DEFINE r == Response("remove", m.id, None, 0)
  <2>1. r \in News /\ r.kind = "remove" /\ r.id = m.id
    BY <1>5, <1>11, NoneFacts, ConstantFacts DEF News, Responses, Kinds, Response
  <2>2. pushed' = pushed \o <<r>>
    BY <1>11 DEF Push
  <2> HIDE DEF r
  <2>a. Shown(targets, r) = [targets EXCEPT ![r.id] = None]
    BY <1>7, <2>1, ShownFacts
  <2>3. targets' = Shown(targets, r)
    BY <1>11, <2>1, <2>a
  <2>4. \A id \in TargetIds : targets'[id] # None => targets[id] # None \/ Added(id, received')
    BY <1>7, <1>11 DEF Views
  <2> QED BY <1>3, <1>6, <2>1, <2>2, <2>3, <2>4, WayPushedOne
<1> QED BY <1>4, <1>8, <1>9, <1>10, <1>11

\* A response for each document of a set.
LEMMA EachTells ==
  ASSUME NEW S, S \subseteq Names, NEW kind \in {"change", "delete"}, NEW id \in TargetIds,
         NEW cur \in Snapshot, NEW m,
         m = [i \in DOMAIN SetToSeq(S) |-> Response(kind, id, SetToSeq(S)[i], cur[SetToSeq(S)[i]])]
  PROVE  Tells(m, News, Names, S, id, cur)
<1> DEFINE s == SetToSeq(S)
<1>1. IsFiniteSet(S)
  BY ConstantFacts, FS_Subset
<1>2. ASSUME NEW i \in DOMAIN s, s[i] \in S
      PROVE  m[i] \in News /\ Sets(m[i], Names, id, cur) /\ m[i].name = s[i]
  <2>1. s[i] \in Names /\ cur[s[i]] \in Version
    BY <1>2 DEF Snapshot
  <2>2. m[i] = Response(kind, id, s[i], cur[s[i]])
    OBVIOUS
  <2>3. m[i] \in News
    BY <2>1, <2>2, ConstantFacts DEF Response, News, Responses, Kinds
  <2> QED BY <2>1, <2>2, <2>3 DEF Response, Sets
<1>3. m = [i \in DOMAIN s |-> m[i]]
  OBVIOUS
<1> QED BY <1>1, <1>2, <1>3, TellsEach

\* The news of a refresh: what changed, what was removed, and perhaps a CURRENT.
LEMMA RefreshNews ==
  ASSUME TypeOK, TodoOK, NEW h \in Handlers, Refresh(h)
  PROVE  LET id == Head(handlers[h].todo)
             cur == Matching(id, docs) IN
         /\ id \in TargetIds /\ targets[id] # None /\ cur \in Snapshot
         /\ targets' = [targets EXCEPT ![id] = cur]
         /\ \E m : IsNews(m, News, Names, id, targets[id], cur) /\ pushed' = pushed \o m
<1> DEFINE id == Head(handlers[h].todo)
           cur == Matching(id, docs)
           changed == Changes(id, cur)
           removed == Removals(id, cur)
           p == [i \in DOMAIN SetToSeq(changed) |->
                   Response("change", id, SetToSeq(changed)[i], cur[SetToSeq(changed)[i]])]
           d == [i \in DOMAIN SetToSeq(removed) |-> Response("delete", id, SetToSeq(removed)[i], 0)]
           q == [i \in DOMAIN SetToSeq(removed) |->
                   Response("delete", id, SetToSeq(removed)[i], cur[SetToSeq(removed)[i]])]
           tail == IF handlers[h].initial THEN <<Response("current", id, None, 0)>> ELSE <<>>
           old == targets[id]
<1>1. pushed' = pushed \o ((p \o d) \o tail) /\ targets' = [targets EXCEPT ![id] = cur]
  BY DEF Refresh, Push
<1>2. id \in TargetIds /\ old # None
  <2>1. handlers[h].todo \in Seq(Nat) /\ handlers[h].todo # <<>> /\ handlers[h].step = "refresh"
    BY HandlerFacts DEF Refresh
  <2>2. id = handlers[h].todo[1] /\ 1 \in 1..Len(handlers[h].todo)
    BY <2>1, TailFacts
  <2> HIDE DEF id
  <2> QED BY <2>1, <2>2 DEF TodoOK
<1>3. cur \in Snapshot
  BY MatchingType
<1>4. changed \subseteq Names /\ removed \subseteq Names /\ \A n \in removed : cur[n] = 0
  BY DEF Changes, Removals
<1>5. \A n \in Names : old[n] = cur[n] \/ n \in changed \/ n \in removed
  <2>1. old \in Snapshot
    BY <1>2 DEF TypeOK
  <2> HIDE DEF id, cur
  <2> QED BY <1>3, <2>1 DEF Removals, Changes, Snapshot
<1> HIDE DEF id, cur, changed, removed, old
<1>6. d = q
  <2>1. IsFiniteSet(removed)
    BY <1>4, ConstantFacts, FS_Subset
  <2>2. \A i \in DOMAIN SetToSeq(removed) : SetToSeq(removed)[i] \in removed
    BY <2>1, SetToSeqFacts
  <2>3. \A i \in DOMAIN SetToSeq(removed) : cur[SetToSeq(removed)[i]] = 0
    BY <1>4, <2>2
  <2> QED BY <2>3
<1>7. Tells(p, News, Names, changed, id, cur)
  BY <1>2, <1>3, <1>4, EachTells
<1>8. Tells(q, News, Names, removed, id, cur)
  BY <1>2, <1>3, <1>4, EachTells
<1>9. tail \in Seq(News) /\ \A k \in 1..Len(tail) : tail[k].kind = "current"
  <2> DEFINE c == Response("current", id, None, 0)
  <2>1. c \in News /\ c.kind = "current"
    BY <1>2, NoneFacts, ConstantFacts DEF Response, News, Responses, Kinds
  <2> HIDE DEF c
  <2>2. <<c>> \in Seq(News) /\ Len(<<c>>) = 1 /\ <<c>>[1] = c
    BY <2>1
  <2>3. <<>> \in Seq(News) /\ Len(<<>>) = 0
    OBVIOUS
  <2>4. tail = <<c>> \/ tail = <<>>
    BY DEF c
  <2> HIDE DEF tail
  <2>5. CASE tail = <<c>>
    BY <2>1, <2>2, <2>5
  <2>6. CASE tail = <<>>
    BY <2>3, <2>6
  <2> QED BY <2>4, <2>5, <2>6
<1> HIDE DEF p, q, d, tail
<1>10. IsNews((p \o q) \o tail, News, Names, id, old, cur)
  BY <1>5, <1>7, <1>8, <1>9, NewsOf
<1>11. \E m : IsNews(m, News, Names, id, old, cur) /\ pushed' = pushed \o m
  BY <1>1, <1>6, <1>10
<1> QED BY <1>1, <1>2, <1>3, <1>11 DEF id, cur, old

\* A refresh tells the browser what the documents of the target are now.
LEMMA RefreshWay ==
  ASSUME TypeOK, GotIsAPrefix, WayOK, TodoOK, NEW h \in Handlers, Refresh(h)
  PROVE  WayOK'
<1>1. PICK id, cur : /\ id \in TargetIds /\ targets[id] # None /\ cur \in Snapshot
                     /\ targets' = [targets EXCEPT ![id] = cur]
                     /\ \E m : IsNews(m, News, Names, id, targets[id], cur) /\ pushed' = pushed \o m
  BY RefreshNews
<1>2. PICK m : IsNews(m, News, Names, id, targets[id], cur) /\ pushed' = pushed \o m
  BY <1>1
<1>3. targets \in Views
  BY DEF TypeOK, Views
<1>4. \E V : /\ Walk(V, Views, News, Showing, targets, m)
              /\ V[Len(m)] = [targets EXCEPT ![id] = cur]
              /\ \A i \in 0..Len(m), j \in TargetIds : V[i][j] = None <=> targets[j] = None
  <2>1. PICK T : T = targets
    OBVIOUS
  <2>2. T \in Views /\ T[id] # None /\ IsNews(m, News, Names, id, T[id], cur)
    BY <1>1, <1>2, <1>3, <2>1
  <2>3. \E V : /\ Walk(V, Views, News, Showing, T, m)
               /\ V[Len(m)] = [T EXCEPT ![id] = cur]
               /\ \A i \in 0..Len(m), j \in TargetIds : V[i][j] = None <=> T[j] = None
    BY <1>1, <2>2, NewsOfViews
  <2> QED BY <2>1, <2>3
<1>a. PICK U : /\ Walk(U, Views, News, Showing, targets, m)
               /\ U[Len(m)] = [targets EXCEPT ![id] = cur]
               /\ \A i \in 0..Len(m), j \in TargetIds : U[i][j] = None <=> targets[j] = None
  BY <1>4
<1>5. PICK w, taken : w = targets' /\ taken = received'
  OBVIOUS
<1>6. GoesOn(U, targets, m, w, taken)
  BY <1>1, <1>a, <1>5 DEF GoesOn
<1>7. \E Z : GoesOn(Z, targets, m, targets', received')
  BY <1>5, <1>6
<1>8. UNCHANGED <<session, got, view, received>>
  BY DEF Refresh
<1> QED BY <1>2, <1>7, <1>8, WayPushed

\* The parts of a sequence over a smaller set are over it.
LEMMA PartsOf ==
  ASSUME NEW S, NEW T, NEW p \in Seq(S), NEW q \in Seq(S), p \o q \in Seq(T)
  PROVE  p \in Seq(T) /\ q \in Seq(T)
<1>1. /\ Len(p) \in Nat /\ Len(q) \in Nat /\ Len(p \o q) = Len(p) + Len(q)
      /\ \A i \in 1..(Len(p) + Len(q)) : (p \o q)[i] = IF i <= Len(p) THEN p[i] ELSE q[i - Len(p)]
  BY ConcatProperties
<1>2. \A i \in 1..(Len(p) + Len(q)) : (p \o q)[i] \in T
  BY <1>1
<1>3. ASSUME NEW i \in 1..Len(p) PROVE p[i] \in T
  <2>1. i \in 1..(Len(p) + Len(q)) /\ i <= Len(p)
    BY <1>1
  <2> QED BY <1>1, <1>2, <2>1
<1>4. ASSUME NEW i \in 1..Len(q) PROVE q[i] \in T
  <2> DEFINE j == Len(p) + i
  <2>1. j \in 1..(Len(p) + Len(q)) /\ ~(j <= Len(p)) /\ j - Len(p) = i
    BY <1>1
  <2> HIDE DEF j
  <2> QED BY <1>1, <1>2, <2>1
<1>5. p = [i \in 1..Len(p) |-> p[i]] /\ q = [i \in 1..Len(q) |-> q[i]]
  OBVIOUS
<1>6. p \in [1..Len(p) -> T] /\ q \in [1..Len(q) -> T]
  BY <1>3, <1>4, <1>5
<1> QED BY <1>1, <1>6, SeqDef

\* An answer brings the browser's views to what the session takes it to know.
LEMMA AnswerWay ==
  ASSUME TypeOK, GetsOK, GotIsAPrefix, WayOK, NEW h \in Gets, AnswerGet(h)
  PROVE  /\ WayOK' /\ pushed' = pushed
         /\ UNCHANGED <<got, view>> \/ (got' = pushed /\ view' = targets)
<1>1. UNCHANGED <<session, pushed, targets, received>>
  BY AnswerGetEffect DEF AnswerGet
<1>2. CASE UNCHANGED <<got, view>>
  BY <1>1, <1>2, WayKept
<1>3. CASE \E body \in Seq(Responses) :
             got' = got \o body /\ got \o body = pushed /\ view' = FoldLeft(Shown, view, body)
  <2>1. PICK body \in Seq(Responses) :
          got' = got \o body /\ got \o body = pushed /\ view' = FoldLeft(Shown, view, body)
    BY <1>3
  <2>2. PICK V : WayTo(V, pushed, Len(got), view, targets, received)
    BY WayIs
  <2>3. /\ Walk(V, Views, News, Showing, NoViews, got \o body) /\ V[Len(got)] = view
        /\ V[Len(pushed)] = targets
    BY <2>1, <2>2 DEF WayTo
  <2>4. got \in Seq(News) /\ body \in Seq(News)
    <3>1. got \in Seq(Responses) /\ got \o body \in Seq(News)
      BY <2>3 DEF TypeOK, Walk
    <3> QED BY <3>1, PartsOf
  <2>5. PICK U : /\ Walk(U, Views, News, Showing, V[Len(got)], body)
                 /\ Len(got \o body) = Len(got) + Len(body)
                 /\ \A i \in 0..Len(body) : U[i] = V[Len(got) + i]
    BY <2>3, <2>4, WalkRest
  <2>6. Len(body) \in 0..Len(body)
    BY <2>4
  <2>7. U[Len(body)] = targets
    BY <2>1, <2>3, <2>5, <2>6
  <2>8. view \in Views /\ Walk(U, Views, News, Showing, view, body)
    <3>1. V[Len(got)] \in Views
      BY <2>5, WalkPlaces
    <3> QED BY <2>3, <2>5, <3>1
  <2>9. view' = targets
    BY <2>1, <2>7, <2>8, FoldIsWalk
  <2>10. WayTo(V, pushed, Len(pushed), targets, targets, received)
    BY <2>2 DEF WayTo
  <2>11. got' = pushed
    BY <2>1
  <2>12. WayTo(V, pushed', Len(got'), view', targets', received')
    BY <1>1, <2>9, <2>10, <2>11
  <2>13. WayOK'
    BY <1>1, <2>12, WayIsNext
  <2> QED BY <1>1, <2>9, <2>11, <2>13
<1> QED BY <1>2, <1>3, AnswerFacts


\* The way goes on with every step.
LEMMA WayStep ==
  ASSUME TypeOK, CommitsOK, GetsOK, GotIsAPrefix, WayOK, TodoOK, Next
  PROVE  WayOK'
<1>1. ASSUME UNCHANGED <<session, pushed, got, view, targets, received>> PROVE WayOK'
  BY <1>1, WayKept
<1>2. ASSUME UNCHANGED <<session, got, view, targets, received>>,
             NEW kind \in {"stream", "result", "error", "noop", "no_change"}, NEW id \in Nat \cup {None},
             Push(<<Response(kind, id, None, 0)>>)
      PROVE  WayOK'
  BY <1>2, WayPushedPlain
<1>3. ASSUME Store \/ RunCommit \/ Terminate PROVE WayOK'
  BY <1>1, <1>3 DEF Store, RunCommit, Terminate, webVars
<1>4. ASSUME NEW h \in Handlers, TakeLock(h) \/ GiveUp(h) \/ Drop(h) \/ SendPost(h) \/ SendGet(h)
      PROVE  WayOK'
  BY <1>1, <1>4 DEF TakeLock, GiveUp, Drop, SendPost, SendGet
<1>5. ASSUME NEW h \in Handlers, Refresh(h) PROVE WayOK'
  BY <1>5, RefreshWay
<1>6. ASSUME NEW h \in Handlers, Refreshed(h) \/ RefreshFails(h) PROVE WayOK'
  <2>1. UNCHANGED <<session, got, view, targets, received>>
    BY <1>6 DEF Refreshed, RefreshFails
  <2>2. PICK kind \in {"error", "no_change"} :
          UNCHANGED pushed \/ Push(<<Response(kind, None, None, 0)>>)
    BY <1>6 DEF Refreshed, RefreshFails
  <2> QED BY <1>1, <1>2, <2>1, <2>2
<1>7. ASSUME NEW h \in Handlers, Process(h) PROVE WayOK'
  BY <1>7, ProcessWay
<1>8. ASSUME NEW h \in Handlers, PushResult(h) PROVE WayOK'
  <2>1. handlers[h].msgs # <<>>
    BY <1>8 DEF PushResult, CommitsOK
  <2>2. Head(handlers[h].msgs) \in Nat
    BY <2>1, MessageFacts
  <2> QED BY <1>2, <1>8, <2>2 DEF PushResult
<1>9. ASSUME NEW h \in Handlers, QueueCommit(h) \/ AnswerPost(h) \/ Wake(h) PROVE WayOK'
  BY <1>1, <1>9 DEF QueueCommit, AnswerPost, Wake
<1>10. ASSUME NEW h \in Handlers, Noop(h) PROVE WayOK'
  BY <1>2, <1>10 DEF Noop
<1>11. ASSUME NEW h \in Gets, AnswerGet(h) PROVE WayOK'
  BY <1>11, AnswerWay
<1> QED BY <1>3, <1>4, <1>5, <1>6, <1>7, <1>8, <1>9, <1>10, <1>11, NextCases DEF Handlers

-----------------------------------------------------------------------------
(* The log and what the browser asked for.                                 *)

\* What was posted, and since when.
LEMMA PostFacts ==
  ASSUME TypeOK, Next
  PROVE  \/ UNCHANGED <<posted, since>>
         \/ \E h \in Posts :
              /\ SendPost(h) /\ posted = acked
              /\ since' = [id \in TargetIds |->
                             IF \E n \in (acked + 1)..posted' : script[n] = [kind |-> "add", id |-> id]
                             THEN Len(log) ELSE since[id]]
<1> DEFINE Goal == UNCHANGED <<posted, since>>
<1>1. ASSUME Store \/ RunCommit \/ Terminate PROVE Goal
  BY <1>1 DEF Store, RunCommit, Terminate, webVars
<1>2. ASSUME NEW h \in Handlers, TakeLock(h) \/ Refresh(h) \/ Refreshed(h) \/ RefreshFails(h)
      PROVE  Goal
  BY <1>2 DEF TakeLock, Refresh, Refreshed, RefreshFails
<1>3. ASSUME NEW h \in Posts, Process(h) \/ QueueCommit(h) \/ PushResult(h) \/ AnswerPost(h)
      PROVE  Goal
  <2>1. Process(h) => Goal
    BY DEF Process
  <2> QED BY <1>3, <2>1 DEF QueueCommit, PushResult, AnswerPost
<1>4. ASSUME NEW h \in Gets, Noop(h) \/ AnswerGet(h) \/ Wake(h) PROVE Goal
  BY <1>4 DEF Noop, AnswerGet, Wake
<1>5. ASSUME NEW h \in Handlers, GiveUp(h) \/ Drop(h) \/ SendGet(h) PROVE Goal
  BY <1>5 DEF GiveUp, Drop, SendGet
<1>6. ASSUME NEW h \in Posts, SendPost(h), ~UNCHANGED <<posted, since>>
      PROVE  /\ posted = acked
             /\ since' = [id \in TargetIds |->
                            IF \E n \in (acked + 1)..posted' : script[n] = [kind |-> "add", id |-> id]
                            THEN Len(log) ELSE since[id]]
  BY <1>6 DEF SendPost
<1> QED BY <1>1, <1>2, <1>3, <1>4, <1>5, <1>6, NextCases DEF Handlers

\* The log ends with the documents and only grows.
LEMMA LogStep ==
  ASSUME TypeOK, LogOK, Next
  PROVE  /\ LogOK' /\ Len(log) \in Nat /\ Len(log') \in Nat /\ Len(log) <= Len(log')
         /\ \A i \in 1..Len(log) : log'[i] = log[i]
<1> DEFINE n == Len(log)
<1>1. log \in Seq(Snapshot) /\ n \in Nat /\ n >= 1 /\ \A id \in TargetIds : since[id] \in 1..n
  BY DEF TypeOK, FeedTypeOK, LogOK
<1>2. CASE Store
  <2>1. Change /\ since' = since
    BY <1>2 DEF Store, webVars
  <2>2. docs' \in Snapshot
    BY <1>2, FeedType DEF FeedTypeOK
  <2>3. log' = Append(log, docs')
    BY <2>1 DEF Change
  <2>4. PICK d, l : d = docs' /\ l = log'
    OBVIOUS
  <2>5. Len(l) = n + 1 /\ l[n + 1] = d /\ \A i \in 1..n : l[i] = log[i]
    BY <1>1, <2>2, <2>3, <2>4, AppendFacts
  <2>6. \A id \in TargetIds : since[id] \in 1..Len(l)
    BY <1>1, <2>5
  <2>7. Len(l) >= 1 /\ l[Len(l)] = d /\ Len(l) \in Nat /\ n <= Len(l)
    BY <1>1, <2>5
  <2> QED BY <1>1, <2>1, <2>4, <2>5, <2>6, <2>7 DEF LogOK
<1>3. CASE ~Store
  <2>1. log' = log /\ docs' = docs
    BY <1>3, QuietFeed DEF feedVars
  <2>2. n \in 1..n
    BY <1>1
  <2> HIDE DEF n
  <2>3. \A id \in TargetIds : since'[id] = since[id] \/ since'[id] = n
    BY PostFacts DEF n
  <2>4. \A id \in TargetIds : since'[id] \in 1..n
    BY <1>1, <2>2, <2>3
  <2> QED BY <1>1, <2>1, <2>4 DEF LogOK, n
<1> QED BY <1>2, <1>3

\* A target whose message was taken in was not asked for later.
LEMMA SinceStays ==
  ASSUME TypeOK, PostedOK, Next, NEW id \in TargetIds, Added(id, received)
  PROVE  since'[id] = since[id]
<1>1. CASE UNCHANGED <<posted, since>>
  BY <1>1
<1>2. CASE \E h \in Posts :
             /\ SendPost(h) /\ posted = acked
             /\ since' = [j \in TargetIds |->
                            IF \E n \in (acked + 1)..posted' : script[n] = [kind |-> "add", id |-> j]
                            THEN Len(log) ELSE since[j]]
  <2>1. PICK h \in Posts :
          /\ SendPost(h) /\ posted = acked
          /\ since' = [j \in TargetIds |->
                         IF \E n \in (acked + 1)..posted' : script[n] = [kind |-> "add", id |-> j]
                         THEN Len(log) ELSE since[j]]
    BY <1>2
  <2>2. posted' \in Nat /\ posted' <= Len(script) /\ acked \in Nat
    <3>1. h \in Handlers /\ acked \in Nat
      BY DEF Handlers, TypeOK
    <3> QED BY <2>1, <3>1, SendPostEffect
  <2>3. PICK m \in received : script[m] = [kind |-> "add", id |-> id]
    BY DEF Added
  <2>4. m \in DOMAIN script /\ m \in Nat /\ m <= acked
    BY <2>1, <2>2 DEF PostedOK, TypeOK
  <2>5. ASSUME NEW n \in (acked + 1)..posted', script[n] = [kind |-> "add", id |-> id] PROVE FALSE
    <3>1. PICK p : p = posted'
      OBVIOUS
    <3>2. n \in Nat /\ n >= 1 /\ n <= Len(script) /\ n > acked
      BY <2>2, <3>1
    <3>3. n \in DOMAIN script
      BY <2>4, <3>2, ScriptFacts
    <3>4. script[n].kind = "add" /\ script[m] = script[n]
      BY <2>3, <2>5
    <3>5. n = m
      BY <2>4, <3>3, <3>4, WebChannelAssumption DEF script, TypeOK
    <3> QED BY <2>2, <2>4, <3>2, <3>5
  <2> QED BY <2>1, <2>5
<1> QED BY <1>1, <1>2, PostFacts

\* What a POST still stands for after a step.
LEMMA MsgsStep ==
  ASSUME TypeOK, CommitsOK, Next, NEW p \in Posts
  PROVE  \/ handlers'[p].msgs = handlers[p].msgs \/ handlers'[p].msgs = <<>>
         \/ handlers[p].msgs # <<>> /\ handlers'[p].msgs = Tail(handlers[p].msgs)
         \/ SendPost(p)
<1> DEFINE Goal ==
      \/ handlers'[p].msgs = handlers[p].msgs \/ handlers'[p].msgs = <<>>
      \/ handlers[p].msgs # <<>> /\ handlers'[p].msgs = Tail(handlers[p].msgs)
      \/ SendPost(p)
<1>0. p \in Handlers
  BY DEF Handlers
<1>a. ASSUME NEW h \in Handlers, Only(h),
             \/ handlers'[h].msgs = handlers[h].msgs \/ handlers'[h].msgs = <<>>
             \/ handlers[h].msgs # <<>> /\ handlers'[h].msgs = Tail(handlers[h].msgs)
      PROVE  Goal
  BY <1>0, <1>a DEF Only
<1>b. ASSUME NEW h \in Handlers, NEW step, handlers' = Step(h, step) PROVE Goal
  BY <1>a, <1>b, StepEffect DEF Kept
<1>c. ASSUME NEW h \in Handlers, handlers' = [handlers EXCEPT ![h] = Idle] PROVE Goal
  BY <1>a, <1>c, IdleEffect
<1>1. ASSUME Store \/ Terminate PROVE Goal
  BY <1>1 DEF Store, Terminate, webVars
<1>2. ASSUME RunCommit PROVE Goal
  BY <1>0, <1>2, RunCommitEffect DEF Kept
<1>14. ASSUME NEW h \in Posts, SendPost(h) PROVE Goal
  <2>1. Only(h)
    BY <1>14, SendPostEffect DEF Handlers
  <2>2. CASE h = p
    BY <1>14, <2>2
  <2>3. CASE h # p
    BY <1>0, <2>1, <2>3 DEF Only
  <2> QED BY <2>2, <2>3
<1> HIDE DEF Goal
<1>3. ASSUME NEW h \in Handlers, TakeLock(h) PROVE Goal
  BY <1>a, <1>3, TakeLockEffect DEF Kept
<1>4. ASSUME NEW h \in Handlers, Refresh(h) PROVE Goal
  BY <1>a, <1>4, RefreshEffect DEF Kept
<1>5. ASSUME NEW h \in Handlers, Refreshed(h) \/ Noop(h) \/ Wake(h) PROVE Goal
  BY <1>b, <1>5 DEF Refreshed, Noop, Wake
<1>6. ASSUME NEW h \in Handlers, RefreshFails(h) PROVE Goal
  BY <1>b, <1>c, <1>6 DEF RefreshFails
<1>7. ASSUME NEW h \in Handlers, AnswerPost(h) \/ Drop(h) PROVE Goal
  BY <1>c, <1>7 DEF AnswerPost, Drop
<1>8. ASSUME NEW h \in Handlers, Process(h) PROVE Goal
  BY <1>a, <1>8, ProcessEffect
<1>9. ASSUME NEW h \in Handlers, QueueCommit(h) PROVE Goal
  BY <1>a, <1>9, QueueCommitEffect DEF Kept
<1>10. ASSUME NEW h \in Handlers, PushResult(h) PROVE Goal
  <2>1. handlers[h].msgs # <<>>
    BY <1>10 DEF PushResult, CommitsOK
  <2> QED BY <1>a, <1>10, <2>1, PushResultEffect
<1>11. ASSUME NEW h \in Gets, AnswerGet(h) PROVE Goal
  <2>1. \/ Only(h) /\ Kept(h, {"msgs"})
        \/ handlers' = [handlers EXCEPT ![h] = Idle]
    BY <1>11, AnswerGetEffect DEF Kept
  <2> QED BY <1>a, <1>c, <2>1 DEF Kept, Handlers
<1>12. ASSUME NEW h \in Handlers, GiveUp(h) PROVE Goal
  BY <1>a, <1>12, GiveUpEffect DEF Kept
<1>13. ASSUME NEW h \in Handlers, SendGet(h) PROVE Goal
  BY <1>a, <1>13, SendGetEffect
<1> QED BY <1>1, <1>2, <1>3, <1>4, <1>5, <1>6, <1>7, <1>8, <1>9, <1>10, <1>11, <1>12, <1>13,
           <1>14, NextCases DEF Goal, Handlers

\* Nothing is taken in that was not posted.
LEMMA PostedStep ==
  ASSUME TypeOK, CommitsOK, PostedOK, Next
  PROVE  PostedOK'
<1>0. acked \in Nat /\ posted \in Nat /\ acked <= posted /\ \A n \in received : n \in 1..posted
  BY DEF TypeOK, PostedOK
<1>1. PICK b : b = posted'
  OBVIOUS
<1>2. b \in Nat /\ posted <= b
  <2>1. CASE posted' = posted
    BY <1>0, <1>1, <2>1
  <2>2. CASE posted' # posted
    <3>1. PICK h \in Posts : SendPost(h) /\ posted = acked
      BY <2>2, PostFacts
    <3>2. posted' \in Nat /\ acked < posted'
      BY <3>1, SendPostEffect DEF Handlers
    <3> QED BY <1>0, <1>1, <3>1, <3>2
  <2> QED BY <2>1, <2>2
<1>3. \A p \in Posts : \A i \in DOMAIN handlers[p].msgs :
        handlers[p].msgs[i] \in Nat /\ handlers[p].msgs[i] <= posted
  <2> SUFFICES ASSUME NEW p \in Posts, NEW i \in DOMAIN handlers[p].msgs
               PROVE  handlers[p].msgs[i] \in Nat /\ handlers[p].msgs[i] <= posted
    OBVIOUS
  <2>1. handlers[p].msgs \in Seq(DOMAIN script) /\ script \in Seq([kind : {"write", "add", "remove"}, id : Nat])
    BY HandlerFacts DEF Handlers
  <2>2. handlers[p].msgs[i] \in DOMAIN script
    BY <2>1, PlaceFacts
  <2> QED BY <2>1, <2>2, PlaceFacts DEF PostedOK
<1>4. received' \subseteq 1..b
  <2>1. received \subseteq 1..b
    BY <1>0, <1>2
  <2>2. CASE received' = received
    BY <2>1, <2>2
  <2>3. CASE \E h \in Handlers : Process(h)
    <3>1. PICK h \in Handlers : Process(h)
      BY <2>3
    <3>2. received' = received \cup {handlers[h].msgs[1]} /\ handlers[h].msgs # <<>> /\ h \in Posts
      <4>1. handlers[h].step = "process"
        BY <3>1 DEF Process
      <4>2. h \in Posts
        BY <4>1, HandlerFacts DEF Handlers, GetSteps
      <4> QED BY <3>1, <4>2, ProcessEffect
    <3>3. 1 \in DOMAIN handlers[h].msgs
      BY <3>2, HandlerFacts, TailFacts
    <3>4. handlers[h].msgs[1] \in Nat \ {0} /\ handlers[h].msgs[1] <= posted
      BY <1>3, <3>2, <3>3, MessageFacts DEF Handlers
    <3>5. handlers[h].msgs[1] \in 1..b
      BY <1>0, <1>2, <3>4
    <3> QED BY <2>1, <3>2, <3>5
  <2>4. (\A h \in Handlers : ~Process(h)) => received' = received
    <3> SUFFICES ASSUME \A h \in Handlers : ~Process(h) PROVE received' = received
      OBVIOUS
    <3>1. ASSUME Store \/ RunCommit \/ Terminate PROVE received' = received
      BY <3>1 DEF Store, RunCommit, Terminate, webVars
    <3>2. ASSUME NEW h \in Handlers, \/ TakeLock(h) \/ Refresh(h) \/ Refreshed(h) \/ RefreshFails(h)
                                     \/ GiveUp(h) \/ Drop(h)
          PROVE  received' = received
      BY <3>2 DEF TakeLock, Refresh, Refreshed, RefreshFails, GiveUp, Drop
    <3>3. ASSUME NEW h \in Handlers, \/ QueueCommit(h) \/ PushResult(h) \/ AnswerPost(h)
                                     \/ Noop(h) \/ AnswerGet(h) \/ Wake(h)
          PROVE  received' = received
      BY <3>3 DEF QueueCommit, PushResult, AnswerPost, Noop, AnswerGet, Wake
    <3>4. ASSUME NEW h \in Handlers, SendPost(h) \/ SendGet(h) PROVE received' = received
      BY <3>4 DEF SendPost, SendGet
    <3> QED BY <3>1, <3>2, <3>3, <3>4, NextCases DEF Handlers
  <2> QED BY <2>2, <2>3, <2>4
<1>5. ASSUME NEW p \in Posts, NEW i \in DOMAIN handlers'[p].msgs PROVE handlers'[p].msgs[i] <= b
  <2> DEFINE s == handlers[p].msgs
  <2>0. s \in Seq(DOMAIN script) /\ \A j \in DOMAIN s : s[j] \in Nat /\ s[j] <= posted
    BY <1>3, HandlerFacts DEF Handlers
  <2> HIDE DEF s
  <2>1. CASE handlers'[p].msgs = s
    BY <1>0, <1>2, <1>5, <2>0, <2>1
  <2>2. CASE handlers'[p].msgs = <<>>
    BY <1>5, <2>2
  <2>3. CASE s # <<>> /\ handlers'[p].msgs = Tail(s)
    <3>1. i \in 1..(Len(s) - 1) /\ Tail(s)[i] = s[i + 1] /\ i + 1 \in DOMAIN s
      <4>1. DOMAIN Tail(s) = 1..(Len(s) - 1) /\ DOMAIN s = 1..Len(s) /\ Len(s) \in Nat \ {0}
        BY <2>0, <2>3, TailFacts
      <4>2. i \in DOMAIN Tail(s)
        BY <1>5, <2>3
      <4> QED BY <2>0, <2>3, <4>1, <4>2, TailFacts
    <3> QED BY <1>0, <1>2, <2>0, <2>3, <3>1
  <2>4. CASE SendPost(p)
    <3>1. handlers'[p].msgs = [j \in 1..(posted' - acked) |-> acked + j]
      BY <2>4, SendPostEffect DEF Handlers
    <3>2. handlers'[p].msgs = [j \in 1..(b - acked) |-> acked + j]
      BY <1>1, <3>1
    <3>3. i \in 1..(b - acked) /\ handlers'[p].msgs[i] = acked + i
      BY <1>5, <3>2
    <3> QED BY <1>0, <1>2, <3>3
  <2> QED BY <2>1, <2>2, <2>3, <2>4, MsgsStep DEF s
<1> QED BY <1>1, <1>4, <1>5 DEF PostedOK

-----------------------------------------------------------------------------
(* The refreshes.                                                          *)

\* The todo of a GET: every target of the session.
LEMMA TakeLockTodo ==
  ASSUME TypeOK, NEW h \in Handlers, TakeLock(h), handlers'[h].step = "refresh"
  PROVE  LET todo == handlers'[h].todo IN
         /\ UNCHANGED <<targets, pushed>>
         /\ \A i \in 1..Len(todo) : todo[i] \in TargetIds /\ targets[todo[i]] # None
         /\ \A id \in TargetIds : targets[id] # None => \E i \in 1..Len(todo) : todo[i] = id
<1> DEFINE ids == {id \in TargetIds : targets[id] # None}
           s == InOrder(ids)
<1>1. UNCHANGED <<targets, pushed>>
  BY DEF TakeLock
<1>2. DOMAIN handlers = Handlers /\ DOMAIN handlers[h] = DOMAIN Idle
  BY DEF TypeOK, HandlersTypeOK
<1>3. ids \subseteq Nat /\ IsFiniteSet(ids)
  <2>1. ids \in SUBSET TargetIds /\ TargetIds \subseteq Nat /\ IsFiniteSet(TargetIds)
    BY ConstantFacts
  <2> HIDE DEF ids
  <2> QED BY <2>1, FS_Subset
<1>4. \/ handlers' = Step(h, IF h \in Posts THEN "process" ELSE "noop")
      \/ handlers' = [handlers EXCEPT ![h].step = "refresh", ![h].changed = FALSE,
                        ![h].initial = FALSE, ![h].todo = s]
  BY DEF TakeLock
<1>5. /\ s \in Seq(ids) /\ \A x \in ids : \E i \in 1..Len(s) : s[i] = x
  <2> HIDE DEF ids
  <2> QED BY <1>3, InOrderFacts, InOrderCovers
<1> HIDE DEF s
<1>6. handlers'[h].todo = s
  <2>1. CASE handlers' = Step(h, IF h \in Posts THEN "process" ELSE "noop")
    <3>1. handlers'[h].step \in {"process", "noop"}
      BY <2>1, StepEffect
    <3> QED BY <3>1
  <2>2. CASE handlers' = [handlers EXCEPT ![h].step = "refresh", ![h].changed = FALSE,
                            ![h].initial = FALSE, ![h].todo = s]
    BY <1>2, <2>2 DEF Idle
  <2> QED BY <1>4, <2>1, <2>2
<1>7. \A i \in 1..Len(s) : s[i] \in ids
  <2> HIDE DEF ids
  <2> QED BY <1>5
<1> QED BY <1>1, <1>5, <1>6, <1>7

\* A POST refreshes the target that it adds.
LEMMA ProcessTodo ==
  ASSUME TypeOK, NEW h \in Handlers, Process(h), handlers'[h].step = "refresh"
  PROVE  \E id \in TargetIds : handlers'[h].todo = <<id>> /\ targets' = [targets EXCEPT ![id] = Nothing]
<1> DEFINE n == Head(handlers[h].msgs)
           m == script[n]
           rest == [handlers EXCEPT ![h].msgs = Tail(@)]
<1>1. handlers[h].msgs # <<>> /\ handlers[h].step = "process"
  BY DEF Process
<1>2. DOMAIN handlers = Handlers /\ DOMAIN handlers[h] = DOMAIN Idle
  BY DEF TypeOK, HandlersTypeOK
<1>3. \/ handlers' = rest
      \/ handlers' = Step(h, "commit")
      \/ /\ m.kind = "add" /\ targets' = [targets EXCEPT ![m.id] = Nothing]
         /\ handlers' = [rest EXCEPT ![h].step = "refresh", ![h].todo = <<m.id>>,
                           ![h].changed = FALSE, ![h].initial = TRUE]
  BY DEF Process
<1>4. n \in DOMAIN script
  BY <1>1, MessageFacts
<1>5. DOMAIN rest = Handlers /\ DOMAIN rest[h] = DOMAIN Idle /\ rest[h].step = "process"
  BY <1>1, <1>2 DEF Idle
<1> HIDE DEF rest, n
<1>6. handlers' # rest
  BY <1>5
<1>7. handlers' # Step(h, "commit")
  BY StepEffect
<1>8. /\ m.kind = "add" /\ targets' = [targets EXCEPT ![m.id] = Nothing]
      /\ handlers' = [rest EXCEPT ![h].step = "refresh", ![h].todo = <<m.id>>,
                        ![h].changed = FALSE, ![h].initial = TRUE]
  BY <1>3, <1>6, <1>7
<1>9. handlers'[h].todo = <<m.id>>
  BY <1>5, <1>8 DEF Idle
<1>10. m.id \in TargetIds
  BY <1>4, <1>8, ScriptFacts
<1> QED BY <1>8, <1>9, <1>10

\* The handler that refreshes or answers keeps the others from the session.
LEMMA WorkStep ==
  ASSUME TypeOK, LockOK, Next, NEW g \in Handlers, handlers'[g].step \in {"refresh", "queued"}
  PROVE  \/ TakeLock(g) \/ Refresh(g) \/ Refreshed(g) \/ Noop(g) \/ Process(g)
         \/ /\ handlers'[g].step = handlers[g].step /\ handlers'[g].todo = handlers[g].todo
            /\ UNCHANGED <<targets, pushed>>
<1> DEFINE Same == /\ handlers'[g].step = handlers[g].step /\ handlers'[g].todo = handlers[g].todo
                   /\ UNCHANGED <<targets, pushed>>
           Goal == \/ TakeLock(g) \/ Refresh(g) \/ Refreshed(g) \/ Noop(g) \/ Process(g)
                   \/ Same
<1>a. ASSUME NEW h \in Handlers, Only(h), handlers[h].step \in Holding PROVE h = g
  <2>1. CASE h # g
    <3>1. handlers[g].step \in {"refresh", "queued"}
      BY <1>a, <2>1 DEF Only
    <3> QED BY <1>a, <3>1 DEF LockOK, Holding
  <2> QED BY <2>1
<1>b. ASSUME NEW h \in Handlers, Only(h), UNCHANGED <<targets, pushed>>,
             handlers'[h].step \notin {"refresh", "queued"}
      PROVE  Same
  <2>1. h # g
    BY <1>b
  <2> QED BY <1>b, <2>1 DEF Only
<1>c. ASSUME NEW h \in Handlers, NEW step, handlers' = Step(h, step), UNCHANGED <<targets, pushed>>,
             step \notin {"refresh", "queued"}
      PROVE  Same
  BY <1>b, <1>c, StepEffect
<1>d. ASSUME NEW h \in Handlers, handlers' = [handlers EXCEPT ![h] = Idle], UNCHANGED <<targets, pushed>>
      PROVE  Same
  BY <1>b, <1>d, IdleEffect
<1>1. ASSUME Store \/ Terminate PROVE Goal
  <2>1. Same
    BY <1>1 DEF Store, Terminate, webVars
  <2> QED BY <2>1
<1>2. ASSUME RunCommit PROVE Goal
  <2>1. handlers'[g].step = handlers[g].step /\ handlers'[g].todo = handlers[g].todo
    BY <1>2, RunCommitEffect DEF Kept
  <2>2. Same
    BY <1>2, <2>1 DEF RunCommit
  <2> QED BY <2>2
<1>3. ASSUME NEW h \in Handlers, TakeLock(h) PROVE Goal
  <2>1. CASE h = g
    BY <1>3, <2>1
  <2>2. CASE h # g
    <3>1. handlers'[g] = handlers[g]
      BY <1>3, <2>2, TakeLockEffect DEF Only
    <3>2. UNCHANGED <<targets, pushed>>
      BY <1>3 DEF TakeLock
    <3> QED BY <3>1, <3>2
  <2> QED BY <2>1, <2>2
<1>4. ASSUME NEW h \in Handlers, Refresh(h) PROVE Goal
  <2>1. h = g
    BY <1>a, <1>4, RefreshEffect DEF Holding
  <2> QED BY <1>4, <2>1
<1>5. ASSUME NEW h \in Handlers, Refreshed(h) \/ Noop(h) PROVE Goal
  <2>1. Only(h) /\ handlers[h].step \in Holding
    BY <1>5, StepEffect DEF Refreshed, Noop, Holding
  <2>2. h = g
    BY <1>a, <2>1
  <2> QED BY <1>5, <2>2
<1>6. ASSUME NEW h \in Handlers, RefreshFails(h) PROVE Goal
  <2>1. Only(h) /\ handlers[h].step \in Holding /\ handlers'[h].step \in {"process", "idle"}
    BY <1>6, StepEffect, IdleEffect DEF RefreshFails, Holding
  <2>2. h = g
    BY <1>a, <2>1
  <2> QED BY <2>1, <2>2
<1>7. ASSUME NEW h \in Handlers, AnswerPost(h) \/ Drop(h) PROVE Goal
  <2>1. Same
    BY <1>d, <1>7 DEF AnswerPost, Drop
  <2> QED BY <2>1
<1>8. ASSUME NEW h \in Handlers, Process(h) PROVE Goal
  <2>1. h = g
    BY <1>a, <1>8, ProcessEffect DEF Holding
  <2> QED BY <1>8, <2>1
<1>9. ASSUME NEW h \in Handlers, QueueCommit(h) PROVE Goal
  <2>1. Only(h) /\ handlers'[h].step \in {"job", "result"}
    BY <1>9, QueueCommitEffect
  <2>2. Same
    BY <1>b, <1>9, <2>1 DEF QueueCommit
  <2> QED BY <2>2
<1>10. ASSUME NEW h \in Handlers, PushResult(h) PROVE Goal
  <2>1. Only(h) /\ handlers[h].step \in Holding /\ handlers'[h].step = "process"
    BY <1>10, PushResultEffect DEF Holding
  <2>2. h = g
    BY <1>a, <2>1
  <2> QED BY <2>1, <2>2
<1>11. ASSUME NEW h \in Gets, AnswerGet(h) PROVE Goal
  <2>1. h \in Handlers /\ UNCHANGED <<targets, pushed>>
    BY <1>11 DEF Handlers, AnswerGet
  <2>2. \/ Only(h) /\ handlers'[h].step = "hang"
        \/ handlers' = [handlers EXCEPT ![h] = Idle]
    BY <1>11, AnswerGetEffect
  <2>3. Same
    BY <1>b, <1>d, <2>1, <2>2
  <2> QED BY <2>3
<1>12. ASSUME NEW h \in Handlers, Wake(h) PROVE Goal
  <2>1. Same
    BY <1>c, <1>12 DEF Wake
  <2> QED BY <2>1
<1>13. ASSUME NEW h \in Handlers, GiveUp(h) PROVE Goal
  <2>1. handlers'[g].step = handlers[g].step /\ handlers'[g].todo = handlers[g].todo
    BY <1>13, GiveUpEffect DEF Only, Kept
  <2>2. Same
    BY <1>13, <2>1 DEF GiveUp
  <2> QED BY <2>2
<1>14. ASSUME NEW h \in Handlers, SendPost(h) \/ SendGet(h) PROVE Goal
  <2>1. Only(h) /\ handlers'[h].step = "wait" /\ UNCHANGED <<targets, pushed>>
    BY <1>14, SendPostEffect, SendGetEffect DEF SendPost, SendGet
  <2>2. Same
    BY <1>b, <2>1
  <2> QED BY <2>2
<1> QED BY <1>1, <1>2, <1>3, <1>4, <1>5, <1>6, <1>7, <1>8, <1>9, <1>10, <1>11, <1>12, <1>13,
           <1>14, NextCases DEF Handlers

\* A refresh goes on to targets that the session has.
LEMMA TodoStep ==
  ASSUME TypeOK, LockOK, TodoOK, Next
  PROVE  TodoOK'
<1> SUFFICES ASSUME NEW g \in Handlers, handlers'[g].step = "refresh",
                    NEW i \in 1..Len(handlers'[g].todo)
             PROVE  handlers'[g].todo[i] \in TargetIds /\ targets'[handlers'[g].todo[i]] # None
  BY DEF TodoOK
<1>0. targets \in Views
  BY DEF TypeOK, Views
<1>1. CASE TakeLock(g)
  <2>1. /\ handlers'[g].todo[i] \in TargetIds /\ targets[handlers'[g].todo[i]] # None
        /\ targets' = targets
    BY <1>1, TakeLockTodo
  <2> QED BY <2>1
<1>2. CASE Refresh(g)
  <2> DEFINE s == handlers[g].todo
  <2>1. /\ handlers'[g].todo = Tail(s) /\ s # <<>> /\ handlers[g].step = "refresh" /\ s \in Seq(Nat)
    BY <1>2, RefreshEffect, HandlerFacts
  <2>2. PICK id, cur : cur # None /\ targets' = [targets EXCEPT ![id] = cur]
    <3>1. PICK id, cur : cur \in Snapshot /\ targets' = [targets EXCEPT ![id] = cur]
      BY <1>2, RefreshNews
    <3> QED BY <3>1, NoneFacts
  <2>3. \A j \in 1..Len(s) : s[j] \in TargetIds /\ targets[s[j]] # None
    BY <2>1 DEF TodoOK
  <2> HIDE DEF s
  <2>4. Len(Tail(s)) = Len(s) - 1 /\ Len(s) \in Nat /\ \A j \in 1..(Len(s) - 1) : Tail(s)[j] = s[j + 1]
    BY <2>1, TailFacts
  <2>5. i \in 1..(Len(s) - 1) /\ handlers'[g].todo[i] = s[i + 1] /\ i + 1 \in 1..Len(s)
    BY <2>1, <2>4
  <2>6. PICK x : x = s[i + 1]
    OBVIOUS
  <2>7. x \in TargetIds /\ targets[x] # None
    BY <2>3, <2>5, <2>6
  <2>8. targets'[x] # None
    BY <1>0, <2>2, <2>7 DEF Views
  <2> QED BY <2>5, <2>6, <2>7, <2>8
<1>3. CASE Refreshed(g) \/ Noop(g)
  <2>1. handlers'[g].step \in {"process", "queued"}
    BY <1>3, StepEffect DEF Refreshed, Noop
  <2> QED BY <2>1
<1>4. CASE Process(g)
  <2>1. PICK id \in TargetIds :
          handlers'[g].todo = <<id>> /\ targets' = [targets EXCEPT ![id] = Nothing]
    BY <1>4, ProcessTodo
  <2>2. i = 1
    BY <2>1
  <2>3. targets'[id] # None
    BY <1>0, <2>1, NoneFacts DEF Views
  <2> QED BY <2>1, <2>2, <2>3
<1>5. CASE /\ handlers'[g].step = handlers[g].step /\ handlers'[g].todo = handlers[g].todo
           /\ UNCHANGED <<targets, pushed>>
  BY <1>5 DEF TodoOK
<1> QED BY <1>1, <1>2, <1>3, <1>4, <1>5, WorkStep

\* A view that is up to date stays so when the log grows.
LEMMA UpToDateStays ==
  ASSUME TypeOK, LogOK, PostedOK, Next, NEW id \in TargetIds, Added(id, received), NEW v,
         UpToDate(id, v, since[id], log)
  PROVE  UpToDate(id, v, since'[id], log')
<1>1. since'[id] = since[id]
  BY SinceStays
<1>2. PICK k, l : k = log' /\ l = log
  OBVIOUS
<1>3. /\ Len(l) \in Nat /\ Len(k) \in Nat /\ Len(l) <= Len(k)
      /\ \A i \in 1..Len(l) : k[i] = l[i]
  BY <1>2, LogStep
<1>4. since[id] \in 1..Len(l)
  BY <1>2 DEF LogOK
<1>5. PICK j \in since[id]..Len(l) : v = Matching(id, l[j])
  BY <1>2 DEF UpToDate
<1>6. j \in 1..Len(l) /\ j \in since[id]..Len(k)
  BY <1>3, <1>4
<1>7. v = Matching(id, k[j])
  BY <1>3, <1>5, <1>6
<1> QED BY <1>1, <1>2, <1>6, <1>7 DEF UpToDate

\* Only targets that were asked for are known or shown.
LEMMA WayAdded ==
  ASSUME TypeOK, GotIsAPrefix, WayOK
  PROVE  \A id \in TargetIds : targets[id] # None \/ view[id] # None => Added(id, received)
<1>1. PICK V : WayTo(V, pushed, Len(got), view, targets, received)
  BY WayIs
<1>2. Len(got) \in 0..Len(pushed) /\ Len(pushed) \in 0..Len(pushed)
  BY PrefixFacts DEF TypeOK, GotIsAPrefix
<1>3. V[Len(got)] = view /\ V[Len(pushed)] = targets
  BY <1>1 DEF WayTo
<1> QED BY <1>1, <1>2, <1>3 DEF WayTo

\* Each target is brought up to date, and stays so up to the answer.
LEMMA RefreshStep ==
  ASSUME TypeOK, LockOK, GotIsAPrefix, LogOK, PostedOK, TodoOK, RefreshOK, WayOK, Next
  PROVE  RefreshOK'
<1>0. targets \in Views /\ targets' \in Views
  BY TargetsType DEF TypeOK, Views
<1>a. ASSUME UNCHANGED targets, NEW id \in TargetIds, targets[id] # None,
             UpToDate(id, targets[id], since[id], log)
      PROVE  UpToDate(id, targets'[id], since'[id], log')
  BY <1>a, WayAdded, UpToDateStays
<1>1. ASSUME NEW g \in Gets, handlers'[g].step = "refresh", NEW id \in TargetIds, targets'[id] # None
      PROVE  \/ UpToDate(id, targets'[id], since'[id], log')
             \/ \E i \in 1..Len(handlers'[g].todo) : handlers'[g].todo[i] = id
  <2>0. g \in Handlers
    BY DEF Handlers
  <2>1. CASE TakeLock(g)
    BY <1>1, <2>0, <2>1, TakeLockTodo
  <2>2. CASE Refresh(g)
    <3> DEFINE s == handlers[g].todo
               h == Head(s)
    <3>1. /\ handlers'[g].todo = Tail(s) /\ s # <<>> /\ handlers[g].step = "refresh" /\ s \in Seq(Nat)
      BY <2>0, <2>2, RefreshEffect, HandlerFacts
    <3>2. targets' = [targets EXCEPT ![h] = Matching(h, docs)] /\ log' = log /\ since' = since
      BY <2>2 DEF Refresh, feedVars
    <3>3. /\ UpToDate(id, targets[id], since[id], log) \/ \E i \in 1..Len(s) : s[i] = id
          \/ targets[id] = None
      BY <3>1 DEF RefreshOK
    <3> HIDE DEF s
    <3>4. /\ Len(Tail(s)) = Len(s) - 1 /\ Len(s) \in Nat /\ h = s[1]
          /\ \A j \in 1..(Len(s) - 1) : Tail(s)[j] = s[j + 1]
      BY <3>1, TailFacts
    <3> HIDE DEF h
    <3>5. CASE id = h
      <4>1. targets'[id] = Matching(id, docs)
        BY <1>0, <3>2, <3>5 DEF Views
      <4>2. Len(log) \in since[id]..Len(log) /\ log[Len(log)] = docs
        <5>1. log \in Seq(Snapshot) /\ since[id] \in 1..Len(log)
          BY DEF TypeOK, FeedTypeOK, LogOK
        <5> QED BY <5>1 DEF LogOK
      <4> QED BY <3>2, <4>1, <4>2 DEF UpToDate
    <3>6. CASE id # h
      <4>1. targets'[id] = targets[id]
        BY <1>0, <3>2, <3>6 DEF Views
      <4>2. CASE UpToDate(id, targets[id], since[id], log)
        BY <3>2, <4>1, <4>2
      <4>3. CASE \E i \in 1..Len(s) : s[i] = id
        <5>1. PICK i \in 1..Len(s) : s[i] = id
          BY <4>3
        <5>2. i # 1
          BY <3>4, <3>6, <5>1
        <5>3. i - 1 \in 1..(Len(s) - 1) /\ (i - 1) + 1 = i
          BY <3>4, <5>2
        <5>4. Tail(s)[i - 1] = id /\ i - 1 \in 1..Len(Tail(s))
          BY <3>4, <5>1, <5>3
        <5> QED BY <3>1, <5>4
      <4> QED BY <1>1, <3>3, <4>1, <4>2, <4>3
    <3> QED BY <3>5, <3>6
  <2>3. CASE Refreshed(g) \/ Noop(g)
    <3>1. handlers'[g].step \in {"process", "queued"}
      BY <2>0, <2>3, StepEffect DEF Refreshed, Noop
    <3> QED BY <1>1, <3>1
  <2>4. CASE Process(g)
    <3>1. handlers[g].step = "process"
      BY <2>4 DEF Process
    <3> QED BY <2>0, <3>1, HandlerFacts DEF GetSteps
  <2>5. CASE /\ handlers'[g].step = handlers[g].step /\ handlers'[g].todo = handlers[g].todo
             /\ UNCHANGED <<targets, pushed>>
    <3>1. \/ UpToDate(id, targets[id], since[id], log)
          \/ \E i \in 1..Len(handlers[g].todo) : handlers[g].todo[i] = id
      BY <1>1, <2>5 DEF RefreshOK
    <3> QED BY <1>a, <1>1, <2>5, <3>1
  <2> QED BY <1>1, <2>0, <2>1, <2>2, <2>3, <2>4, <2>5, WorkStep
<1>2. ASSUME NEW g \in Gets, handlers'[g].step = "queued"
      PROVE  \/ \A id \in TargetIds : targets'[id] = None \/ UpToDate(id, targets'[id], since'[id], log')
             \/ pushed' # <<>> /\ Last(pushed').kind = "noop"
  <2>0. g \in Handlers
    BY DEF Handlers
  <2>1. CASE TakeLock(g)
    <3>1. handlers'[g].step \in {"process", "refresh", "noop"}
      BY <2>0, <2>1, TakeLockEffect
    <3> QED BY <1>2, <3>1
  <2>2. CASE Refresh(g)
    <3>1. handlers'[g].step = "refresh"
      BY <2>0, <2>2, RefreshEffect DEF Kept
    <3> QED BY <1>2, <3>1
  <2>3. CASE Refreshed(g)
    <3>1. handlers[g].step = "refresh" /\ handlers[g].todo = <<>> /\ targets' = targets
      BY <2>3 DEF Refreshed
    <3>2. \A id \in TargetIds : targets[id] = None \/ UpToDate(id, targets[id], since[id], log)
      <4>1. \A i \in 1..Len(handlers[g].todo) : FALSE
        BY <3>1
      <4> QED BY <3>1, <4>1 DEF RefreshOK
    <3> QED BY <1>a, <3>1, <3>2
  <2>4. CASE Noop(g)
    <3> DEFINE r == Response("noop", None, None, 0)
    <3>1. pushed' = pushed \o <<r>> /\ r.kind = "noop"
      BY <2>4 DEF Noop, Push, Response
    <3>2. pushed \in Seq(Responses) /\ r \in Responses
      BY ConstantFacts DEF TypeOK, Responses, Response, Kinds, Version
    <3> HIDE DEF r
    <3>3. pushed \o <<r>> # <<>> /\ Last(pushed \o <<r>>) = r
      BY <3>2 DEF Last
    <3> QED BY <3>1, <3>3
  <2>5. CASE Process(g)
    <3>1. handlers[g].step = "process"
      BY <2>5 DEF Process
    <3> QED BY <2>0, <3>1, HandlerFacts DEF GetSteps
  <2>6. CASE /\ handlers'[g].step = handlers[g].step /\ handlers'[g].todo = handlers[g].todo
             /\ UNCHANGED <<targets, pushed>>
    <3>1. \/ \A id \in TargetIds : targets[id] = None \/ UpToDate(id, targets[id], since[id], log)
          \/ pushed # <<>> /\ Last(pushed).kind = "noop"
      BY <1>2, <2>6 DEF RefreshOK
    <3> QED BY <1>a, <2>6, <3>1
  <2> QED BY <1>2, <2>0, <2>1, <2>2, <2>3, <2>4, <2>5, <2>6, WorkStep
<1> QED BY <1>1, <1>2 DEF RefreshOK

\* What the browser sees at a NO_CHANGE is one snapshot, and stays one.
LEMMA ViewStep ==
  ASSUME TypeOK, CommitsOK, GetsOK, GotIsAPrefix, LogOK, PostedOK, RefreshOK, WayOK,
         ViewIsASnapshot, Next
  PROVE  ViewIsASnapshot'
<1> DEFINE See == got # <<>> /\ Last(got).kind = "no_change"
<1>0. ViewIsASnapshot <=> (See => \A id \in TargetIds :
                             view[id] # None => UpToDate(id, view[id], since[id], log))
  BY DEF ViewIsASnapshot, UpToDate
<1>1. ViewIsASnapshot' <=> (See' => \A id \in TargetIds :
                              view'[id] # None => UpToDate(id, view'[id], since'[id], log'))
  BY DEF ViewIsASnapshot, UpToDate
<1>2. CASE UNCHANGED <<got, view>>
  <2>1. See' => See
    BY <1>2
  <2> HIDE DEF See
  <2> SUFFICES ASSUME See, NEW id \in TargetIds, view[id] # None
               PROVE  UpToDate(id, view[id], since'[id], log')
    BY <1>1, <1>2, <2>1
  <2>2. Added(id, received) /\ UpToDate(id, view[id], since[id], log)
    BY <1>0, WayAdded
  <2> QED BY <2>2, UpToDateStays
<1>3. CASE ~UNCHANGED <<got, view>>
  <2>1. PICK h \in Gets : AnswerGet(h)
    BY <1>3, NextGrown
  <2>2. got' = pushed /\ view' = targets
    BY <1>3, <2>1, AnswerWay
  <2>3. UNCHANGED <<since, log>> /\ handlers[h].step = "queued"
    BY <2>1 DEF AnswerGet, feedVars
  <2>4. See' => ~(pushed # <<>> /\ Last(pushed).kind = "noop")
    BY <2>2
  <2> HIDE DEF See
  <2>5. See' => \A id \in TargetIds : targets[id] = None \/ UpToDate(id, targets[id], since[id], log)
    BY <2>3, <2>4 DEF RefreshOK
  <2> QED BY <1>1, <2>2, <2>3, <2>5
<1> QED BY <1>2, <1>3

-----------------------------------------------------------------------------
(* The theorems.                                                           *)

\* At the start nothing was posted, pushed or queued.
LEMMA InitIInv ==
  ASSUME Init
  PROVE  IInv
<1>1. FeedTypeOK
  <2>1. docs \in Snapshot
    BY ConstantFacts DEF Init, FeedInit, Snapshot, Version
  <2>2. log \in Seq(Snapshot)
    BY <2>1 DEF Init, FeedInit
  <2>3. durable \in BOOLEAN /\ missed \in BOOLEAN
    BY FeedAssumption DEF Init, FeedInit
  <2>4. unsent \in 0..MaxCommits
    BY ConstantFacts DEF Init, FeedInit
  <2> QED BY <2>1, <2>2, <2>3, <2>4 DEF FeedTypeOK
<1>2. /\ pushed = <<>> /\ got = <<>> /\ queue = <<>> /\ applied = <<>> /\ messages = {}
      /\ received = {} /\ acked = 0 /\ posted = 0 /\ lock = None /\ session \in Sessions
      /\ handlers = [h \in Handlers |-> Idle]
  BY DEF Init
<1>3. <<>> \in Seq(Responses) /\ <<>> \in Seq(DOMAIN script) /\ <<>> \in Seq(Nat) /\ Len(<<>>) = 0
  OBVIOUS
<1>4. Len(script) \in Nat
  BY <1>2, ConstantFacts DEF script
<1>5. \A h \in Handlers : /\ handlers[h].step = "idle" /\ handlers[h].msgs = <<>>
                          /\ handlers[h].todo = <<>> /\ handlers[h].aid = 0
                          /\ handlers[h].live = FALSE /\ DOMAIN handlers[h] = DOMAIN Idle
  BY <1>2 DEF Idle
<1>6. HandlersTypeOK
  <2>1. DOMAIN handlers = Handlers
    BY <1>2
  <2>2. 0 \in 0..Len(got) /\ FALSE \in BOOLEAN
    BY <1>2, <1>3
  <2>3. "idle" \in PostSteps /\ "idle" \in GetSteps
    BY DEF PostSteps, GetSteps
  <2>4. \A h \in Handlers : handlers[h].step \in IF h \in Posts THEN PostSteps ELSE GetSteps
    BY <1>5, <2>3
  <2>5. \A h \in Handlers :
          /\ handlers[h].msgs \in Seq(DOMAIN script) /\ handlers[h].aid \in 0..Len(got)
          /\ handlers[h].todo \in Seq(Nat) /\ handlers[h].live \in BOOLEAN
    BY <1>3, <1>5, <2>2
  <2> QED BY <1>5, <2>1, <2>4, <2>5 DEF HandlersTypeOK
<1>7. TypeOK
  BY <1>1, <1>2, <1>3, <1>4, <1>6, ConstantFacts DEF TypeOK, Init
<1>8. LockOK
  BY <1>5 DEF LockOK, Holding
<1>9. PostsOK
  <2>1. 1..acked = {}
    BY <1>2
  <2>2. \A h \in Posts : PostOK(handlers[h].msgs, handlers[h].live, posted, received)
    <3>1. PostOK(<<>>, FALSE, posted, received)
      BY DEF PostOK
    <3> QED BY <1>5, <3>1 DEF Handlers
  <2> QED BY <2>1, <2>2, PostsAre
<1>10. CommitsOK
  <2>1. 0 \in 0..Len(script) /\ received = 1..0
    BY <1>2, <1>4
  <2> QED BY <1>2, <1>5, <2>1 DEF CommitsOK
<1>11. GetsOK
  <2>1. (Len(got) + 1)..Len(pushed) = {}
    BY <1>2, <1>3
  <2> QED BY <1>5, <2>1, <1>2, ConstantFacts DEF GetsOK, Handlers
<1>12. GotIsAPrefix
  <2>1. \A i \in 1..0 : FALSE
    OBVIOUS
  <2>2. IsPrefix(<<>>, <<>>)
    <3>1. <<>> \in Seq(Responses) /\ Len(<<>>) <= Len(<<>>) /\ \A i \in 1..Len(<<>>) : FALSE
      BY <1>3, <2>1
    <3> QED BY <3>1, PrefixFacts
  <2> QED BY <1>2, <2>2 DEF GotIsAPrefix
<1>13. AppliedOnceInOrder
  BY <1>2 DEF AppliedOnceInOrder
<1>14. targets = NoViews /\ view = NoViews /\ log = <<docs>> /\ since = [id \in TargetIds |-> 1]
  BY DEF Init, FeedInit, NoViews
<1>15. LogOK
  <2>1. Len(log) = 1 /\ log[1] = docs /\ 1 \in 1..1
    BY <1>14
  <2> QED BY <1>14, <2>1 DEF LogOK
<1>16. PostedOK
  <2>1. \A h \in Posts : \A i \in DOMAIN handlers[h].msgs : FALSE
    BY <1>5 DEF Handlers
  <2> QED BY <1>2, <2>1 DEF PostedOK
<1>17. TodoOK /\ RefreshOK
  BY <1>5 DEF TodoOK, RefreshOK, Handlers
<1>18. WayOK
  <2> DEFINE V == [i \in 0..0 |-> NoViews]
  <2>1. NoViews \in Views /\ <<>> \in Seq(News) /\ (\A i \in 1..0 : FALSE) /\ 0 \in 0..0
    BY NoneFacts
  <2>2. V \in [0..0 -> Views] /\ \A i \in 0..0 : V[i] = NoViews
    BY <2>1
  <2> HIDE DEF V
  <2>3. Walk(V, Views, News, Showing, NoViews, <<>>)
    BY <1>3, <2>1, <2>2 DEF Walk
  <2>4. WayTo(V, <<>>, 0, NoViews, NoViews, received)
    BY <1>3, <2>1, <2>2, <2>3 DEF WayTo, NoViews
  <2> QED BY <1>2, <1>3, <1>14, <2>4, WayIs
<1>19. ViewIsASnapshot
  BY <1>2 DEF ViewIsASnapshot
<1> QED BY <1>7, <1>8, <1>9, <1>10, <1>11, <1>12, <1>13, <1>15, <1>16, <1>17, <1>18, <1>19 DEF IInv

\* A stuttering step changes nothing.
LEMMA StutterIInv ==
  ASSUME IInv, UNCHANGED vars
  PROVE  IInv'
<1>1. (TypeOK /\ LockOK /\ PostsOK /\ CommitsOK /\ GetsOK /\ GotIsAPrefix /\ AppliedOnceInOrder)'
  BY DEF IInv, vars, webVars, feedVars, TypeOK, HandlersTypeOK, FeedTypeOK, LockOK, PostsOK,
         CommitsOK, GetsOK, GotIsAPrefix, AppliedOnceInOrder, script
<1>2. (LogOK /\ PostedOK /\ TodoOK /\ RefreshOK /\ ViewIsASnapshot)'
  BY DEF IInv, vars, webVars, feedVars, LogOK, PostedOK, TodoOK, RefreshOK, UpToDate, ViewIsASnapshot
<1>3. WayOK'
  <2>1. UNCHANGED <<session, pushed, got, view, targets>> /\ received \subseteq received' /\ WayOK
    BY DEF IInv, vars, webVars
  <2> QED BY <2>1, WayKept
<1> QED BY <1>1, <1>2, <1>3 DEF IInv

(* The invariant holds in every state, whatever requests are given up,     *)
(* repeated or overlap: all actions of the session and of the browser.     *)
THEOREM Invariance == Spec => []IInv
<1>1. Init => IInv
  BY InitIInv
<1>2. IInv /\ [Next]_vars => IInv'
  <2>1. ASSUME IInv, Next PROVE IInv'
    <3>1. /\ TypeOK /\ LockOK /\ PostsOK /\ CommitsOK /\ GetsOK /\ LogOK /\ PostedOK /\ TodoOK
          /\ RefreshOK /\ WayOK /\ GotIsAPrefix /\ AppliedOnceInOrder /\ ViewIsASnapshot
      BY <2>1 DEF IInv
    <3>2. (TypeOK /\ LockOK /\ PostsOK /\ CommitsOK /\ AppliedOnceInOrder /\ GetsOK /\ GotIsAPrefix)'
      BY <2>1, <3>1, TypeStep, LockStep, PostsStep, CommitsStep, GetsStep
    <3>3. (LogOK /\ PostedOK /\ TodoOK)'
      BY <2>1, <3>1, LogStep, PostedStep, TodoStep
    <3>4. (RefreshOK /\ WayOK /\ ViewIsASnapshot)'
      BY <2>1, <3>1, RefreshStep, WayStep, ViewStep
    <3> QED BY <3>2, <3>3, <3>4 DEF IInv
  <2> QED BY <2>1, StutterIInv
<1> QED BY <1>1, <1>2, PTL DEF Spec

(* Session::queued: the browser gets the responses in their order, each    *)
(* once and without a gap.                                                 *)
THEOREM ResponseSafety == Spec => []GotIsAPrefix
<1>1. IInv => GotIsAPrefix
  BY DEF IInv
<1> QED BY <1>1, Invariance, PTL

(* received.insert: a forwarded commit takes effect at most once and in    *)
(* the order of the browser's messages.                                    *)
THEOREM CommitSafety == Spec => []AppliedOnceInOrder
<1>1. IInv => AppliedOnceInOrder
  BY DEF IInv
<1> QED BY <1>1, Invariance, PTL

(* refresh, Session::queued: at a NO_CHANGE each view of the browser is one *)
(* snapshot of the store, no older than the moment it added the target,     *)
(* whatever is written, given up or repeated meanwhile.                     *)
THEOREM ViewSafety == Spec => []ViewIsASnapshot
<1>1. IInv => ViewIsASnapshot
  BY DEF IInv
<1> QED BY <1>1, Invariance, PTL
=============================================================================
