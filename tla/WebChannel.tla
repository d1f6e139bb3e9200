----------------------------- MODULE WebChannel -----------------------------
(***************************************************************************)
(* One WebChannel session of a browser (firestore_web.rs).  The browser    *)
(* forwards its messages by POST and repeats a POST whose answer it has    *)
(* not seen; a hanging GET takes the queued responses back and says how    *)
(* far it has got (AID).  Handlers take the session's lock one after the   *)
(* other and keep it over the reads and commits they wait for; when the    *)
(* browser gives a request up its handler is dropped there.                *)
(*                                                                         *)
(* handlers[h].step:                                                       *)
(*   "wait"    for the session's lock                                      *)
(*   "process" POST: holds the lock, with msgs still to process            *)
(*   "commit"  POST: waits for the store; "job": its job is queued;        *)
(*             "result": the job was run                                   *)
(*   "refresh" holds the lock and reads the documents of todo              *)
(*   "hang"    GET: nothing queued, waits for a change, a POST or the      *)
(*             deadline, which it reaches as "late"                        *)
(*   "answer"  POST: every message is processed                            *)
(***************************************************************************)
EXTENDS DocumentFeed, SequencesExt

CONSTANTS
  Sessions,   \* the sessions explored: script, what the browser forwards, [kind,
              \* id], over a Listen stream or a Write stream (the number of a
              \* message is its index; a target is added once); handlers, those
              \* that may be at work at once; noops, how many GETs reach their
              \* deadline
  Posts, Gets,
  MaxFailures \* bound: requests given up, reads that fail, sessions that end

ASSUME WebChannelAssumption ==
  /\ \A s \in Sessions :
       /\ s.script \in Seq([kind : {"write", "add", "remove"}, id : Nat])
       /\ \E kinds \in {{"write"}, {"add", "remove"}} :
            \A i \in DOMAIN s.script : s.script[i].kind \in kinds
       /\ \A i, j \in DOMAIN s.script :
            s.script[i].kind = "add" /\ s.script[j] = s.script[i] => i = j
       /\ \A i \in DOMAIN s.script : s.script[i].kind # "write" => s.script[i].id \in TargetIds
       /\ s.handlers \subseteq Posts \cup Gets /\ s.noops \in Nat
  /\ Posts \cap Gets = {} /\ None \notin Posts \cup Gets /\ MaxFailures \in Nat

VARIABLES
  session,   \* the session of this behaviour
  alive,     \* the session is in the map of sessions
  pushed,    \* history: every response; its number is the index, seq the length
  messages,  \* the numbers of the responses that are kept
  targets,   \* for each target the documents last pushed, or None
  received,  \* the numbers of the messages that were taken in
  lock,
  handlers,
  queue,     \* commits queued with the store
  applied,   \* history: the messages whose commit took effect
  acked,     \* browser: forwarded messages that were acknowledged
  posted,    \* browser: the last message of its current POST
  got,       \* browser: the responses it has received
  view,      \* browser: the documents of each of its targets, or None
  since,     \* history: how old the log was when the browser added a target
  failures   \* history: requests given up, reads that failed, the session's end

webVars == <<session, alive, pushed, messages, targets, received, lock, handlers, queue, applied,
             acked, posted, got, view, since, failures>>
vars == <<feedVars, webVars>>

Handlers == Posts \cup Gets
script == session.script

\* changed: refresh has pushed something; initial: it is the one of an addTarget;
\* live: the browser still waits for the answer.
Idle == [step |-> "idle", msgs |-> <<>>, todo |-> <<>>, aid |-> 0, changed |-> FALSE,
         initial |-> FALSE, live |-> FALSE]

Init ==
  /\ FeedInit
  /\ session \in Sessions
  /\ alive = TRUE /\ pushed = <<>> /\ messages = {} /\ received = {} /\ lock = None
  /\ targets = [id \in TargetIds |-> None]
  /\ handlers = [h \in Handlers |-> Idle]
  /\ queue = <<>> /\ applied = <<>> /\ acked = 0 /\ posted = 0 /\ got = <<>>
  /\ view = [id \in TargetIds |-> None] /\ since = [id \in TargetIds |-> 1] /\ failures = 0

-----------------------------------------------------------------------------
(* The session.                                                            *)
\* Session::push, several times.
Push(responses) ==
  /\ pushed' = pushed \o responses
  /\ messages' = messages \cup ((Len(pushed) + 1)..(Len(pushed) + Len(responses)))

\* Mutant of Queued: AID is taken for the next number.
QueuedNew(h) == {n \in messages : n > handlers[h].aid + 1}

\* Session::queued: what the browser has got is dropped, the rest is sent.
Queued(h) == {n \in messages : n > handlers[h].aid}

Step(h, step) == [handlers EXCEPT ![h].step = step]

\* The lock when the handler h returns, waits for news or is dropped.
Unlocked(h) == IF lock = h THEN None ELSE lock

TakeLock(h) ==
  /\ handlers[h].step \in {"wait", "late"} /\ lock = None /\ lock' = h
  /\ handlers' =
       IF h \in Posts THEN Step(h, "process")
       ELSE IF handlers[h].step = "late" THEN Step(h, "noop")
       ELSE [handlers EXCEPT ![h].step = "refresh", ![h].changed = FALSE, ![h].initial = FALSE,
               ![h].todo = InOrder({id \in TargetIds : targets[id] # None})]
  /\ UNCHANGED <<feedVars, session, alive, pushed, messages, targets, received, queue, applied, acked,
                 posted, got, view, since, failures>>

-----------------------------------------------------------------------------
(* POST: the messages in the order of their numbers, each one once.        *)
\* Mutant of Fresh: a message that was taken in before is taken in again.
FreshAlways(n) == TRUE

\* received.insert.
Fresh(n) == n \notin received

\* process: one message.  Of a Write stream the first is its handshake.
Process(h) ==
  /\ handlers[h].step = "process" /\ handlers[h].msgs # <<>>
  /\ LET n == Head(handlers[h].msgs)
         m == script[n]
         rest == [handlers EXCEPT ![h].msgs = Tail(@)] IN
     /\ received' = received \cup {n}
     /\ \/ /\ ~Fresh(n)
           /\ handlers' = rest /\ UNCHANGED <<pushed, messages, targets>>
        \/ /\ Fresh(n) /\ m.kind = "write" /\ n = 1
           /\ Push(<<Response("stream", n, None, 0)>>)
           /\ handlers' = rest /\ UNCHANGED targets
        \/ /\ Fresh(n) /\ m.kind = "write" /\ n > 1
           /\ handlers' = Step(h, "commit") /\ UNCHANGED <<pushed, messages, targets>>
        \/ /\ Fresh(n) /\ m.kind = "add"
           /\ targets' = [targets EXCEPT ![m.id] = Nothing]
           /\ Push(<<Response("add", m.id, None, 0)>>)
           /\ handlers' = [rest EXCEPT ![h].step = "refresh", ![h].todo = <<m.id>>,
                             ![h].changed = FALSE, ![h].initial = TRUE]
        \/ /\ Fresh(n) /\ m.kind = "remove"
           /\ targets' = [targets EXCEPT ![m.id] = None]
           /\ Push(<<Response("remove", m.id, None, 0)>>)
           /\ handlers' = rest
  /\ UNCHANGED <<feedVars, session, alive, lock, queue, applied, acked, posted, got, view, since, failures>>

\* commit: the job is queued and run, or refused, and the result or the error
\* is pushed.
QueueCommit(h) ==
  /\ handlers[h].step = "commit"
  /\ \/ queue' = Append(queue, Head(handlers[h].msgs)) /\ handlers' = Step(h, "job")
     \/ UNCHANGED queue /\ handlers' = Step(h, "result")
  /\ UNCHANGED <<feedVars, session, alive, pushed, messages, targets, received, lock, applied, acked,
                 posted, got, view, since, failures>>

RunCommit ==
  /\ queue # <<>> /\ queue' = Tail(queue)
  /\ applied' = Append(applied, Head(queue))
  /\ handlers' = [h \in Handlers |->
                    IF handlers[h].step = "job" /\ Head(handlers[h].msgs) = Head(queue)
                    THEN [handlers[h] EXCEPT !.step = "result"] ELSE handlers[h]]
  /\ UNCHANGED <<feedVars, session, alive, pushed, messages, targets, received, lock, acked, posted,
                 got, view, since, failures>>

PushResult(h) ==
  /\ handlers[h].step = "result"
  /\ Push(<<Response("result", Head(handlers[h].msgs), None, 0)>>)
  /\ handlers' = [handlers EXCEPT ![h].step = "process", ![h].msgs = Tail(@)]
  /\ UNCHANGED <<feedVars, session, alive, targets, received, lock, queue, applied, acked, posted, got,
                 view, since, failures>>

\* The answer reaches the browser, if it still waits.
AnswerPost(h) ==
  /\ handlers[h].step = "process" /\ handlers[h].msgs = <<>>
  /\ handlers' = [handlers EXCEPT ![h] = Idle] /\ lock' = Unlocked(h)
  /\ acked' = IF handlers[h].live THEN posted ELSE acked
  /\ UNCHANGED <<feedVars, session, alive, pushed, messages, targets, received, queue, applied, posted,
                 got, view, since, failures>>

-----------------------------------------------------------------------------
(* refresh: each target in turn, then one NO_CHANGE for all.               *)
\* Mutant of Removals: a document that no longer matches is not taken back.
RemovalsOfDeleted(id, current) ==
  {n \in Names : targets[id][n] # 0 /\ current[n] = 0 /\ docs[n] = 0}

Removals(id, current) == {n \in Names : targets[id][n] # 0 /\ current[n] = 0}

\* Mutant of Changes: a document that is known is not sent again.
ChangesNew(id, current) == {n \in Names : current[n] # 0 /\ targets[id][n] = 0}

\* Documents that differ from before.
Changes(id, current) == {n \in Names : current[n] # 0 /\ current[n] # targets[id][n]}

Refresh(h) ==
  /\ handlers[h].step = "refresh" /\ handlers[h].todo # <<>>
  /\ LET id == Head(handlers[h].todo)
         current == Matching(id, docs)
         Each(S, Msg(_)) == LET s == SetToSeq(S) IN [i \in DOMAIN s |-> Msg(s[i])]
         news == Each(Changes(id, current), LAMBDA n : Response("change", id, n, current[n]))
                 \o Each(Removals(id, current), LAMBDA n : Response("delete", id, n, 0)) IN
     /\ targets' = [targets EXCEPT ![id] = current]
     /\ Push(news \o IF handlers[h].initial THEN <<Response("current", id, None, 0)>> ELSE <<>>)
     /\ handlers' = [handlers EXCEPT ![h].todo = Tail(@), ![h].changed = @ \/ news # <<>>]
  /\ UNCHANGED <<feedVars, session, alive, received, lock, queue, applied, acked, posted, got, view,
                 since, failures>>

\* The end of refresh: the marker, and back to the POST's next message or on
\* to what is queued.
Refreshed(h) ==
  /\ handlers[h].step = "refresh" /\ handlers[h].todo = <<>>
  /\ IF handlers[h].changed \/ handlers[h].initial
     THEN Push(<<Response("no_change", None, None, 0)>>) ELSE UNCHANGED <<pushed, messages>>
  /\ handlers' = Step(h, IF h \in Posts THEN "process" ELSE "queued")
  /\ UNCHANGED <<feedVars, session, alive, targets, received, lock, queue, applied, acked, posted, got,
                 view, since, failures>>

\* Reading the documents fails: a POST pushes the error, a GET answers it.
RefreshFails(h) ==
  /\ handlers[h].step = "refresh" /\ handlers[h].todo # <<>>
  /\ failures < MaxFailures /\ failures' = failures + 1
  /\ \/ /\ h \in Posts /\ Push(<<Response("error", None, None, 0)>>)
        /\ handlers' = Step(h, "process") /\ UNCHANGED lock
     \/ /\ h \in Gets /\ UNCHANGED <<pushed, messages>>
        /\ handlers' = [handlers EXCEPT ![h] = Idle] /\ lock' = Unlocked(h)
  /\ UNCHANGED <<feedVars, session, alive, targets, received, queue, applied, acked, posted, got,
                 view, since>>

-----------------------------------------------------------------------------
(* GET.                                                                    *)
\* The deadline: a noop, so that something is queued.
Noop(h) ==
  /\ handlers[h].step = "noop"
  /\ Push(<<Response("noop", None, None, 0)>>)
  /\ handlers' = Step(h, "queued")
  /\ UNCHANGED <<feedVars, session, alive, targets, received, lock, queue, applied, acked, posted, got,
                 view, since, failures>>

\* What is queued is the answer; with nothing queued the handler waits.
AnswerGet(h) ==
  /\ handlers[h].step = "queued" /\ lock' = Unlocked(h)
  /\ LET numbers == InOrder(Queued(h))
         body == [i \in DOMAIN numbers |-> pushed[numbers[i]]] IN
     /\ messages' = Queued(h)
     /\ \/ numbers = <<>> /\ handlers' = Step(h, "hang") /\ UNCHANGED <<got, view>>
        \/ /\ numbers # <<>> /\ handlers' = [handlers EXCEPT ![h] = Idle]
           /\ IF handlers[h].live THEN got' = got \o body /\ view' = FoldLeft(Shown, view, body)
              ELSE UNCHANGED <<got, view>>
  /\ UNCHANGED <<feedVars, session, alive, pushed, targets, received, queue, applied, acked, posted,
                 since, failures>>

\* A change of the store, the notification of a POST (notify_one may go to any
\* handler that hangs), or the deadline.
Wake(h) ==
  /\ handlers[h].step = "hang"
  /\ \/ handlers' = Step(h, "wait")
     \/ /\ Cardinality({n \in DOMAIN pushed : pushed[n].kind = "noop"}) < session.noops
        /\ handlers' = Step(h, "late")
  /\ UNCHANGED <<feedVars, session, alive, pushed, messages, targets, received, lock, queue, applied,
                 acked, posted, got, view, since, failures>>

-----------------------------------------------------------------------------
(* The browser.  It has one POST and one GET at a time.                    *)
\* A POST of one or two new messages, or the same one again.
SendPost(h) ==
  /\ alive /\ h \in session.handlers /\ handlers[h] = Idle /\ \A p \in Posts : ~handlers[p].live
  /\ \/ posted > acked /\ UNCHANGED <<posted, since>>
     \/ /\ posted = acked /\ posted' \in (acked + 1)..(acked + 2) /\ posted' <= Len(script)
        /\ since' = [id \in TargetIds |->
                       IF \E n \in (acked + 1)..posted' : script[n] = [kind |-> "add", id |-> id]
                       THEN Len(log) ELSE since[id]]
  /\ handlers' = [handlers EXCEPT ![h] =
       [Idle EXCEPT !.step = "wait", !.live = TRUE, !.msgs = [i \in 1..(posted' - acked) |-> acked + i]]]
  /\ UNCHANGED <<feedVars, session, alive, pushed, messages, targets, received, lock, queue, applied,
                 acked, got, view, failures>>

SendGet(h) ==
  /\ alive /\ h \in session.handlers /\ handlers[h] = Idle /\ \A g \in Gets : ~handlers[g].live
  /\ handlers' = [handlers EXCEPT ![h] = [Idle EXCEPT !.step = "wait", !.live = TRUE, !.aid = Len(got)]]
  /\ UNCHANGED <<feedVars, session, alive, pushed, messages, targets, received, lock, queue, applied,
                 acked, posted, got, view, since, failures>>

\* The browser or the network gives a request up.  The handler does not know
\* until it is dropped, where it waits for something.
GiveUp(h) ==
  /\ handlers[h].live /\ failures < MaxFailures /\ failures' = failures + 1
  /\ handlers' = [handlers EXCEPT ![h].live = FALSE]
  /\ UNCHANGED <<feedVars, session, alive, pushed, messages, targets, received, lock, queue, applied,
                 acked, posted, got, view, since>>

Drop(h) ==
  /\ ~handlers[h].live
  /\ \/ handlers[h].step \in {"wait", "late", "commit", "job", "result", "hang"}
     \/ handlers[h].step = "refresh" /\ handlers[h].todo # <<>>
  /\ handlers' = [handlers EXCEPT ![h] = Idle] /\ lock' = Unlocked(h)
  /\ UNCHANGED <<feedVars, session, alive, pushed, messages, targets, received, queue, applied, acked,
                 posted, got, view, since, failures>>

\* The browser terminates the session, or another one's handshake finds it
\* idle for 300 seconds and not locked.
Terminate ==
  /\ alive /\ alive' = FALSE
  /\ failures < MaxFailures /\ failures' = failures + 1
  /\ UNCHANGED <<feedVars, session, pushed, messages, targets, received, lock, handlers, queue, applied,
                 acked, posted, got, view, since>>

\* The changes of the store, which a Write stream does not see; what they
\* notify only wakes handlers.
Store == Head(script).kind # "write" /\ Change /\ UNCHANGED <<unsent, missed, webVars>>

Post(h) == Process(h) \/ QueueCommit(h) \/ PushResult(h) \/ AnswerPost(h)
Get(h) == Noop(h) \/ AnswerGet(h) \/ Wake(h)
Handler(h) ==
  \/ TakeLock(h) \/ Refresh(h) \/ Refreshed(h) \/ RefreshFails(h)
  \/ h \in Posts /\ Post(h)
  \/ h \in Gets /\ Get(h)

Next ==
  \/ Store \/ RunCommit \/ Terminate
  \/ \E h \in Handlers : Handler(h) \/ GiveUp(h) \/ Drop(h)
  \/ \E h \in Posts : SendPost(h)
  \/ \E h \in Gets : SendGet(h)

Spec == Init /\ [][Next]_vars
-----------------------------------------------------------------------------
Kinds == {"stream", "add", "remove", "change", "delete", "current", "no_change", "result", "error", "noop"}
Responses == [kind : Kinds, id : Nat \cup {None}, name : Names \cup {None}, version : Version]

Holding == {"process", "commit", "job", "result", "refresh", "queued", "noop"}
PostSteps == {"idle", "wait", "process", "commit", "job", "result", "refresh"}
GetSteps == {"idle", "wait", "refresh", "queued", "hang", "late", "noop"}

HandlersTypeOK ==
  /\ DOMAIN handlers = Handlers
  /\ \A h \in Handlers :
       /\ DOMAIN handlers[h] = DOMAIN Idle
       /\ handlers[h].step \in IF h \in Posts THEN PostSteps ELSE GetSteps
       /\ handlers[h].msgs \in Seq(DOMAIN script) /\ handlers[h].aid \in 0..Len(got)
       /\ handlers[h].todo \in Seq(Nat) /\ handlers[h].live \in BOOLEAN

TypeOK ==
  /\ FeedTypeOK /\ session \in Sessions /\ alive \in BOOLEAN /\ lock \in Handlers \cup {None}
  /\ {pushed, got} \subseteq Seq(Responses)
  /\ messages \subseteq DOMAIN pushed /\ received \subseteq DOMAIN script
  /\ targets \in [TargetIds -> Snapshot \cup {None}]
  /\ {queue, applied} \subseteq Seq(DOMAIN script)
  /\ HandlersTypeOK
  /\ acked \in 0..posted /\ posted \in 0..Len(script) /\ failures \in 0..MaxFailures

(* The browser gets every response once, in order and without a gap, when  *)
(* GETs are answered into the void, repeated and run beside each other.    *)
GotIsAPrefix == IsPrefix(got, pushed)

(* A forwarded commit takes effect at most once and in the order in which  *)
(* it was forwarded, however often its POST is repeated.                   *)
AppliedOnceInOrder ==
  \A i, j \in DOMAIN applied : i < j => applied[i] < applied[j]

(* When the last thing the browser got is NO_CHANGE, each of its views is  *)
(* one snapshot of the store, no older than the moment it asked.           *)
ViewIsASnapshot ==
  got # <<>> /\ Last(got).kind = "no_change" => \A id \in TargetIds :
    view[id] # None => \E i \in since[id]..Len(log) : view[id] = Matching(id, log[i])

-----------------------------------------------------------------------------
(* What the properties above rest on.                                      *)

(* A handler that is at work on the session has its lock.                  *)
LockOK == \A h \in Handlers : handlers[h].step \in Holding => lock = h

(* A POST goes through consecutive messages; those before them were taken  *)
(* in.  The one the browser waits for ends with the last one it posted.    *)
PostsOK ==
  /\ 1..acked \subseteq received
  /\ \A h \in Posts :
       LET msgs == handlers[h].msgs IN
       /\ \A i \in DOMAIN msgs : msgs[i] = msgs[1] + i - 1
       /\ msgs # <<>> => 1..(msgs[1] - 1) \subseteq received
       /\ handlers[h].live =>
            /\ 1..(posted - Len(msgs)) \subseteq received
            /\ msgs # <<>> => msgs[1] + Len(msgs) - 1 = posted

(* What was taken in has no gap, and a commit is queued for the last of it *)
(* only: all that were queued before are older.                            *)
CommitsOK ==
  /\ \E k \in 0..Len(script) : received = 1..k
  /\ \A i \in DOMAIN queue : queue[i] \in received
  /\ \A i \in DOMAIN applied : applied[i] \in received
  /\ \A i, j \in DOMAIN queue : i < j => queue[i] < queue[j]
  /\ \A i \in DOMAIN applied, j \in DOMAIN queue : applied[i] < queue[j]
  /\ \A h \in Handlers : handlers[h].step \in {"commit", "job", "result"} =>
       /\ handlers[h].msgs # <<>> /\ received = 1..handlers[h].msgs[1]
       /\ handlers[h].step = "commit" =>
            /\ \A i \in DOMAIN queue : queue[i] < handlers[h].msgs[1]
            /\ \A i \in DOMAIN applied : applied[i] < handlers[h].msgs[1]

(* Everything that the browser has not got is kept, and the GET it waits   *)
(* for, of which there is one, asks for what follows that.                 *)
GetsOK ==
  /\ (Len(got) + 1)..Len(pushed) \subseteq messages
  /\ \A g \in Gets : handlers[g].live =>
       handlers[g].aid = Len(got) /\ \A f \in Gets : handlers[f].live => f = g
=============================================================================
