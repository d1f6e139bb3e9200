------------------------------ MODULE Listeners ------------------------------
(***************************************************************************)
(* One Listen call over gRPC (firestore.rs, listen and emit_target): a     *)
(* task between the client's requests, the broadcast of changes, which a   *)
(* slow receiver falls behind of, and the bounded channel of responses;    *)
(* and the client, which keeps a view of each of its targets.              *)
(***************************************************************************)
EXTENDS DocumentFeed, SequencesExt

CONSTANTS
  Capacity,    \* the broadcast channel's: 128
  OutLimit,    \* the response channel's: 128
  MaxRequests  \* bound: requests of the client

ASSUME ListenersAssumption ==
  {Capacity, OutLimit} \subseteq Nat \ {0} /\ MaxRequests \in Nat

VARIABLES
  open,      \* the call has not ended
  pending,   \* notifications in the receiver's part of the channel
  lagged,    \* some were overwritten
  targets,   \* for each target its previous documents, or None
  todo,      \* targets that the task has still to emit
  initial,   \* whether it emits the first snapshot of a target
  sending,   \* responses that the task has still to send
  out,       \* the channel of responses
  asked,     \* requests that the task has not read
  view,      \* the client: the documents of each of its targets, or None
  requests,  \* history: requests of the client
  since,     \* history: how old the log was when the client added a target
  marked     \* history: the client has just got a NO_CHANGE

listenVars == <<open, pending, lagged, targets, todo, initial, sending, out, asked, view,
                requests, since, marked>>
vars == <<feedVars, listenVars>>

Init ==
  /\ FeedInit
  /\ open = TRUE /\ pending = 0 /\ lagged = FALSE
  /\ targets = [id \in TargetIds |-> None]
  /\ todo = <<>> /\ initial = FALSE /\ sending = <<>> /\ out = <<>> /\ asked = <<>>
  /\ view = [id \in TargetIds |-> None]
  /\ requests = 0 /\ since = [id \in TargetIds |-> 1] /\ marked = FALSE

\* The task is in its select.
Selecting == open /\ todo = <<>> /\ sending = <<>>

-----------------------------------------------------------------------------
(* The store.  A full broadcast channel drops its oldest notification.     *)
\* Mutant of Notified: the task subscribes anew for every select.
NotifiedSelecting ==
  /\ pending' = IF Selecting /\ pending < Capacity THEN pending + 1 ELSE pending
  /\ UNCHANGED lagged

Notified ==
  /\ pending' = IF open /\ pending < Capacity THEN pending + 1 ELSE pending
  /\ lagged' = (open /\ (lagged \/ pending = Capacity))

Store ==
  /\ \/ (Commit \/ NotifyAfterJob) /\ Notified
     \/ (CommitJob \/ Forget) /\ UNCHANGED <<pending, lagged>>
  /\ UNCHANGED <<open, targets, todo, initial, sending, out, asked, view, requests, since, marked>>

-----------------------------------------------------------------------------
(* The task.                                                               *)
\* Mutant of Known: what the target selects now.
KnownNow(id) == Matching(id, docs)

\* What the client is taken to know of a target that it adds: nothing.
Known(id) == Nothing

AddTarget ==
  /\ Selecting /\ asked # <<>> /\ Head(asked).add
  /\ LET id == Head(asked).id IN
     /\ targets' = [targets EXCEPT ![id] = Known(id)]
     /\ todo' = <<id>> /\ initial' = TRUE
     /\ sending' = <<Response("add", id, None, 0)>>
  /\ asked' = Tail(asked)
  /\ UNCHANGED <<feedVars, open, pending, lagged, out, view, requests, since, marked>>

RemoveTarget ==
  /\ Selecting /\ asked # <<>> /\ ~Head(asked).add
  /\ targets' = [targets EXCEPT ![Head(asked).id] = None]
  /\ sending' = <<Response("remove", Head(asked).id, None, 0)>>
  /\ asked' = Tail(asked)
  /\ UNCHANGED <<feedVars, open, pending, lagged, todo, initial, out, view, requests, since, marked>>

\* changes.recv: the lag is reported first, then the oldest notification.
Taken == IF lagged THEN lagged' = FALSE /\ UNCHANGED pending
         ELSE pending' = pending - 1 /\ UNCHANGED lagged

\* A notification, or the news that some were lost: every target is emitted.
Event ==
  /\ Selecting /\ (lagged \/ pending > 0)
  /\ Taken
  /\ todo' = InOrder({id \in TargetIds : targets[id] # None})
  /\ initial' = FALSE
  /\ UNCHANGED <<feedVars, open, targets, sending, out, asked, view, requests, since, marked>>

\* Mutant of Removals: a document that no longer matches is not taken back.
RemovalsOfDeleted(id, current) ==
  {n \in Names : targets[id][n] # 0 /\ current[n] = 0 /\ docs[n] = 0}

\* Previous documents that are gone.
Removals(id, current) == {n \in Names : targets[id][n] # 0 /\ current[n] = 0}

\* Documents that differ from before.
Changes(id, current) == {n \in Names : current[n] # 0 /\ current[n] # targets[id][n]}

\* emit_target reads its documents and works out its responses.
emit_target ==
  /\ open /\ sending = <<>> /\ todo # <<>>
  /\ LET id == Head(todo)
         current == Matching(id, docs)
         Each(S, Msg(_)) == LET s == SetToSeq(S) IN [i \in DOMAIN s |-> Msg(s[i])] IN
     /\ sending' = Each(Removals(id, current), LAMBDA n : Response("delete", id, n, 0))
                   \o Each(Changes(id, current), LAMBDA n : Response("change", id, n, current[n]))
                   \o (IF initial THEN <<Response("current", id, None, 0)>> ELSE <<>>)
                   \o <<Response("no_change", None, None, 0)>>
     /\ targets' = [targets EXCEPT ![id] = current]
  /\ todo' = Tail(todo)
  /\ UNCHANGED <<feedVars, open, pending, lagged, initial, out, asked, view, requests, since, marked>>

Send ==
  /\ open /\ sending # <<>> /\ Len(out) < OutLimit
  /\ out' = Append(out, Head(sending)) /\ sending' = Tail(sending)
  /\ UNCHANGED <<feedVars, open, pending, lagged, targets, todo, initial, asked, view, requests,
                 since, marked>>

-----------------------------------------------------------------------------
(* The client.  It adds a target that it does not have and removes one     *)
(* that it has; what arrives for a removed target is not its business.     *)
Ask(id) ==
  /\ open /\ requests < MaxRequests /\ requests' = requests + 1
  /\ \A i \in DOMAIN asked : asked[i].id # id
  /\ \/ /\ targets[id] = None /\ view[id] = None
        /\ asked' = Append(asked, [add |-> TRUE, id |-> id])
        /\ since' = [since EXCEPT ![id] = Len(log)]
     \/ /\ targets[id] # None /\ view[id] # None
        /\ asked' = Append(asked, [add |-> FALSE, id |-> id])
        /\ UNCHANGED since
  /\ UNCHANGED <<feedVars, open, pending, lagged, targets, todo, initial, sending, out, view,
                 marked>>

Receive ==
  /\ out # <<>> /\ out' = Tail(out)
  /\ view' = Shown(view, Head(out)) /\ marked' = (Head(out).kind = "no_change")
  /\ UNCHANGED <<feedVars, open, pending, lagged, targets, todo, initial, sending, asked, requests,
                 since>>

\* The client closes the call, or reading the documents fails: the task ends
\* and what it has not sent is lost.
Close ==
  /\ open /\ open' = FALSE
  /\ pending' = 0 /\ lagged' = FALSE /\ targets' = [id \in TargetIds |-> None]
  /\ todo' = <<>> /\ initial' = FALSE /\ sending' = <<>> /\ asked' = <<>>
  /\ UNCHANGED <<feedVars, out, view, requests, since, marked>>

Task == AddTarget \/ RemoveTarget \/ Event \/ emit_target \/ Send
Client == Receive \/ Close \/ \E id \in TargetIds : Ask(id)

Next == Store \/ Task \/ Client

Spec == Init /\ [][Next]_vars

\* The task is scheduled and its select is random among what is ready; the
\* client reads; a handler whose job is done goes on.
LiveSpec ==
  /\ Spec
  /\ WF_vars(AddTarget \/ RemoveTarget) /\ SF_vars(Event) /\ WF_vars(emit_target \/ Send)
  /\ WF_vars(Receive)
  /\ WF_vars(NotifyAfterJob /\ Store)
-----------------------------------------------------------------------------
Messages ==
  {m \in [kind : {"add", "remove", "change", "delete", "current", "no_change"},
           id : TargetIds \cup {None}, name : Names \cup {None}, version : Version] :
     /\ m.kind # "no_change" => m.id \in TargetIds
     /\ m.kind \in {"change", "delete"} => m.name \in Names}

TypeOK ==
  /\ FeedTypeOK
  /\ {open, lagged, initial, marked} \subseteq BOOLEAN /\ pending \in 0..Capacity
  /\ targets \in [TargetIds -> Snapshot \cup {None}]
  /\ view \in [TargetIds -> Snapshot \cup {None}]
  /\ todo \in Seq(TargetIds) /\ asked \in Seq([add : BOOLEAN, id : TargetIds])
  /\ {sending, out} \subseteq Seq(Messages) /\ Len(out) <= OutLimit
  /\ requests \in 0..MaxRequests /\ since \in [TargetIds -> Nat \ {0}]

(* When NO_CHANGE tells the client that its targets are up to date, each   *)
(* of its views is one snapshot of the store, no older than the moment it  *)
(* asked for the target: no mixture of two commits, no document that it    *)
(* missed, whatever changed, lagged or was added and removed meanwhile.    *)
ViewIsASnapshot ==
  marked => \A id \in TargetIds :
    view[id] # None => \E i \in since[id]..Len(log) : view[id] = Matching(id, log[i])

(* Once the writes stop, every view of a client that stays shows what the  *)
(* store holds ("Writes, deletes, and scoped reset notify subscribers",    *)
(* FIRESTORE-NOTES.md), unless the last notification is one that was never *)
(* sent: its writing client went away while the job was in SQLite.         *)
ViewsConverge ==
  <>[](open /\ ~missed =>
         \A id \in TargetIds : view[id] # None => view[id] = Matching(id, docs))
=============================================================================
