---------------------------- MODULE DocumentFeed ----------------------------
(***************************************************************************)
(* What a listener sees of the document store (firestore.rs): documents    *)
(* that change, and the broadcast that tells of it after the change.       *)
(* Without a data directory both happen under the store's lock.  With one  *)
(* (durable) the SQLite writer commits and the handler that waited for it  *)
(* sends the notification, if its client has not gone away by then.        *)
(*                                                                         *)
(* The version of a document is the number of the commit that wrote it;    *)
(* 0 is no document.                                                       *)
(***************************************************************************)
EXTENDS Sorted, Sequences

CONSTANTS
  Modes,       \* whether there is a data directory: TRUE, FALSE
  Names,
  TargetIds,
  None,        \* no target, no name, no view
  Wanted,      \* for each target the pairs of name and version it selects
  MaxCommits   \* bound: commits

ASSUME FeedAssumption ==
  /\ Modes \subseteq BOOLEAN
  /\ IsFiniteSet(Names) /\ IsFiniteSet(TargetIds) /\ MaxCommits \in Nat
  /\ Wanted \in [TargetIds -> SUBSET (Names \X (1..MaxCommits))]
  /\ TargetIds \subseteq Nat /\ None \notin Names \cup TargetIds \cup [Names -> 0..MaxCommits]

VARIABLES
  durable,  \* the mode the process was started in
  docs,     \* the version of each document
  log,      \* history: docs after each commit; log[1] is the empty store
  unsent,   \* commits whose handler has not sent its notification
  missed    \* history: a handler was dropped and none has notified since

feedVars == <<durable, docs, log, unsent, missed>>

Version == 0..MaxCommits
Snapshot == [Names -> Version]

FeedInit ==
  /\ durable \in Modes /\ docs = [n \in Names |-> 0] /\ log = <<docs>>
  /\ unsent = 0 /\ missed = FALSE

FeedTypeOK ==
  /\ {durable, missed} \subseteq BOOLEAN /\ docs \in Snapshot /\ log \in Seq(Snapshot)
  /\ unsent \in 0..MaxCommits

\* What a target selects of a snapshot: target_docs, documents and query_docs
\* read one snapshot each.
Matching(id, snapshot) ==
  [n \in Names |-> IF <<n, snapshot[n]>> \in Wanted[id] THEN snapshot[n] ELSE 0]

Nothing == [n \in Names |-> 0]

\* A response: its kind and, where it has them, its target, name and version.
Response(kind, id, name, version) ==
  [kind |-> kind, id |-> id, name |-> name, version |-> version]

\* What the client makes of a response, given its view of each target.
Shown(v, m) ==
  CASE m.kind = "add" -> [v EXCEPT ![m.id] = Nothing]
    [] m.kind = "remove" -> [v EXCEPT ![m.id] = None]
    [] m.kind \in {"change", "delete"} /\ v[m.id] # None -> [v EXCEPT ![m.id][m.name] = m.version]
    [] OTHER -> v

\* A commit, batch or reset: some documents are written, some are deleted.
Change ==
  /\ Len(log) <= MaxCommits
  /\ \E written, deleted \in SUBSET Names :
       /\ written \cap deleted = {} /\ written \cup deleted # {}
       /\ docs' = [n \in Names |-> IF n \in written THEN Len(log)
                                   ELSE IF n \in deleted THEN 0 ELSE docs[n]]
  /\ log' = Append(log, docs')
  /\ UNCHANGED durable

\* In memory, with the notification.
Commit == ~durable /\ Change /\ UNCHANGED <<unsent, missed>>

\* In SQLite, without it.
CommitJob == durable /\ Change /\ unsent' = unsent + 1 /\ UNCHANGED missed

\* The handler of a committed job goes on: changes.send.
NotifyAfterJob ==
  /\ unsent > 0 /\ unsent' = unsent - 1 /\ missed' = FALSE
  /\ UNCHANGED <<durable, docs, log>>

\* Its client had gone away, the handler was dropped; nothing is sent.
Forget ==
  /\ unsent > 0 /\ unsent' = unsent - 1 /\ missed' = TRUE
  /\ UNCHANGED <<durable, docs, log>>
=============================================================================
