-------------------------------- MODULE Auth --------------------------------
(***************************************************************************)
(* Accounts and sessions of the Auth emulator (auth.rs).  With a data      *)
(* directory (Durable) every request is one or two SQLite transactions;    *)
(* without one the users and the sessions are two maps, each with its own  *)
(* lock, and a request takes the locks one after the other.                *)
(*                                                                         *)
(* calls[c] is a handler where it waits for a lock, a reader or the        *)
(* writer:                                                                 *)
(*   "create"   create_account or sign_up, with the clock it has read      *)
(*   "reread"   sign_up, in memory: reads the account it has created       *)
(*   "refresh"  refresh_token, with the clock it has read                  *)
(*   "check"    session_user: reads the session, and the account           *)
(*   "account"  session_user or refresh_token, in memory: the session was  *)
(*              read, not yet the account                                  *)
(*   "expire"   session_user: removes the session that has expired         *)
(*   "write"    an update or delete whose caller was accepted              *)
(*   "purge"    delete_account, in memory: the account was removed         *)
(*   "issue"    issue_session, in memory, with the account it has read     *)
(***************************************************************************)
EXTENDS Naturals, FiniteSets

CONSTANTS
  Setups,            \* [durable, accounts, sessions, restarts]: whether there is
                     \* a data directory; bounds: the accounts that are made, the
                     \* refresh tokens that are handed out, and restarts
  Namespaces,        \* the projects
  DefaultNamespace,  \* the project of the browser routes
  Uids, Emails,
  IdTTL,             \* ID_TOKEN_TTL_SECS
  RefreshTTL,        \* REFRESH_TOKEN_TTL_SECS
  Calls,             \* handlers that run at the same time
  None,              \* no account, no e-mail address, no token
  MaxTime            \* bound: the clock, in seconds

Accounts == Namespaces \X Uids

User == [email : Emails \cup {None}, disabled : BOOLEAN, since : 0..MaxTime,
         created : 0..MaxTime]

ASSUME AuthAssumption ==
  /\ \A s \in Setups :
       /\ s.durable \in BOOLEAN /\ s.accounts \subseteq Accounts
       /\ {s.sessions, s.restarts} \subseteq Nat
  /\ DefaultNamespace \in Namespaces
  /\ {IdTTL, RefreshTTL} \subseteq Nat \ {0}
  /\ MaxTime \in Nat
  /\ None \notin Emails \cup User

VARIABLES
  setup,     \* the setup of this behaviour
  users,     \* auth_users: the account, or None
  sessions,  \* auth_sessions: the tokens that have a row
  issued,    \* history: every token handed out; clients may present any
  calls,
  clock,     \* unix_seconds
  crashes

Durable == setup.durable

vars == <<setup, users, sessions, issued, calls, clock, crashes>>

(* A refresh token is a fresh UUID, the number n.  An ID token is made of  *)
(* its claims: two of one account in one second are the same string, n = 0 *)
(* (the claims that an update changes, as the e-mail address, are left     *)
(* out, so here they are the same also when an update came between them).  *)
(* The other columns of a session follow from its token.                   *)
Token == [kind : {"id", "refresh"}, acc : Accounts, at : 0..MaxTime, n : 0..setup.sessions]

TTL(t) == IF t.kind = "id" THEN IdTTL ELSE RefreshTTL
Expires(t) == t.at + TTL(t)

Steps == {"idle", "create", "reread", "refresh", "check", "account", "expire", "write",
          "purge", "issue"}

\* op: the request; acc: its account; token: what it presents (None for the
\* Admin SDK); at: the clock it has read.
Ops == {"none", "create", "sign_up", "sign_in", "refresh", "lookup", "update", "delete"}
Call == [step : Steps, op : Ops, acc : Accounts \cup {None}, token : issued \cup {None},
         at : 0..MaxTime]

Idle == [step |-> "idle", op |-> "none", acc |-> None, token |-> None, at |-> 0]

Init ==
  /\ setup \in Setups
  /\ users = [a \in Accounts |-> None]
  /\ sessions = {} /\ issued = {}
  /\ calls = [c \in Calls |-> Idle]
  /\ clock = 0 /\ crashes = 0

Goto(c, step) == calls' = [calls EXCEPT ![c].step = step]
Return(c) == calls' = [calls EXCEPT ![c] = Idle]

Begin(c, call) == calls[c] = Idle /\ calls' = [calls EXCEPT ![c] = call]

-----------------------------------------------------------------------------
(* Accounts.                                                               *)
\* Mutant of EmailFree: disabled accounts are not searched.
EmailFreeOfEnabled(acc, email) ==
  email = None \/ \A a \in Accounts :
    a[1] = acc[1] /\ a # acc /\ users[a] # None /\ ~users[a].disabled => users[a].email # email

\* ensure_unique and ensure_unique_persistent, for an account or except it.
EmailFree(acc, email) ==
  email = None \/ \A a \in Accounts :
    a[1] = acc[1] /\ a # acc /\ users[a] # None => users[a].email # email

\* new_user, with the clock read before the job was queued.
NewUser(email, disabled, at) ==
  [email |-> email, disabled |-> disabled, since |-> 0, created |-> at]

\* apply_update: deletions first, then what the request sets; None keeps.  A
\* revocation (the Admin SDK's revokeRefreshTokens) sends the current second.
Updated(user, change) ==
  [email |-> IF change.email # None THEN change.email
             ELSE IF change.dropEmail THEN None ELSE user.email,
   disabled |-> IF change.disabled = None THEN user.disabled ELSE change.disabled,
   since |-> IF change.revoke THEN clock ELSE user.since,
   created |-> user.created]

Changes == [email : Emails \cup {None}, dropEmail : BOOLEAN,
            disabled : BOOLEAN \cup {None}, revoke : BOOLEAN]

-----------------------------------------------------------------------------
(* Sessions.                                                               *)
NextNumber == 1 + Cardinality({t \in issued : t.kind = "refresh"})

\* session_bundle: the ID token and the refresh token of a session.
Bundle(acc, at) ==
  {[kind |-> "id", acc |-> acc, at |-> at, n |-> 0],
   [kind |-> "refresh", acc |-> acc, at |-> at, n |-> NextNumber]}

\* Mutant of Kept: what the table holds is replaced.
KeptNone == {}

\* Sessions that outlive the pruning of insert_sessions and issue_session.
Kept == {t \in sessions : Expires(t) > clock}

\* A session of acc with the clock reading at, and the pruning at this moment.
Insert(acc, at) ==
  /\ NextNumber <= setup.sessions
  /\ sessions' = Kept \cup Bundle(acc, at)
  /\ issued' = issued \cup Bundle(acc, at)

\* The checks on the account after its session was found, for either kind.
Valid(t) == users[t.acc] # None /\ ~users[t.acc].disabled /\ users[t.acc].since <= t.at

-----------------------------------------------------------------------------
(* create_account (Admin SDK, any project) and sign_up (the default one).  *)
BeginCreate(c, op, acc) ==
  /\ op = "sign_up" => acc[1] = DefaultNamespace
  /\ Begin(c, [step |-> "create", op |-> op, acc |-> acc, token |-> None, at |-> clock])
  /\ UNCHANGED <<users, sessions, issued, clock, crashes>>

create_account(c, email, disabled) ==
  LET call == calls[c] IN
  /\ call.step = "create" /\ users[call.acc] = None /\ EmailFree(call.acc, email)
  /\ users' = [users EXCEPT ![call.acc] = NewUser(email, disabled, call.at)]
  /\ \/ /\ call.op = "create" /\ Return(c) /\ UNCHANGED <<sessions, issued>>
     \/ /\ call.op = "sign_up" /\ Durable
        /\ Insert(call.acc, call.at) /\ Return(c)
     \/ /\ call.op = "sign_up" /\ ~Durable
        /\ Goto(c, "reread") /\ UNCHANGED <<sessions, issued>>
  /\ UNCHANGED <<clock, crashes>>

\* In memory, sign_up reads back the account it has created.
sign_up(c) ==
  /\ calls[c].step = "reread" /\ users[calls[c].acc] # None
  /\ Goto(c, "issue")
  /\ UNCHANGED <<users, sessions, issued, clock, crashes>>

\* Mutant of sign_in: the session is issued after the transaction.
sign_in_late(c, acc) ==
  /\ acc[1] = DefaultNamespace /\ users[acc] # None /\ users[acc].email # None
  /\ ~users[acc].disabled
  /\ Begin(c, [Idle EXCEPT !.step = "issue", !.acc = acc]) /\ UNCHANGED <<sessions, issued>>
  /\ UNCHANGED <<users, clock, crashes>>

\* With the right password; in memory the session is issued under another lock.
sign_in(c, acc) ==
  /\ acc[1] = DefaultNamespace /\ users[acc] # None /\ users[acc].email # None
  /\ ~users[acc].disabled
  /\ \/ Durable /\ calls[c] = Idle /\ Insert(acc, clock) /\ UNCHANGED calls
     \/ ~Durable /\ Begin(c, [step |-> "issue", op |-> "sign_in", acc |-> acc,
                           token |-> None, at |-> 0])
        /\ UNCHANGED <<sessions, issued>>
  /\ UNCHANGED <<users, clock, crashes>>

issue_session(c) ==
  /\ calls[c].step = "issue"
  /\ Insert(calls[c].acc, clock)
  /\ Return(c)
  /\ UNCHANGED <<users, clock, crashes>>

-----------------------------------------------------------------------------
(* refresh_token.  A token that is not a UUID is refused before anything   *)
(* is read.                                                                *)
\* Mutant of BeginRefresh: any token is looked up.
BeginRefreshAny(c, t) ==
  /\ t \in issued
  /\ Begin(c, [step |-> "refresh", op |-> "refresh", acc |-> t.acc, token |-> t, at |-> clock])
  /\ UNCHANGED <<users, sessions, issued, clock, crashes>>

BeginRefresh(c, t) ==
  /\ t \in issued /\ t.kind = "refresh"
  /\ Begin(c, [step |-> "refresh", op |-> "refresh", acc |-> t.acc, token |-> t, at |-> clock])
  /\ UNCHANGED <<users, sessions, issued, clock, crashes>>

refresh_token(c) ==
  LET t == calls[c].token IN
  /\ calls[c].step = "refresh"
  /\ \/ /\ t \notin sessions
        /\ Return(c) /\ UNCHANGED <<sessions, issued>>
     \/ /\ t \in sessions
        /\ t.kind # "refresh" \/ Expires(t) <= calls[c].at
        /\ sessions' = sessions \ {t}
        /\ Return(c) /\ UNCHANGED issued
     \/ /\ t \in sessions /\ t.kind = "refresh" /\ Expires(t) > calls[c].at
        /\ \/ ~Durable /\ Goto(c, "account") /\ UNCHANGED <<sessions, issued>>
           \/ Durable /\ Valid(t) /\ Insert(t.acc, clock) /\ Return(c)
           \/ Durable /\ ~Valid(t) /\ Return(c) /\ UNCHANGED <<sessions, issued>>
  /\ UNCHANGED <<users, clock, crashes>>

-----------------------------------------------------------------------------
(* Requests with an ID token: session_user, then lookup, update or delete. *)
BeginCheck(c, op, ns, t) ==
  /\ t \in issued
  /\ Begin(c, [step |-> "check", op |-> op, acc |-> <<ns, t.acc[2]>>, token |-> t, at |-> clock])
  /\ UNCHANGED <<users, sessions, issued, clock, crashes>>

\* The Admin SDK names the account.
BeginAdmin(c, op, acc) ==
  /\ op # "lookup"
  /\ Begin(c, [step |-> "write", op |-> op, acc |-> acc, token |-> None, at |-> 0])
  /\ UNCHANGED <<users, sessions, issued, clock, crashes>>

\* What session_user checks, on the account with the session's uid in the
\* project of the route.
Accepted(c) ==
  LET t == calls[c].token IN
  /\ t.kind = "id" /\ t.acc[1] = calls[c].acc[1]
  /\ Expires(t) > calls[c].at /\ Valid([t EXCEPT !.acc = calls[c].acc])

ExpiredHere(c) ==
  LET t == calls[c].token IN
  /\ t.kind = "id" /\ t.acc[1] = calls[c].acc[1] /\ users[calls[c].acc] # None
  /\ Expires(t) <= calls[c].at

\* The rest of session_user, once session and account have been read.
Decide(c) ==
  \/ ExpiredHere(c) /\ Goto(c, "expire")
  \/ Accepted(c) /\ calls[c].op # "lookup" /\ Goto(c, "write")
  \/ ~ExpiredHere(c) /\ (Accepted(c) => calls[c].op = "lookup") /\ Return(c)

session_user(c) ==
  /\ calls[c].step = "check"
  /\ \/ calls[c].token \notin sessions /\ Return(c)
     \/ calls[c].token \in sessions /\ ~Durable /\ Goto(c, "account")
     \/ calls[c].token \in sessions /\ Durable /\ Decide(c)
  /\ UNCHANGED <<users, sessions, issued, clock, crashes>>

\* In memory: the account, under its own lock.
ReadAccount(c) ==
  /\ calls[c].step = "account"
  /\ IF calls[c].op # "refresh" THEN Decide(c)
     ELSE IF Valid(calls[c].token) THEN Goto(c, "issue") ELSE Return(c)
  /\ UNCHANGED <<users, sessions, issued, clock, crashes>>

RemoveExpired(c) ==
  /\ calls[c].step = "expire"
  /\ sessions' = sessions \ {calls[c].token}
  /\ Return(c)
  /\ UNCHANGED <<users, issued, clock, crashes>>

\* A browser update also gets a new session.
update_account(c, change) ==
  LET acc == calls[c].acc IN
  /\ calls[c].step = "write" /\ calls[c].op = "update"
  /\ users[acc] # None /\ EmailFree(acc, change.email)
  /\ users' = [users EXCEPT ![acc] = Updated(@, change)]
  /\ \/ calls[c].token = None /\ Return(c) /\ UNCHANGED <<sessions, issued>>
     \/ calls[c].token # None /\ Durable /\ Insert(acc, clock) /\ Return(c)
     \/ calls[c].token # None /\ ~Durable /\ Goto(c, "issue") /\ UNCHANGED <<sessions, issued>>
  /\ UNCHANGED <<clock, crashes>>

\* Mutant of OfOthers: the sessions stay.
AllSessions(acc) == sessions

\* The sessions a delete leaves.
OfOthers(acc) == {t \in sessions : t.acc # acc}

delete_account(c) ==
  LET acc == calls[c].acc IN
  /\ calls[c].step = "write" /\ calls[c].op = "delete" /\ users[acc] # None
  /\ users' = [users EXCEPT ![acc] = None]
  /\ \/ Durable /\ sessions' = OfOthers(acc) /\ Return(c)
     \/ ~Durable /\ Goto(c, "purge") /\ UNCHANGED sessions
  /\ UNCHANGED <<issued, clock, crashes>>

PurgeSessions(c) ==
  /\ calls[c].step = "purge"
  /\ sessions' = OfOthers(calls[c].acc)
  /\ Return(c)
  /\ UNCHANGED <<users, issued, clock, crashes>>

-----------------------------------------------------------------------------
(* Any request may be refused where it waits (another uid or e-mail in the *)
(* way, an account that is gone, SQLite), and its client may go away.      *)
CallEnds(c) ==
  /\ calls[c] # Idle
  /\ Return(c)
  /\ UNCHANGED <<users, sessions, issued, clock, crashes>>

\* A restart: what is not in SQLite is lost.
Restart ==
  /\ crashes < setup.restarts /\ crashes' = crashes + 1
  /\ calls' = [c \in Calls |-> Idle]
  /\ users' = IF Durable THEN users ELSE [a \in Accounts |-> None]
  /\ sessions' = IF Durable THEN sessions ELSE {}
  /\ UNCHANGED <<issued, clock>>

Tick ==
  /\ clock < MaxTime /\ clock' = clock + 1
  /\ UNCHANGED <<users, sessions, issued, calls, crashes>>

Handler(c) ==
  \/ \E e \in Emails \cup {None}, d \in BOOLEAN : create_account(c, e, d)
  \/ sign_up(c) \/ issue_session(c) \/ refresh_token(c)
  \/ session_user(c) \/ ReadAccount(c) \/ RemoveExpired(c)
  \/ \E x \in Changes : update_account(c, x)
  \/ delete_account(c) \/ PurgeSessions(c) \/ CallEnds(c)

Request(c) ==
  \/ \E a \in Accounts : sign_in(c, a)
  \/ \E a \in setup.accounts, op \in {"create", "sign_up"} : BeginCreate(c, op, a)
  \/ \E a \in setup.accounts, op \in {"update", "delete"} : BeginAdmin(c, op, a)
  \/ \E t \in issued : BeginRefresh(c, t)
  \/ \E t \in issued, ns \in {a[1] : a \in setup.accounts}, op \in {"lookup", "update", "delete"} :
       BeginCheck(c, op, ns, t)

Next ==
  /\ (\E c \in Calls : Handler(c) \/ Request(c)) \/ Restart \/ Tick
  /\ UNCHANGED setup

Spec == Init /\ [][Next]_vars
-----------------------------------------------------------------------------
TypeOK ==
  /\ setup \in Setups
  /\ users \in [Accounts -> User \cup {None}]
  /\ sessions \subseteq issued /\ issued \subseteq Token /\ IsFiniteSet(issued)
  /\ calls \in [Calls -> Call]
  /\ clock \in 0..MaxTime /\ crashes \in Nat

\* What has been read is of the past: the clock of a handler, and the second
\* an account was created in.
ReadsArePast ==
  /\ \A c \in Calls : calls[c].at <= clock
  /\ \A a \in Accounts : users[a] # None => users[a].created <= clock

\* With a data directory no handler waits between the steps of a request that
\* writes; it has an account and a token that was handed out, and expires none
\* too early.
StepsOK ==
  \A c \in Calls :
    /\ calls[c].step # "idle" => calls[c].acc \in Accounts
    /\ Durable => calls[c].step \notin {"reread", "account", "purge", "issue"}
    /\ calls[c].step \in {"refresh", "check", "account", "expire"} => calls[c].token \in issued
    /\ calls[c].step = "refresh" => calls[c].token.kind = "refresh"
    /\ calls[c].step = "expire" => Expires(calls[c].token) <= calls[c].at

(* No two accounts of a project share an e-mail address, whatever creates, *)
(* updates and sign-ups wait for each other.                               *)
EmailUnique ==
  \A a, b \in Accounts :
    a # b /\ a[1] = b[1] /\ users[a] # None /\ users[b] # None /\ users[a].email # None
      => users[a].email # users[b].email

(* A session row belongs to an account that exists, and was issued no      *)
(* earlier than that account was created: the sessions of a deleted user   *)
(* do not come back to life when its uid is used again, even when the      *)
(* deletion came between the steps of a sign-up, refresh or update         *)
(* (docs/PERSISTENCE.md: "Deleting a user invalidates all sessions").  In  *)
(* memory a session can be issued after its account was deleted.           *)
SessionsHaveAccount ==
  Durable => \A t \in sessions : users[t.acc] # None /\ users[t.acc].created <= t.at

(* A session leaves the table only when it has expired or its account is   *)
(* being deleted: no refresh, check, pruning or other account's deletion   *)
(* takes it away.  In memory a restart does, and so does the second half   *)
(* of a deletion, when its uid was signed up again after the first.        *)
SessionLeavesForCause ==
  [][Durable => \A t \in sessions \ sessions' : Expires(t) <= clock \/ users'[t.acc] = None]_vars
=============================================================================
