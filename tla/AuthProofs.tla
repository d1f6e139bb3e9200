----------------------------- MODULE AuthProofs -----------------------------
(***************************************************************************)
(* Proofs about Auth for every set of projects, accounts, addresses and    *)
(* handlers, every lifetime of tokens, with and without a data directory.  *)
(***************************************************************************)
EXTENDS Auth, FiniteSetTheorems, TLAPS

(* The inductive invariant: sessions follow accounts because what a        *)
(* handler remembers is not from the future, and because with a data       *)
(* directory it remembers no account across two transactions.              *)
IInv ==
  /\ TypeOK /\ ReadsArePast /\ StepsOK
  /\ EmailUnique /\ SessionsHaveAccount

-----------------------------------------------------------------------------
(* Facts about the operators.                                              *)

\* A number for a fresh refresh token.
LEMMA NextNumberType == IsFiniteSet(issued) => NextNumber \in Nat \ {0}
<1> SUFFICES ASSUME IsFiniteSet(issued) PROVE NextNumber \in Nat \ {0}
  OBVIOUS
<1> DEFINE R == {t \in issued : t.kind = "refresh"}
<1>1. IsFiniteSet(R)
  BY FS_Subset
<1>2. Cardinality(R) \in Nat
  BY <1>1, FS_CardinalityType
<1> QED BY <1>2 DEF NextNumber

\* The tokens of a session belong to its account and are of its moment.
LEMMA BundleFacts ==
  ASSUME NEW acc \in Accounts, NEW at \in 0..MaxTime
  PROVE  /\ IsFiniteSet(Bundle(acc, at))
         /\ \A t \in Bundle(acc, at) : t.acc = acc /\ t.at = at
<1>1. IsFiniteSet(Bundle(acc, at))
  <2> DEFINE a == [kind |-> "id", acc |-> acc, at |-> at, n |-> 0]
             b == [kind |-> "refresh", acc |-> acc, at |-> at, n |-> NextNumber]
  <2>1. IsFiniteSet({a}) /\ IsFiniteSet({b})
    BY FS_Singleton
  <2>2. IsFiniteSet({a} \cup {b})
    BY <2>1, FS_Union
  <2>3. Bundle(acc, at) = {a} \cup {b}
    BY DEF Bundle
  <2> QED BY <2>2, <2>3
<1> QED BY <1>1 DEF Bundle

\* What inserting a session does to the tables.
LEMMA InsertFacts ==
  ASSUME TypeOK, NEW acc \in Accounts, NEW at \in 0..MaxTime, Insert(acc, at)
  PROVE  /\ sessions' \subseteq issued' /\ issued' \subseteq Token /\ IsFiniteSet(issued')
         /\ issued \subseteq issued'
         /\ \A t \in sessions' : t \in sessions \/ (t.acc = acc /\ t.at = at)
         /\ \A t \in sessions \ sessions' : Expires(t) <= clock
<1>1. /\ sessions' = Kept \cup Bundle(acc, at)
      /\ issued' = issued \cup Bundle(acc, at)
      /\ NextNumber <= setup.sessions
  BY DEF Insert
<1>2. Bundle(acc, at) \subseteq Token
  <2>1. NextNumber \in Nat \ {0} /\ setup.sessions \in Nat
    BY NextNumberType, AuthAssumption DEF TypeOK
  <2>2. NextNumber \in 0..setup.sessions /\ 0 \in 0..setup.sessions
    BY <1>1, <2>1
  <2> QED BY <2>2 DEF Bundle, Token
<1>3. IsFiniteSet(issued')
  BY <1>1, BundleFacts, FS_Union DEF TypeOK
<1>4. \A t \in Token : Expires(t) \in Nat
  BY AuthAssumption DEF Token, Expires, TTL
<1>5. \A t \in sessions \ Kept : Expires(t) <= clock
  BY <1>4, AuthAssumption DEF Kept, TypeOK
<1> QED BY <1>1, <1>2, <1>3, <1>5, BundleFacts DEF Kept, TypeOK

\* Setting the step of a handler, or ending it, keeps the types of all of them.
LEMMA CallTypes ==
  ASSUME TypeOK, NEW c \in Calls, issued \subseteq issued',
         \/ Return(c)
         \/ \E step \in Steps : Goto(c, step)
         \/ UNCHANGED calls
  PROVE  calls' \in [Calls -> Call']
<1>1. \A x \in Call : x \in Call'
  BY DEF Call
<1>2. Idle \in Call'
  BY AuthAssumption DEF Idle, Call, Steps, Ops
<1>3. \A x \in Call, step \in Steps : [x EXCEPT !.step = step] \in Call'
  BY <1>1 DEF Call
<1>4. CASE Return(c)
  BY <1>1, <1>2, <1>4 DEF Return, TypeOK
<1>5. ASSUME NEW step \in Steps, Goto(c, step) PROVE calls' \in [Calls -> Call']
  <2>1. \A d \in Calls : calls'[d] = IF d = c THEN [calls[c] EXCEPT !.step = step] ELSE calls[d]
    BY <1>5 DEF Goto, TypeOK
  <2>2. calls' = [d \in Calls |-> calls'[d]]
    BY <1>5 DEF Goto, TypeOK
  <2> QED BY <1>1, <1>3, <2>1, <2>2 DEF TypeOK
<1>6. CASE UNCHANGED calls
  BY <1>1, <1>6 DEF TypeOK
<1> QED BY <1>4, <1>5, <1>6

-----------------------------------------------------------------------------
(* The invariant holds initially and every step keeps it.                  *)
LEMMA InitIInv == Init => IInv
<1> SUFFICES ASSUME Init PROVE IInv
  OBVIOUS
<1>1. TypeOK
  BY AuthAssumption, FS_EmptySet DEF Init, TypeOK, Idle, Call, Steps, Ops, User
<1>2. ReadsArePast /\ StepsOK
  BY DEF Init, ReadsArePast, StepsOK, Idle
<1>3. EmailUnique /\ SessionsHaveAccount
  BY DEF Init, EmailUnique, SessionsHaveAccount
<1> QED BY <1>1, <1>2, <1>3 DEF IInv

\* A new call of an idle handler keeps the types.
LEMMA BeginTypes ==
  ASSUME TypeOK, NEW c \in Calls, NEW call \in Call, Begin(c, call), UNCHANGED issued
  PROVE  calls' \in [Calls -> Call']
<1>1. \A x \in Call : x \in Call'
  BY DEF Call
<1> QED BY <1>1 DEF Begin, TypeOK

\* Every variable keeps its type.
LEMMA TypeStep ==
  ASSUME IInv, Next
  PROVE  TypeOK'
<1> USE DEF IInv
<1>0. /\ setup' = setup /\ setup \in Setups /\ clock \in 0..MaxTime
      /\ setup.durable \in BOOLEAN
  BY AuthAssumption DEF Next, TypeOK
<1>t. \A c \in Calls :
        /\ calls[c] \in Call /\ calls[c].at \in 0..MaxTime
        /\ calls[c].step # "idle" => calls[c].acc \in Accounts
  BY DEF TypeOK, Call, StepsOK
<1>s. Steps = {"idle", "create", "reread", "refresh", "check", "account", "expire", "write",
               "purge", "issue"}
  BY DEF Steps
<1>q. ASSUME UNCHANGED <<users, sessions, issued>>, clock' \in 0..MaxTime, crashes' \in Nat,
             calls' \in [Calls -> Call']
      PROVE  TypeOK'
  BY <1>0, <1>q DEF TypeOK, Token
<1>1. ASSUME NEW c \in Calls, NEW e \in Emails \cup {None}, NEW d \in BOOLEAN,
             create_account(c, e, d)
      PROVE  TypeOK'
  <2>1. users' \in [Accounts -> User \cup {None}]
    <3>1. NewUser(e, d, calls[c].at) \in User
      BY <1>t, AuthAssumption DEF NewUser, User
    <3> QED BY <1>1, <3>1 DEF create_account, TypeOK
  <2>2. CASE UNCHANGED <<sessions, issued>>
    <3>1. calls' \in [Calls -> Call']
      BY <1>1, <1>s, <2>2, CallTypes DEF create_account
    <3> QED BY <1>0, <1>1, <2>1, <2>2, <3>1 DEF create_account, TypeOK, Token
  <2>3. CASE Insert(calls[c].acc, calls[c].at) /\ Return(c)
    <3>1. calls[c].acc \in Accounts
      BY <1>1, <1>t DEF create_account
    <3>2. /\ sessions' \subseteq issued' /\ issued' \subseteq Token /\ IsFiniteSet(issued')
          /\ issued \subseteq issued'
      BY <1>t, <2>3, <3>1, InsertFacts
    <3>3. calls' \in [Calls -> Call']
      BY <2>3, <3>2, CallTypes
    <3> QED BY <1>0, <1>1, <2>1, <3>2, <3>3 DEF create_account, TypeOK, Token
  <2> QED BY <1>1, <2>2, <2>3 DEF create_account
<1>2. ASSUME NEW c \in Calls, sign_up(c) PROVE TypeOK'
  BY <1>0, <1>2, <1>q, <1>s, CallTypes DEF sign_up, TypeOK
<1>3. ASSUME NEW c \in Calls, NEW acc \in Accounts, Insert(acc, clock),
             Return(c) \/ UNCHANGED calls, UNCHANGED <<clock, crashes>>,
             users' \in [Accounts -> User \cup {None}]
      PROVE  TypeOK'
  <2>1. /\ sessions' \subseteq issued' /\ issued' \subseteq Token /\ IsFiniteSet(issued')
        /\ issued \subseteq issued'
    BY <1>0, <1>3, InsertFacts
  <2>2. calls' \in [Calls -> Call']
    BY <1>3, <2>1, CallTypes
  <2> QED BY <1>0, <1>3, <2>1, <2>2 DEF TypeOK, Token
<1>4. ASSUME NEW c \in Calls, NEW acc \in Accounts, sign_in(c, acc) PROVE TypeOK'
  <2>1. CASE Insert(acc, clock) /\ UNCHANGED calls
    BY <1>3, <1>4, <2>1 DEF sign_in, TypeOK
  <2>2. CASE /\ Begin(c, [step |-> "issue", op |-> "sign_in", acc |-> acc, token |-> None, at |-> 0])
             /\ UNCHANGED <<sessions, issued>>
    <3>1. [step |-> "issue", op |-> "sign_in", acc |-> acc, token |-> None, at |-> 0] \in Call
      BY AuthAssumption DEF Call, Steps, Ops
    <3> QED BY <1>0, <1>4, <1>q, <2>2, <3>1, BeginTypes DEF sign_in, TypeOK
  <2> QED BY <1>4, <2>1, <2>2 DEF sign_in
<1>5. ASSUME NEW c \in Calls, issue_session(c) PROVE TypeOK'
  BY <1>3, <1>5, <1>t DEF issue_session, TypeOK
<1>6. ASSUME NEW c \in Calls, refresh_token(c) PROVE TypeOK'
  <2>1. CASE UNCHANGED <<sessions, issued>>
    BY <1>0, <1>6, <1>q, <1>s, <2>1, CallTypes DEF refresh_token, TypeOK
  <2>2. CASE sessions' = sessions \ {calls[c].token} /\ Return(c) /\ UNCHANGED issued
    BY <1>0, <1>6, <2>2, CallTypes DEF refresh_token, TypeOK, Token
  <2>3. CASE Insert(calls[c].token.acc, clock) /\ Return(c)
    <3>1. calls[c].token \in Token
      BY <1>6 DEF refresh_token, StepsOK, TypeOK
    <3>2. calls[c].token.acc \in Accounts
      BY <3>1 DEF Token
    <3> QED BY <1>3, <1>6, <2>3, <3>2 DEF refresh_token, TypeOK
  <2> QED BY <1>6, <2>1, <2>2, <2>3 DEF refresh_token
<1>7. ASSUME NEW c \in Calls, session_user(c) \/ ReadAccount(c) PROVE TypeOK'
  BY <1>0, <1>7, <1>q, <1>s, CallTypes DEF session_user, ReadAccount, Decide, TypeOK
<1>8. ASSUME NEW c \in Calls, RemoveExpired(c) \/ PurgeSessions(c) PROVE TypeOK'
  BY <1>0, <1>8, CallTypes DEF RemoveExpired, PurgeSessions, OfOthers, TypeOK, Token
<1>9. ASSUME NEW c \in Calls, NEW change \in Changes, update_account(c, change) PROVE TypeOK'
  <2>1. users' \in [Accounts -> User \cup {None}]
    <3>1. calls[c].acc \in Accounts /\ users[calls[c].acc] \in User
      BY <1>9, <1>t DEF update_account, TypeOK
    <3>2. Updated(users[calls[c].acc], change) \in User
      BY <1>0, <3>1 DEF Updated, Changes, User
    <3> QED BY <1>9, <3>2 DEF update_account, TypeOK
  <2>2. CASE UNCHANGED <<sessions, issued>>
    <3>1. calls' \in [Calls -> Call']
      BY <1>9, <1>s, <2>2, CallTypes DEF update_account
    <3> QED BY <1>0, <1>9, <2>1, <2>2, <3>1 DEF update_account, TypeOK, Token
  <2>3. CASE Insert(calls[c].acc, clock) /\ Return(c)
    BY <1>3, <1>9, <1>t, <2>1, <2>3 DEF update_account, TypeOK
  <2> QED BY <1>9, <2>2, <2>3 DEF update_account
<1>10. ASSUME NEW c \in Calls, delete_account(c) PROVE TypeOK'
  <2>1. calls' \in [Calls -> Call']
    BY <1>10, <1>s, CallTypes DEF delete_account
  <2>2. users' \in [Accounts -> User \cup {None}] /\ sessions' \subseteq sessions
    BY <1>10 DEF delete_account, OfOthers, TypeOK
  <2> QED BY <1>0, <1>10, <2>1, <2>2 DEF delete_account, TypeOK, Token
<1>11. ASSUME NEW c \in Calls, CallEnds(c) PROVE TypeOK'
  BY <1>0, <1>11, <1>q, CallTypes DEF CallEnds, TypeOK
<1>12. ASSUME NEW c \in Calls, Request(c), ~\E a \in Accounts : sign_in(c, a) PROVE TypeOK'
  <2>1. \A a \in setup.accounts : a \in Accounts
    BY <1>0, AuthAssumption
  <2>2. \E call \in Call : Begin(c, call)
    <3>1. ASSUME NEW a \in setup.accounts, NEW op \in {"create", "sign_up"},
                 BeginCreate(c, op, a)
          PROVE  \E call \in Call : Begin(c, call)
      BY <1>0, <2>1, <3>1 DEF BeginCreate, Call, Steps, Ops
    <3>2. ASSUME NEW a \in setup.accounts, NEW op \in {"update", "delete"},
                 BeginAdmin(c, op, a)
          PROVE  \E call \in Call : Begin(c, call)
      <4>1. [step |-> "write", op |-> op, acc |-> a, token |-> None, at |-> 0] \in Call
        BY <2>1, AuthAssumption DEF Call, Steps, Ops
      <4> QED BY <3>2, <4>1 DEF BeginAdmin
    <3>3. ASSUME NEW t \in issued, BeginRefresh(c, t) PROVE \E call \in Call : Begin(c, call)
      <4>1. t.acc \in Accounts
        BY DEF TypeOK, Token
      <4> QED BY <1>0, <3>3, <4>1 DEF BeginRefresh, Call, Steps, Ops
    <3>4. ASSUME NEW t \in issued, NEW ns \in {a[1] : a \in setup.accounts},
                 NEW op \in {"lookup", "update", "delete"}, BeginCheck(c, op, ns, t)
          PROVE  \E call \in Call : Begin(c, call)
      <4>1. t.acc \in Accounts
        BY DEF TypeOK, Token
      <4>2. <<ns, t.acc[2]>> \in Accounts
        BY <2>1, <4>1 DEF Accounts
      <4> QED BY <1>0, <3>4, <4>2 DEF BeginCheck, Call, Steps, Ops
    <3> QED BY <1>12, <3>1, <3>2, <3>3, <3>4 DEF Request
  <2>3. UNCHANGED <<users, sessions, issued, clock, crashes>>
    BY <1>12 DEF Request, BeginCreate, BeginAdmin, BeginRefresh, BeginCheck
  <2> QED BY <1>0, <1>q, <2>2, <2>3, BeginTypes DEF TypeOK
<1>13. CASE Restart
  <2>1. Idle \in Call'
    BY AuthAssumption DEF Idle, Call, Steps, Ops
  <2> QED BY <1>0, <1>13, <2>1 DEF Restart, TypeOK, Token
<1>14. CASE Tick
  <2>1. clock' \in 0..MaxTime
    BY <1>14, AuthAssumption DEF Tick, TypeOK
  <2>2. calls' \in [Calls -> Call']
    BY <1>14 DEF Tick, TypeOK, Call
  <2> QED BY <1>14, <1>q, <2>1, <2>2 DEF Tick, TypeOK
<1> QED BY <1>1, <1>2, <1>4, <1>5, <1>6, <1>7, <1>8, <1>9, <1>10, <1>11, <1>12, <1>13, <1>14
        DEF Next, Handler

-----------------------------------------------------------------------------
(* What a step does to one handler and to the accounts.                    *)

\* A handler goes on, ends, or takes a new request.
LEMMA CallChange ==
  ASSUME IInv, Next, NEW c \in Calls
  PROVE  \/ calls'[c] = calls[c] \/ calls'[c] = Idle
         \/ \E step \in Steps :
              /\ calls'[c] = [calls[c] EXCEPT !.step = step] /\ calls[c].step # "idle"
              /\ \/ step = "account" /\ calls[c].step \in {"refresh", "check"} /\ ~Durable
                 \/ /\ step = "expire" /\ calls[c].step \in {"check", "account"}
                    /\ Expires(calls[c].token) <= calls[c].at
                 \/ step = "write"
                 \/ step \in {"issue", "purge", "reread"} /\ ~Durable
         \/ /\ calls'[c].at \in {0, clock} /\ calls'[c].acc \in Accounts
            /\ \/ calls'[c].step \in {"create", "write"}
               \/ calls'[c].step = "issue" /\ ~Durable
               \/ calls'[c].step \in {"refresh", "check"} /\ calls'[c].token \in issued
            /\ calls'[c].step = "refresh" => calls'[c].token.kind = "refresh"
<1> DEFINE Goal == \/ calls'[c] = calls[c] \/ calls'[c] = Idle
                   \/ \E step \in Steps :
                        /\ calls'[c] = [calls[c] EXCEPT !.step = step] /\ calls[c].step # "idle"
                        /\ \/ step = "account" /\ calls[c].step \in {"refresh", "check"}
                              /\ ~Durable
                           \/ /\ step = "expire" /\ calls[c].step \in {"check", "account"}
                              /\ Expires(calls[c].token) <= calls[c].at
                           \/ step = "write"
                           \/ step \in {"issue", "purge", "reread"} /\ ~Durable
                   \/ /\ calls'[c].at \in {0, clock} /\ calls'[c].acc \in Accounts
                      /\ \/ calls'[c].step \in {"create", "write"}
                         \/ calls'[c].step = "issue" /\ ~Durable
                         \/ calls'[c].step \in {"refresh", "check"} /\ calls'[c].token \in issued
                      /\ calls'[c].step = "refresh" => calls'[c].token.kind = "refresh"
<1> USE DEF IInv
<1>t. calls \in [Calls -> Call] /\ (calls[c].step = "account" => ~Durable)
  BY DEF TypeOK, StepsOK
<1>r. ASSUME NEW d \in Calls, Return(d) \/ UNCHANGED calls PROVE Goal
  BY <1>r, <1>t DEF Return
<1>g. ASSUME NEW d \in Calls, NEW step, Goto(d, step)
      PROVE  IF c = d THEN calls'[c] = [calls[c] EXCEPT !.step = step]
                      ELSE calls'[c] = calls[c]
  BY <1>g, <1>t DEF Goto
<1>b. ASSUME NEW d \in Calls, NEW call, Begin(d, call)
      PROVE  IF c = d THEN calls'[c] = call ELSE calls'[c] = calls[c]
  BY <1>b, <1>t DEF Begin
<1>1. ASSUME NEW d \in Calls, NEW e \in Emails \cup {None}, NEW x \in BOOLEAN,
             create_account(d, e, x)
      PROVE  Goal
  BY <1>1, <1>r, <1>g DEF create_account, Steps
<1>2. ASSUME NEW d \in Calls, sign_up(d) PROVE Goal
  <2>1. calls[d].step = "reread" => ~Durable
    BY DEF StepsOK
  <2> QED BY <1>2, <2>1, <1>g DEF sign_up, Steps
<1>3. ASSUME NEW d \in Calls, NEW acc \in Accounts, sign_in(d, acc) PROVE Goal
  BY <1>3, <1>r, <1>b DEF sign_in
<1>4. ASSUME NEW d \in Calls, issue_session(d) \/ RemoveExpired(d) \/ PurgeSessions(d)
             \/ CallEnds(d)
      PROVE  Goal
  BY <1>4, <1>r DEF issue_session, RemoveExpired, PurgeSessions, CallEnds
<1>5. ASSUME NEW d \in Calls, refresh_token(d) PROVE Goal
  BY <1>5, <1>r, <1>g DEF refresh_token, Steps
<1>6. ASSUME NEW d \in Calls, calls[d].step \in {"check", "account"}, Decide(d) PROVE Goal
  <2>1. CASE Return(d)
    BY <1>r, <2>1
  <2>2. CASE ExpiredHere(d) /\ Goto(d, "expire")
    BY <1>6, <1>g, <2>2 DEF ExpiredHere, Steps
  <2>3. CASE Goto(d, "write")
    BY <1>6, <1>g, <2>3 DEF Steps
  <2> QED BY <1>6, <2>1, <2>2, <2>3 DEF Decide
<1>7. ASSUME NEW d \in Calls, session_user(d) PROVE Goal
  BY <1>7, <1>6, <1>r, <1>g DEF session_user, Steps
<1>8. ASSUME NEW d \in Calls, ReadAccount(d) PROVE Goal
  <2>1. calls[d].step = "account" => ~Durable
    BY DEF StepsOK
  <2> QED BY <1>8, <2>1, <1>6, <1>r, <1>g DEF ReadAccount, Steps
<1>9. ASSUME NEW d \in Calls, NEW change \in Changes, update_account(d, change) PROVE Goal
  BY <1>9, <1>r, <1>g DEF update_account, Steps
<1>10. ASSUME NEW d \in Calls, delete_account(d) PROVE Goal
  BY <1>10, <1>r, <1>g DEF delete_account, Steps
<1>11. ASSUME NEW d \in Calls, NEW a \in setup.accounts, NEW op,
              BeginCreate(d, op, a) \/ BeginAdmin(d, op, a)
       PROVE  Goal
  <2>1. a \in Accounts
    BY AuthAssumption DEF TypeOK
  <2> QED BY <1>11, <1>b, <2>1 DEF BeginCreate, BeginAdmin
<1>12. ASSUME NEW d \in Calls, NEW t \in issued, BeginRefresh(d, t) PROVE Goal
  <2>1. t.acc \in Accounts
    BY DEF TypeOK, Token
  <2> QED BY <1>12, <1>b, <2>1 DEF BeginRefresh
<1>13. ASSUME NEW d \in Calls, NEW t \in issued, NEW ns \in {a[1] : a \in setup.accounts},
              NEW op, BeginCheck(d, op, ns, t)
       PROVE  Goal
  <2>1. t.acc \in Accounts /\ \A a \in setup.accounts : a \in Accounts
    BY AuthAssumption DEF TypeOK, Token
  <2>2. <<ns, t.acc[2]>> \in Accounts
    BY <2>1 DEF Accounts
  <2> QED BY <1>13, <1>b, <2>2 DEF BeginCheck
<1>14. CASE Restart \/ Tick
  BY <1>14 DEF Restart, Tick
<1> QED BY <1>1, <1>2, <1>3, <1>4, <1>5, <1>7, <1>8, <1>9, <1>10, <1>11, <1>12, <1>13, <1>14
        DEF Next, Handler, Request

\* One account is made, changed or deleted, or a restart loses all of them.
LEMMA UsersChange ==
  ASSUME IInv, Next
  PROVE  \/ users' = users
         \/ users' = [a \in Accounts |-> None] /\ ~Durable /\ sessions' = {}
         \/ \E acc \in Accounts, new \in User \cup {None} :
              /\ users' = [users EXCEPT ![acc] = new]
              /\ new # None =>
                   /\ new.created <= clock
                   /\ users[acc] # None => new.created = users[acc].created
                   /\ \/ EmailFree(acc, new.email)
                      \/ users[acc] # None /\ new.email = users[acc].email
              /\ new = None => (Durable => sessions' = OfOthers(acc))
<1> DEFINE Changed(acc, new) ==
             /\ users' = [users EXCEPT ![acc] = new]
             /\ new # None =>
                  /\ new.created <= clock
                  /\ users[acc] # None => new.created = users[acc].created
                  /\ \/ EmailFree(acc, new.email)
                     \/ users[acc] # None /\ new.email = users[acc].email
             /\ new = None => (Durable => sessions' = OfOthers(acc))
<1> USE DEF IInv
<1>t. /\ clock \in 0..MaxTime
      /\ \A c \in Calls : /\ calls[c].at \in 0..MaxTime /\ calls[c].at <= clock
                          /\ calls[c].step # "idle" => calls[c].acc \in Accounts
  BY DEF TypeOK, Call, StepsOK, ReadsArePast
<1>n. None \notin User /\ None \notin Emails
  BY AuthAssumption
<1>1. ASSUME NEW c \in Calls, NEW e \in Emails \cup {None}, NEW d \in BOOLEAN,
             create_account(c, e, d)
      PROVE  \E acc \in Accounts, new \in User \cup {None} : Changed(acc, new)
  <2>1. NewUser(e, d, calls[c].at) \in User
    BY <1>t, AuthAssumption DEF NewUser, User
  <2>2. Changed(calls[c].acc, NewUser(e, d, calls[c].at))
    BY <1>1, <1>t, <1>n, <2>1 DEF create_account, NewUser
  <2> QED BY <1>1, <1>t, <2>1, <2>2 DEF create_account
<1>2. ASSUME NEW c \in Calls, NEW change \in Changes, update_account(c, change)
      PROVE  \E acc \in Accounts, new \in User \cup {None} : Changed(acc, new)
  <2> DEFINE acc == calls[c].acc
             new == Updated(users[acc], change)
  <2>1. acc \in Accounts /\ users[acc] \in User /\ users[acc] # None
    BY <1>2, <1>t DEF update_account, TypeOK
  <2>2. new \in User /\ new.created = users[acc].created
    BY <1>t, <2>1 DEF Updated, Changes, User
  <2>3. EmailFree(acc, new.email) \/ new.email = users[acc].email
    BY <1>2, <2>1 DEF update_account, Updated, EmailFree
  <2>4. new.created <= clock
    BY <2>1, <2>2 DEF ReadsArePast
  <2>5. users' = [users EXCEPT ![acc] = new]
    BY <1>2 DEF update_account
  <2>6. Changed(acc, new)
    BY <1>n, <2>1, <2>2, <2>3, <2>4, <2>5
  <2> QED BY <2>1, <2>2, <2>6
<1>3. ASSUME NEW c \in Calls, delete_account(c)
      PROVE  \E acc \in Accounts, new \in User \cup {None} : Changed(acc, new)
  <2>1. Durable => sessions' = OfOthers(calls[c].acc)
    BY <1>3 DEF delete_account
  <2>2. calls[c].acc \in Accounts /\ users' = [users EXCEPT ![calls[c].acc] = None]
    BY <1>3, <1>t DEF delete_account
  <2> QED BY <2>1, <2>2
<1>4. CASE Restart
  BY <1>4 DEF Restart
<1>5. ASSUME NEW c \in Calls,
             \/ sign_up(c) \/ issue_session(c) \/ refresh_token(c)
             \/ session_user(c) \/ ReadAccount(c) \/ RemoveExpired(c)
             \/ PurgeSessions(c) \/ CallEnds(c) \/ Request(c)
      PROVE  users' = users
  BY <1>5 DEF sign_up, issue_session, refresh_token, session_user, ReadAccount, RemoveExpired,
              PurgeSessions, CallEnds, Request, sign_in, BeginCreate, BeginAdmin, BeginRefresh,
              BeginCheck
<1>6. CASE Tick
  BY <1>6 DEF Tick
<1> QED BY <1>1, <1>2, <1>3, <1>4, <1>5, <1>6 DEF Next, Handler

\* With a data directory a row that is new belongs to an account that is
\* there, and is no older than it.
LEMMA SessionsGrow ==
  ASSUME IInv, Next, Durable, NEW t \in sessions' \ sessions
  PROVE  t.acc \in Accounts /\ users'[t.acc] # None /\ users'[t.acc].created <= t.at
<1> DEFINE Goal == t.acc \in Accounts /\ users'[t.acc] # None /\ users'[t.acc].created <= t.at
<1> USE DEF IInv
<1>n. None \notin User /\ users \in [Accounts -> User \cup {None}]
  BY AuthAssumption DEF TypeOK
<1>t. /\ clock \in 0..MaxTime
      /\ \A c \in Calls : /\ calls[c].at \in 0..MaxTime
                          /\ calls[c].step # "idle" => calls[c].acc \in Accounts
                          /\ calls[c].step # "issue"
  BY DEF TypeOK, Call, StepsOK
<1>p. \A a \in Accounts : users[a] # None => users[a].created <= clock
  BY DEF ReadsArePast
<1>1. ASSUME NEW c \in Calls, NEW e \in Emails \cup {None}, NEW d \in BOOLEAN,
             create_account(c, e, d)
      PROVE  Goal
  <2>1. calls[c].acc \in Accounts /\ Insert(calls[c].acc, calls[c].at)
    BY <1>1, <1>t DEF create_account
  <2>2. t.acc = calls[c].acc /\ t.at = calls[c].at
    BY <1>t, <2>1, InsertFacts
  <2>3. users'[t.acc] = NewUser(e, d, calls[c].at)
    BY <1>1, <1>n, <2>1, <2>2 DEF create_account
  <2>4. NewUser(e, d, calls[c].at) \in User
    BY <1>t, AuthAssumption DEF NewUser, User
  <2> QED BY <1>n, <1>t, <2>1, <2>2, <2>3, <2>4 DEF NewUser
<1>2. ASSUME NEW c \in Calls, NEW acc \in Accounts, sign_in(c, acc) PROVE Goal
  <2>1. Insert(acc, clock) /\ users' = users
    BY <1>2 DEF sign_in
  <2>2. t.acc = acc /\ t.at = clock
    BY <1>t, <2>1, InsertFacts
  <2> QED BY <1>2, <1>p, <2>1, <2>2 DEF sign_in
<1>3. ASSUME NEW c \in Calls, refresh_token(c) PROVE Goal
  <2> DEFINE r == calls[c].token
  <2>1. Insert(r.acc, clock) /\ Valid(r) /\ users' = users /\ r \in Token
    BY <1>3 DEF refresh_token, TypeOK
  <2>2. r.acc \in Accounts
    BY <2>1 DEF Token
  <2>3. t.acc = r.acc /\ t.at = clock
    BY <1>t, <2>1, <2>2, InsertFacts
  <2> QED BY <1>p, <2>1, <2>2, <2>3 DEF Valid
<1>4. ASSUME NEW c \in Calls, NEW change \in Changes, update_account(c, change) PROVE Goal
  <2> DEFINE acc == calls[c].acc
             new == Updated(users[acc], change)
  <2>1. acc \in Accounts /\ users[acc] \in User /\ Insert(acc, clock)
    BY <1>4, <1>t, <1>n DEF update_account
  <2>2. t.acc = acc /\ t.at = clock
    BY <1>t, <2>1, InsertFacts
  <2>3. new \in User /\ new.created = users[acc].created
    BY <1>t, <2>1 DEF Updated, Changes, User
  <2>4. users'[acc] = new
    BY <1>4, <1>n, <2>1 DEF update_account
  <2> QED BY <1>n, <1>p, <2>1, <2>2, <2>3, <2>4
<1>5. ASSUME NEW c \in Calls,
             \/ sign_up(c) \/ issue_session(c)
             \/ session_user(c) \/ ReadAccount(c) \/ RemoveExpired(c)
             \/ delete_account(c) \/ PurgeSessions(c) \/ CallEnds(c)
             \/ (Request(c) /\ ~\E a \in Accounts : sign_in(c, a))
      PROVE  Goal
  BY <1>5, <1>t DEF sign_up, issue_session, session_user, ReadAccount, RemoveExpired,
              delete_account, PurgeSessions, CallEnds, Request, BeginCreate, BeginAdmin,
              BeginRefresh, BeginCheck, OfOthers
<1>6. CASE Restart \/ Tick
  BY <1>6 DEF Restart, Tick
<1> QED BY <1>1, <1>2, <1>3, <1>4, <1>5, <1>6 DEF Next, Handler

\* With a data directory a row leaves when it has expired, or with its account.
LEMMA SessionsShrink ==
  ASSUME IInv, Next, Durable, NEW t \in sessions \ sessions'
  PROVE  Expires(t) <= clock \/ users'[t.acc] = None
<1> DEFINE Goal == Expires(t) <= clock \/ users'[t.acc] = None
<1> USE DEF IInv
<1>t. /\ clock \in 0..MaxTime
      /\ \A c \in Calls : /\ calls[c].at \in 0..MaxTime /\ calls[c].at <= clock
                          /\ calls[c].step # "idle" => calls[c].acc \in Accounts
                          /\ calls[c].step \notin {"issue", "purge"}
  BY DEF TypeOK, Call, StepsOK, ReadsArePast
<1>e. t \in Token /\ Expires(t) \in Nat /\ t.acc \in Accounts
  BY AuthAssumption DEF TypeOK, Token, Expires, TTL
<1>i. ASSUME NEW acc \in Accounts, NEW at \in 0..MaxTime, Insert(acc, at) PROVE Goal
  BY <1>i, InsertFacts
<1>1. ASSUME NEW c \in Calls, NEW e \in Emails \cup {None}, NEW d \in BOOLEAN,
             create_account(c, e, d)
      PROVE  Goal
  BY <1>1, <1>i, <1>t DEF create_account
<1>2. ASSUME NEW c \in Calls, NEW acc \in Accounts, sign_in(c, acc) PROVE Goal
  BY <1>2, <1>i, <1>t DEF sign_in
<1>3. ASSUME NEW c \in Calls, refresh_token(c) PROVE Goal
  <2>1. calls[c].token \in Token /\ calls[c].token.kind = "refresh"
    BY <1>3 DEF refresh_token, StepsOK, TypeOK
  <2>2. CASE Insert(calls[c].token.acc, clock)
    BY <1>i, <1>t, <2>1, <2>2 DEF Token
  <2>3. CASE sessions' = sessions \ {calls[c].token} /\ Expires(calls[c].token) <= calls[c].at
    BY <1>t, <1>e, <2>3, AuthAssumption
  <2> QED BY <1>3, <2>1, <2>2, <2>3 DEF refresh_token
<1>4. ASSUME NEW c \in Calls, RemoveExpired(c) PROVE Goal
  BY <1>4, <1>t, <1>e, AuthAssumption DEF RemoveExpired, StepsOK
<1>5. ASSUME NEW c \in Calls, NEW change \in Changes, update_account(c, change) PROVE Goal
  BY <1>5, <1>i, <1>t DEF update_account
<1>6. ASSUME NEW c \in Calls, delete_account(c) PROVE Goal
  BY <1>6, <1>t, <1>e DEF delete_account, OfOthers, TypeOK
<1>7. ASSUME NEW c \in Calls,
             \/ sign_up(c) \/ issue_session(c) \/ session_user(c) \/ ReadAccount(c)
             \/ PurgeSessions(c) \/ CallEnds(c)
             \/ (Request(c) /\ ~\E a \in Accounts : sign_in(c, a))
      PROVE  Goal
  BY <1>7, <1>t DEF sign_up, issue_session, session_user, ReadAccount, PurgeSessions, CallEnds,
              Request, BeginCreate, BeginAdmin, BeginRefresh, BeginCheck
<1>8. CASE Restart \/ Tick
  BY <1>8 DEF Restart, Tick
<1> QED BY <1>1, <1>2, <1>3, <1>4, <1>5, <1>6, <1>7, <1>8 DEF Next, Handler

-----------------------------------------------------------------------------
(* The invariant is inductive.                                             *)

\* The clock does not go back, and a new account has a clock that was read.
LEMMA PastStep ==
  ASSUME IInv, Next
  PROVE  ReadsArePast'
<1>1. clock \in Nat /\ clock' \in Nat /\ clock <= clock'
  <2>1. clock \in Nat
    BY AuthAssumption DEF IInv, TypeOK
  <2>2. UNCHANGED clock \/ clock' = clock + 1
    <3>1. \A c \in Calls : Handler(c) => UNCHANGED clock
      BY DEF Handler, create_account, sign_up, issue_session, refresh_token, session_user,
             ReadAccount, RemoveExpired, update_account, delete_account, PurgeSessions, CallEnds
    <3>2. \A c \in Calls : Request(c) => UNCHANGED clock
      BY DEF Request, sign_in, BeginCreate, BeginAdmin, BeginRefresh, BeginCheck
    <3> QED BY <3>1, <3>2 DEF Next, Restart, Tick
  <2> QED BY <2>1, <2>2
<1>2. ASSUME NEW c \in Calls PROVE calls'[c].at <= clock'
  <2>1. calls[c].at \in Nat /\ calls[c].at <= clock
    BY DEF IInv, TypeOK, Call, ReadsArePast
  <2>2. calls'[c].at \in {calls[c].at, 0, clock}
    <3>1. calls[c] \in Call
      BY DEF IInv, TypeOK
    <3>2. \A step \in Steps : [calls[c] EXCEPT !.step = step].at = calls[c].at
      BY <3>1 DEF Call
    <3>3. Idle.at = 0
      BY DEF Idle
    <3> QED BY <3>2, <3>3, CallChange
  <2> QED BY <1>1, <2>1, <2>2
<1>3. ASSUME NEW a \in Accounts, users'[a] # None PROVE users'[a].created <= clock'
  <2>1. users \in [Accounts -> User \cup {None}]
    BY DEF IInv, TypeOK
  <2>2. users'[a].created <= clock /\ users'[a] \in User
    BY <1>3, <2>1, UsersChange DEF IInv, ReadsArePast
  <2>3. users'[a].created \in Nat
    BY <2>2, AuthAssumption DEF User
  <2> QED BY <1>1, <2>2, <2>3
<1> QED BY <1>2, <1>3 DEF ReadsArePast

\* A handler that goes on keeps its account and its token.
LEMMA StepsStep ==
  ASSUME IInv, Next
  PROVE  StepsOK'
<1> SUFFICES ASSUME NEW c \in Calls
             PROVE  /\ calls'[c].step # "idle" => calls'[c].acc \in Accounts
                    /\ Durable' => calls'[c].step \notin {"reread", "account", "purge", "issue"}
                    /\ calls'[c].step \in {"refresh", "check", "account", "expire"}
                         => calls'[c].token \in issued'
                    /\ calls'[c].step = "refresh" => calls'[c].token.kind = "refresh"
                    /\ calls'[c].step = "expire" => Expires(calls'[c].token) <= calls'[c].at
  BY DEF StepsOK, Expires, TTL
<1>1. Durable' = Durable
  BY DEF Next, Durable
<1>2. issued \subseteq issued'
  <2>1. ASSUME NEW d \in Calls, Handler(d) PROVE issued \subseteq issued'
    <3>1. CASE (\E e \in Emails \cup {None}, x \in BOOLEAN : create_account(d, e, x)) \/ sign_up(d)
      BY <3>1 DEF create_account, sign_up, Insert
    <3>2. CASE (\E a \in Accounts : sign_in(d, a)) \/ issue_session(d) \/ refresh_token(d)
      BY <3>2 DEF sign_in, issue_session, refresh_token, Insert
    <3>3. CASE session_user(d) \/ ReadAccount(d) \/ RemoveExpired(d) \/ PurgeSessions(d) \/ CallEnds(d)
      BY <3>3 DEF session_user, ReadAccount, RemoveExpired, PurgeSessions, CallEnds
    <3>4. CASE (\E change \in Changes : update_account(d, change)) \/ delete_account(d)
      BY <3>4 DEF update_account, delete_account, Insert
    <3> QED BY <2>1, <3>1, <3>2, <3>3, <3>4 DEF Handler
  <2>2. ASSUME NEW d \in Calls, Request(d) PROVE issued \subseteq issued'
    BY <2>2 DEF Request, BeginCreate, BeginAdmin, BeginRefresh, BeginCheck, sign_in, Insert
  <2>3. Restart \/ Tick => issued \subseteq issued'
    BY DEF Restart, Tick
  <2> QED BY <2>1, <2>2, <2>3 DEF Next
<1>3. /\ calls[c].step # "idle" => calls[c].acc \in Accounts
      /\ Durable => calls[c].step \notin {"reread", "account", "purge", "issue"}
      /\ calls[c].step \in {"refresh", "check", "account", "expire"} => calls[c].token \in issued
      /\ calls[c].step = "refresh" => calls[c].token.kind = "refresh"
      /\ calls[c].step = "expire" => Expires(calls[c].token) <= calls[c].at
      /\ calls[c] \in Call
  BY DEF IInv, StepsOK, TypeOK
<1>4. CASE calls'[c] = calls[c] \/ calls'[c] = Idle
  BY <1>1, <1>2, <1>3, <1>4 DEF Idle
<1>5. ASSUME NEW step \in Steps,
             calls'[c] = [calls[c] EXCEPT !.step = step] /\ calls[c].step # "idle",
             \/ step = "account" /\ calls[c].step \in {"refresh", "check"} /\ ~Durable
             \/ /\ step = "expire" /\ calls[c].step \in {"check", "account"}
                /\ Expires(calls[c].token) <= calls[c].at
             \/ step = "write"
             \/ step \in {"issue", "purge", "reread"} /\ ~Durable
      PROVE  /\ calls'[c].step # "idle" => calls'[c].acc \in Accounts
             /\ Durable' => calls'[c].step \notin {"reread", "account", "purge", "issue"}
             /\ calls'[c].step \in {"refresh", "check", "account", "expire"}
                  => calls'[c].token \in issued'
             /\ calls'[c].step = "refresh" => calls'[c].token.kind = "refresh"
             /\ calls'[c].step = "expire" => Expires(calls'[c].token) <= calls'[c].at
  <2>1. /\ calls'[c].step = step /\ calls'[c].acc = calls[c].acc
        /\ calls'[c].token = calls[c].token /\ calls'[c].at = calls[c].at
    BY <1>3, <1>5 DEF Call
  <2> QED BY <1>1, <1>2, <1>3, <1>5, <2>1
<1>6. CASE /\ calls'[c].at \in {0, clock} /\ calls'[c].acc \in Accounts
           /\ \/ calls'[c].step \in {"create", "write"}
              \/ calls'[c].step = "issue" /\ ~Durable
              \/ calls'[c].step \in {"refresh", "check"} /\ calls'[c].token \in issued
           /\ calls'[c].step = "refresh" => calls'[c].token.kind = "refresh"
  BY <1>1, <1>2, <1>6
<1> QED BY <1>4, <1>5, <1>6, CallChange

\* An address is free in the project when it is given to an account.
LEMMA EmailStep ==
  ASSUME IInv, Next
  PROVE  EmailUnique'
<1>1. users \in [Accounts -> User \cup {None}] /\ EmailUnique
  BY DEF IInv, TypeOK
<1>2. CASE users' = users \/ users' = [a \in Accounts |-> None]
  BY <1>1, <1>2 DEF EmailUnique
<1>3. ASSUME NEW acc \in Accounts, NEW new \in User \cup {None},
             users' = [users EXCEPT ![acc] = new],
             new # None => \/ EmailFree(acc, new.email)
                           \/ users[acc] # None /\ new.email = users[acc].email
      PROVE  EmailUnique'
  BY <1>1, <1>3 DEF EmailUnique, EmailFree
<1> QED BY <1>2, <1>3, UsersChange

\* The rows of an account go with it, and new rows are of accounts that are there.
LEMMA SessionsStep ==
  ASSUME IInv, Next
  PROVE  SessionsHaveAccount'
<1>1. Durable' = Durable
  BY DEF Next, Durable
<1> SUFFICES ASSUME Durable, NEW t \in sessions'
             PROVE  users'[t.acc] # None /\ users'[t.acc].created <= t.at
  BY <1>1 DEF SessionsHaveAccount
<1>2. CASE t \notin sessions
  BY <1>2, SessionsGrow
<1>3. CASE t \in sessions
  <2>1. /\ users[t.acc] # None /\ users[t.acc].created <= t.at /\ t.acc \in Accounts
        /\ users \in [Accounts -> User \cup {None}]
    BY <1>3 DEF IInv, SessionsHaveAccount, TypeOK, Token
  <2> QED BY <1>3, <2>1, UsersChange DEF OfOthers
<1> QED BY <1>2, <1>3

\* A step that changes nothing keeps the invariant.
LEMMA StutterIInv == IInv /\ UNCHANGED vars => IInv'
BY DEF IInv, vars, TypeOK, Token, Call, ReadsArePast, StepsOK, Expires, TTL, EmailUnique,
       SessionsHaveAccount, Durable

-----------------------------------------------------------------------------
(* Every behaviour satisfies the invariant, and what follows from it: what *)
(* a handler remembers between two transactions never lets a session       *)
(* outlive its account, nor two accounts share an address.                 *)
THEOREM Invariance == Spec => []IInv
<1>1. IInv /\ [Next]_vars => IInv'
  BY TypeStep, PastStep, StepsStep, EmailStep, SessionsStep, StutterIInv DEF IInv
<1> QED BY InitIInv, <1>1, PTL DEF Spec

\* Every variable has its type: no request stores a record of another shape.
THEOREM TypeCorrectness == Spec => []TypeOK
<1>1. IInv => TypeOK
  BY DEF IInv
<1> QED BY Invariance, <1>1, PTL

\* ensure_unique_persistent and ensure_unique keep the e-mail addresses of a
\* project apart, however creates and updates interleave.
THEOREM EmailSafety == Spec => []EmailUnique
<1>1. IInv => EmailUnique
  BY DEF IInv
<1> QED BY Invariance, <1>1, PTL

\* With a data directory every row of auth_sessions belongs to an account that
\* exists and that is no younger than the session.
THEOREM SessionSafety == Spec => []SessionsHaveAccount
<1>1. IInv => SessionsHaveAccount
  BY DEF IInv
<1> QED BY Invariance, <1>1, PTL

\* A row leaves auth_sessions only expired or with its account.
THEOREM SessionRemoval == Spec => SessionLeavesForCause
<1>1. IInv /\ [Next]_vars
        => [Durable => \A t \in sessions \ sessions' :
                         Expires(t) <= clock \/ users'[t.acc] = None]_vars
  <2> SUFFICES ASSUME IInv, Next
               PROVE  Durable => \A t \in sessions \ sessions' :
                                   Expires(t) <= clock \/ users'[t.acc] = None
    BY DEF vars
  <2> QED BY SessionsShrink
<1> QED BY Invariance, <1>1, PTL DEF Spec, SessionLeavesForCause
=============================================================================
