------------------------------ MODULE HubLogin ------------------------------
(***************************************************************************)
(* Logins and sessions of the Governance Hub control plane                 *)
(* (palo-governance-control-plane: oidc.js, app.js, store.js) on           *)
(* PostgreSQL: a login transaction is stored, the provider sends the       *)
(* browser back with its state, the callback takes the transaction, has    *)
(* the code exchanged and makes a session, which requests then show and a  *)
(* logout deletes.  A callback may arrive more than once and at different  *)
(* server processes; a process may stop between any two statements.  The   *)
(* servers and the database share one clock.                               *)
(***************************************************************************)
EXTENDS Integers

CONSTANTS
  LoginState,      \* the states of the logins that are started
  LoginCall,       \* requests in flight at a time
  TransactionTtl, SessionTtl,
  ClockTolerance,  \* of jwtVerify
  LoginTime        \* the clock stops at this time

ASSUME LoginAssumption ==
  /\ TransactionTtl \in Nat \ {0} /\ SessionTtl \in Nat \ {0}
  /\ ClockTolerance \in Nat /\ LoginTime \in Nat

VARIABLES
  hlNow,
  hlTransaction,  \* table palo_hub_login_transactions
  hlSession,      \* table palo_hub_sessions
  hlCall,
  hlMade          \* history: how many sessions a login has led to

hlVars == <<hlNow, hlTransaction, hlSession, hlCall, hlMade>>

Instant == 0..(LoginTime + TransactionTtl + SessionTtl)
Session == [login : LoginState, expiresAt : Instant, identityExpiresAt : Instant,
            createdAt : Instant]
Free == [at |-> "free"]
NotStarted == -2
Gone == -1
LoginTypeOK ==
  /\ hlNow \in 0..LoginTime
  /\ hlTransaction \in [LoginState -> Instant \cup {NotStarted, Gone}]
  /\ hlSession \subseteq Session
  /\ hlCall \in [LoginCall ->
       {Free} \cup [at : {"taken"}, login : LoginState]
              \cup [at : {"verified"}, login : LoginState, exp : Instant]
              \cup [at : {"served", "audited"}, session : Session, since : Instant]]
  /\ hlMade \in [LoginState -> Nat]

LoginInit ==
  /\ hlNow = 0
  /\ hlTransaction = [x \in LoginState |-> NotStarted]
  /\ hlSession = {}
  /\ hlCall = [k \in LoginCall |-> Free]
  /\ hlMade = [x \in LoginState |-> 0]
-----------------------------------------------------------------------------
(* Logging in *)

Goes(k, c) == hlCall' = [hlCall EXCEPT ![k] = c]

\* A state is a fresh random token: a login is started once.
StartLogin(x) ==
  /\ hlTransaction[x] = NotStarted
  /\ hlTransaction' = [hlTransaction EXCEPT ![x] = hlNow + TransactionTtl]
  /\ UNCHANGED <<hlNow, hlSession, hlCall, hlMade>>

\* A mutation: the transaction is read and not deleted.
ReadTransaction(x) == hlTransaction

DeletedTransaction(x) == [hlTransaction EXCEPT ![x] = Gone]

\* takeLoginTransaction: one statement deletes and returns the row.  Any other
\* callback gets a 400.
TakeTransaction(k, x) ==
  /\ hlCall[k] = Free
  /\ hlTransaction[x] > hlNow
  /\ hlTransaction' = DeletedTransaction(x)
  /\ Goes(k, [at |-> "taken", login |-> x])
  /\ UNCHANGED <<hlNow, hlSession, hlMade>>

\* The code is exchanged and the ID token verified.
Exchange(k, exp) ==
  /\ hlCall[k].at = "taken"
  /\ exp > hlNow - ClockTolerance
  /\ Goes(k, [at |-> "verified", login |-> hlCall[k].login, exp |-> exp])
  /\ UNCHANGED <<hlNow, hlTransaction, hlSession, hlMade>>

CreateSession(k) ==
  LET configured == hlNow + SessionTtl
      identity == hlCall[k].exp IN
  /\ hlCall[k].at = "verified"
  /\ hlSession' = hlSession \cup
       {[login |-> hlCall[k].login, createdAt |-> hlNow, identityExpiresAt |-> identity,
         expiresAt |-> IF configured < identity THEN configured ELSE identity]}
  /\ hlMade' = [hlMade EXCEPT ![hlCall[k].login] = @ + 1]
  /\ Goes(k, Free)
  /\ UNCHANGED <<hlNow, hlTransaction>>
-----------------------------------------------------------------------------
(* Requests with the cookie of a session *)

\* optionalSession and requireSession.
ServeRequest(k, s) ==
  /\ hlCall[k] = Free
  /\ s.expiresAt > hlNow
  /\ Goes(k, [at |-> "served", session |-> s, since |-> hlNow])
  /\ UNCHANGED <<hlNow, hlTransaction, hlSession, hlMade>>

\* The logout is audited before the session is deleted.
AuditLogout(k) ==
  /\ hlCall[k].at = "served"
  /\ Goes(k, [hlCall[k] EXCEPT !.at = "audited"])
  /\ UNCHANGED <<hlNow, hlTransaction, hlSession, hlMade>>

DeleteSession(k) ==
  /\ hlCall[k].at = "audited"
  /\ hlSession' = hlSession \ {hlCall[k].session}
  /\ Goes(k, Free)
  /\ UNCHANGED <<hlNow, hlTransaction, hlMade>>

\* Answered, refused by the provider, failed, or the process stops.
EndCall(k) ==
  /\ hlCall[k] # Free
  /\ Goes(k, Free)
  /\ UNCHANGED <<hlNow, hlTransaction, hlSession, hlMade>>

Purge ==
  /\ hlTransaction' = [x \in LoginState |->
       IF hlTransaction[x] \in 0..hlNow THEN Gone ELSE hlTransaction[x]]
  /\ hlSession' = {s \in hlSession : s.expiresAt > hlNow}
  /\ UNCHANGED <<hlNow, hlCall, hlMade>>

LoginTick == hlNow < LoginTime /\ hlNow' = hlNow + 1
             /\ UNCHANGED <<hlTransaction, hlSession, hlCall, hlMade>>

LoginNext ==
  \/ \E x \in LoginState : StartLogin(x)
  \/ \E k \in LoginCall :
       \/ \E x \in LoginState : TakeTransaction(k, x)
       \/ \E exp \in Instant : Exchange(k, exp)
       \/ CreateSession(k)
       \/ \E s \in hlSession : ServeRequest(k, s)
       \/ AuditLogout(k)
       \/ DeleteSession(k)
       \/ EndCall(k)
  \/ Purge
  \/ LoginTick

LoginSpec == LoginInit /\ [][LoginNext]_hlVars
-----------------------------------------------------------------------------
(* Properties *)

\* However often and wherever its callback arrives, a login leads to one
\* session at most (takeLoginTransaction, store.js:155), and no request is
\* served on a session that is older than configured or whose identity has
\* expired, although an identity is accepted a little after its expiry
\* (createSession, app.js:44; clockTolerance, oidc.js:105).
SessionsFromLogins ==
  /\ \A x \in LoginState : hlMade[x] <= 1
  /\ \A k \in LoginCall : hlCall[k].at \in {"served", "audited"} =>
       LET s == hlCall[k].session IN
       /\ hlCall[k].since < s.identityExpiresAt
       /\ hlCall[k].since < s.createdAt + SessionTtl
=============================================================================
