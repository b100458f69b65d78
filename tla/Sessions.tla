------------------------------ MODULE Sessions ------------------------------
(***************************************************************************)
(* Accounts, refresh tokens and access tokens: services/auth.service.ts    *)
(* over the users table and lib/tokens.ts over Redis.  Every awaited       *)
(* statement is an action, so calls interleave between them.               *)
(*                                                                         *)
(* A call creates at most one refresh token and one access token, which    *)
(* are therefore named after the call.  A session is the login that        *)
(* started it and, with the data rotateRefreshToken copies, every token    *)
(* descended from it.                                                      *)
(***************************************************************************)
EXTENDS Naturals, FiniteSets

CONSTANTS
  Calls,   \* requests to /auth
  Emails,  \* addresses somebody may register
  NoCall,  \* no token
  Faults   \* the kinds of failure that may happen

ASSUME SessionsAssumption ==
  NoCall \notin Calls /\ Faults \subseteq {"database", "redis", "pipeline", "memory"}

VARIABLES
  accounts,  \* emails that have a users row
  live,      \* refresh tokens in Redis
  access,    \* access tokens that have not expired
  session,   \* the login a token descends from
  pc,        \* the statement each call awaits
  kind,      \* what each call asks for
  arg,       \* the refresh token a call presents
  email,     \* the email a call names
  answer,    \* the status a call is answered with
  raced,     \* history: sessions a call touched between two statements of another
  closed,    \* history: sessions that were logged out or timed out
  lost       \* history: sessions whose old token was deleted and the new one not stored

tokenVars == <<live, access, session>>
callVars == <<pc, kind, arg, email, answer>>
historyVars == <<raced, closed, lost>>
vars == <<accounts, tokenVars, callVars, historyVars>>

Kinds == {"none", "register", "login", "refresh", "logout", "me", "invalid"}
Statuses == {0, 200, 201, 204, 400, 401, 409, 500}

TypeOK ==
  /\ accounts \subseteq Emails
  /\ live \subseteq Calls /\ access \subseteq Calls
  /\ session \in [Calls -> Calls \cup {NoCall}]
  /\ pc \in [Calls -> {"idle", "insert", "store", "delete", "set", "done"}]
  /\ kind \in [Calls -> Kinds]
  /\ arg \in [Calls -> Calls \cup {NoCall}]
  /\ email \in [Calls -> Emails \cup {NoCall}]
  /\ answer \in [Calls -> Statuses]
  /\ raced \subseteq Calls /\ closed \subseteq Calls /\ lost \subseteq Calls

Init ==
  /\ accounts = {} /\ live = {} /\ access = {}
  /\ session = [c \in Calls |-> NoCall]
  /\ pc = [c \in Calls |-> "idle"]
  /\ kind = [c \in Calls |-> "none"]
  /\ arg = [c \in Calls |-> NoCall]
  /\ email = [c \in Calls |-> NoCall]
  /\ answer = [c \in Calls |-> 0]
  /\ raced = {} /\ closed = {} /\ lost = {}

\* The tokens a client can present: those it was answered with.
Issued == {t \in Calls : kind[t] \in {"login", "refresh"} /\ answer[t] = 200}

\* The refreshes of a session that have read their token and not yet replaced it.
Rotating(s) == {c \in Calls : pc[c] \in {"delete", "set"} /\ session[c] = s}

\* A refresh, a logout or an expiry that comes between the statements of another
\* refresh.
Touch(s) == raced' = IF Rotating(s) # {} THEN raced \cup {s} ELSE raced

Goto(c, place) == pc' = [pc EXCEPT ![c] = place]
Answer(c, status) == Goto(c, "done") /\ answer' = [answer EXCEPT ![c] = status]
Ask(c, what) == pc[c] = "idle" /\ kind' = [kind EXCEPT ![c] = what]

-----------------------------------------------------------------------------
(* register and login.                                                      *)

\* register: the SELECT finds the email taken, or the INSERT comes next.
FindEmail(c, e) ==
  /\ Ask(c, "register")
  /\ email' = [email EXCEPT ![c] = e]
  /\ IF e \in accounts THEN Answer(c, 409) ELSE Goto(c, "insert") /\ UNCHANGED answer
  /\ UNCHANGED <<accounts, tokenVars, arg, historyVars>>

\* The INSERT after the check: the unique index refuses an email that another
\* call registered meanwhile, which no handler expects (500).
InsertUser(c) ==
  /\ pc[c] = "insert"
  /\ IF email[c] \in accounts
     THEN Answer(c, 500) /\ UNCHANGED accounts
     ELSE Answer(c, 201) /\ accounts' = accounts \cup {email[c]}
  /\ UNCHANGED <<tokenVars, kind, arg, email, historyVars>>

\* login: an unknown email and a wrong password get the same answer.
FindUser(c, e) ==
  /\ Ask(c, "login")
  /\ email' = [email EXCEPT ![c] = e]
  /\ \/ Answer(c, 401)
     \/ e \in accounts /\ Goto(c, "store") /\ UNCHANGED answer
  /\ UNCHANGED <<accounts, tokenVars, arg, historyVars>>

\* storeRefreshToken; the access token is signed before, and reaches the client
\* with the answer.
StoreToken(c) ==
  /\ pc[c] = "store"
  /\ live' = live \cup {c}
  /\ access' = access \cup {c}
  /\ session' = [session EXCEPT ![c] = c]
  /\ Answer(c, 200)
  /\ UNCHANGED <<accounts, kind, arg, email, historyVars>>

-----------------------------------------------------------------------------
(* refresh and logout.                                                      *)

\* Mutant: the token is taken when it is read (GETDEL), before the pipeline is sent.
TakeToken(c, t) ==
  /\ Ask(c, "refresh")
  /\ arg' = [arg EXCEPT ![c] = t]
  /\ live' = live \ {t}
  /\ IF t \in live
     THEN /\ Goto(c, "delete")
          /\ session' = [session EXCEPT ![c] = session[t]]
          /\ Touch(session[t])
          /\ UNCHANGED answer
     ELSE Answer(c, 401) /\ UNCHANGED <<session, raced>>
  /\ UNCHANGED <<accounts, access, email, closed, lost>>

\* rotateRefreshToken: GET.
ReadToken(c, t) ==
  /\ Ask(c, "refresh")
  /\ arg' = [arg EXCEPT ![c] = t]
  /\ IF t \in live
     THEN /\ Goto(c, "delete")
          /\ session' = [session EXCEPT ![c] = session[t]]
          /\ Touch(session[t])
          /\ UNCHANGED answer
     ELSE Answer(c, 401) /\ UNCHANGED <<session, raced>>
  /\ UNCHANGED <<accounts, live, access, email, closed, lost>>

\* Mutant: the DEL is forgotten.
DeleteNothing(c) ==
  /\ pc[c] = "delete" /\ Goto(c, "set")
  /\ UNCHANGED <<accounts, tokenVars, kind, arg, email, answer, historyVars>>

\* The pipeline is not a transaction: commands of other clients may run between
\* its DEL ...
DeleteOld(c) ==
  /\ pc[c] = "delete"
  /\ live' = live \ {arg[c]}
  /\ Goto(c, "set")
  /\ UNCHANGED <<accounts, access, session, kind, arg, email, answer, historyVars>>

\* ... and its SETEX.
SetNew(c) ==
  /\ pc[c] = "set"
  /\ live' = live \cup {c}
  /\ access' = access \cup {c}
  /\ Answer(c, 200)
  /\ UNCHANGED <<accounts, session, kind, arg, email, historyVars>>

\* The DEL was executed and the SETEX is not: Redis refuses it for want of memory, or
\* the connection breaks between the two.  exec() collects the errors of the commands
\* and does not reject, so the call is answered 200 with a token that is not there.
SetLost(c) ==
  /\ pc[c] = "set" /\ Faults \cap {"memory", "pipeline"} # {}
  /\ access' = access \cup {c}
  /\ Answer(c, 200)
  /\ lost' = lost \cup {session[c]}
  /\ UNCHANGED <<accounts, live, session, kind, arg, email, raced, closed>>

\* Neither command of the pipeline is executed, and the answer is 200 all the same.
PipelineFails(c) ==
  /\ "pipeline" \in Faults /\ pc[c] = "delete"
  /\ access' = access \cup {c}
  /\ Answer(c, 200)
  /\ UNCHANGED <<accounts, live, session, kind, arg, email, historyVars>>

\* Mutant: the logout answers and its DEL is never sent.
LogoutKeeps(c, t) ==
  /\ Ask(c, "logout")
  /\ arg' = [arg EXCEPT ![c] = t]
  /\ closed' = IF t \in live THEN closed \cup {session[t]} ELSE closed
  /\ Touch(session[t])
  /\ Answer(c, 204)
  /\ UNCHANGED <<accounts, tokenVars, email, lost>>

\* logout: a DEL, answered 204 whether or not the token was there.
Logout(c, t) ==
  /\ Ask(c, "logout")
  /\ arg' = [arg EXCEPT ![c] = t]
  /\ live' = live \ {t}
  /\ closed' = IF t \in live THEN closed \cup {session[t]} ELSE closed
  /\ Touch(session[t])
  /\ Answer(c, 204)
  /\ UNCHANGED <<accounts, access, session, email, lost>>

-----------------------------------------------------------------------------
(* The rest of /auth, time and failures.                                    *)

\* GET /me: requireAuth asks for an access token that has not expired, and for
\* nothing in Redis.
Me(c, t) ==
  /\ Ask(c, "me")
  /\ Answer(c, IF t \in access THEN 200 ELSE 401)
  /\ UNCHANGED <<accounts, tokenVars, arg, email, historyVars>>

\* Mutant: another status for a body that validate refuses.
InvalidUnprocessable(c) ==
  /\ Ask(c, "invalid") /\ Answer(c, 422)
  /\ UNCHANGED <<accounts, tokenVars, arg, email, historyVars>>

\* A body that validate refuses, or no bearer token for /me.
Invalid(c) ==
  /\ Ask(c, "invalid")
  /\ \E status \in {400, 401} : Answer(c, status)
  /\ UNCHANGED <<accounts, tokenVars, arg, email, historyVars>>

\* A refresh token reaches its seven days.
RefreshExpires(t) ==
  /\ t \in live
  /\ live' = live \ {t}
  /\ closed' = closed \cup {session[t]}
  /\ Touch(session[t])
  /\ UNCHANGED <<accounts, access, session, callVars, lost>>

AccessExpires(t) ==
  /\ t \in access
  /\ access' = access \ {t}
  /\ UNCHANGED <<accounts, live, session, callVars, historyVars>>

\* The first statement of a call fails: errorHandler answers 500.
FirstFails(c) ==
  /\ Faults \cap {"database", "redis"} # {}
  /\ \E k \in Kinds \ {"none", "me", "invalid"} : Ask(c, k)
  /\ Answer(c, 500)
  /\ UNCHANGED <<accounts, tokenVars, arg, email, historyVars>>

\* The second one fails, done or not: the client is told 500 and gets no token.
SecondFails(c) ==
  /\ \/ /\ "database" \in Faults /\ pc[c] = "insert"
        /\ accounts' \in {accounts, accounts \cup {email[c]}}
        /\ UNCHANGED <<live, session>>
     \/ /\ "redis" \in Faults /\ pc[c] = "store"
        /\ live' \in {live, live \cup {c}}
        /\ session' = [session EXCEPT ![c] = c]
        /\ UNCHANGED accounts
  /\ Answer(c, 500)
  /\ UNCHANGED <<access, kind, arg, email, historyVars>>

Next ==
  \/ \E c \in Calls :
       \/ \E e \in Emails : FindEmail(c, e) \/ FindUser(c, e)
       \/ \E t \in Issued : ReadToken(c, t) \/ Logout(c, t) \/ Me(c, t)
       \/ InsertUser(c) \/ StoreToken(c)
       \/ DeleteOld(c) \/ SetNew(c) \/ SetLost(c) \/ PipelineFails(c)
       \/ Invalid(c) \/ FirstFails(c) \/ SecondFails(c)
  \/ \E t \in Calls : RefreshExpires(t) \/ AccessExpires(t)

Spec == Init /\ [][Next]_vars

-----------------------------------------------------------------------------
(* What the sessions promise.                                               *)

TokensOf(s) == {t \in live : session[t] = s}

\* Rotation replaces: a refresh token and the one it was exchanged for are never both
\* good, also when several refreshes exchange one token at once, and a session whose
\* refreshes do not overlap has one token at a time, whatever fails on the way.
OneToken ==
  /\ \A c \in live : kind[c] = "refresh" => arg[c] \notin live
  /\ \A s \in Calls \ raced : \A t, u \in TokensOf(s) : t = u

\* Once a session was logged out with its current token, timed out or was lost, nothing
\* brings it back, unless a refresh had read the token before.
LogoutIsFinal ==
  \A s \in (closed \cup lost) \ raced : TokensOf(s) = {} /\ Rotating(s) = {}

\* A client that refreshes one call after the other, with the token it was given
\* last or with an older one, keeps its session through whatever fails, with one
\* exception: a rotation whose DEL was executed and whose SETEX was not ("lost"),
\* which the code answers with 200.
SessionSurvives ==
  \A s \in Issued \ (raced \cup closed) :
    session[s] = s /\ Rotating(s) = {} => TokensOf(s) # {} \/ s \in lost
=============================================================================
