--------------------------- MODULE FrontDoorProofs ---------------------------
(***************************************************************************)
(* Refresh tokens for any number of calls and emails and under every kind  *)
(* of failure: OneToken, LogoutIsFinal and SessionSurvives; the gate for   *)
(* any requests, limits, windows and clocks: LimitsHold; and their types.  *)
(***************************************************************************)
EXTENDS FrontDoor, FiniteSetTheorems, SequenceTheorems, TLAPS

-----------------------------------------------------------------------------
(* Sessions.                                                                *)

\* How far a call is: it is answered at its end, and only a login awaits 'store',
\* only a refresh 'delete' and 'set'.
Underway ==
  \A c \in Calls :
    /\ answer[c] # 0 => pc[c] = "done"
    /\ pc[c] = "insert" => email[c] \in Emails
    /\ pc[c] = "store" => kind[c] = "login"
    /\ pc[c] \in {"delete", "set"} => kind[c] = "refresh"

\* Tokens, and the logins they descend from, belong to calls that have ended, so
\* no step of a call under way can take them for its own.
Ancestry ==
  /\ \A t \in Calls : session[t] \in Calls => pc[session[t]] = "done"
  /\ \A t \in live : pc[t] = "done" /\ session[t] \in Calls
  /\ \A t \in Issued : session[t] \in Calls
  /\ \A s \in closed \cup lost : pc[s] = "done"

\* A refresh under way is of the session of the token it read; once the token is
\* deleted it stays so, under way and afterwards.
Replaces ==
  \A c \in Calls :
    /\ pc[c] \in {"delete", "set"} =>
         /\ arg[c] \in Calls /\ pc[arg[c]] = "done"
         /\ session[c] = session[arg[c]] /\ session[c] \in Calls
    /\ pc[c] = "set" => arg[c] \notin live
    /\ c \in live /\ kind[c] = "refresh" =>
         arg[c] \in Calls /\ pc[arg[c]] = "done" /\ arg[c] \notin live

\* While refreshes do not overlap, the session has one token, or the one refresh
\* that will store the next.
OneAtATime ==
  \A s \in Calls \ raced :
    /\ \A c, d \in Rotating(s) : c = d
    /\ \A t, u \in TokensOf(s) : t = u
    /\ \A c \in Rotating(s) :
         IF pc[c] = "delete" THEN arg[c] \in live ELSE TokensOf(s) = {}

\* A session that was neither closed nor lost has a token or is about to get one.
Alive ==
  \A s \in Issued \ (raced \cup closed \cup lost) :
    session[s] = s => \/ TokensOf(s) # {}
                      \/ \E c \in Rotating(s) : pc[c] = "set"

SInv ==
  /\ TypeOK /\ Underway /\ Ancestry /\ Replaces
  /\ OneAtATime /\ LogoutIsFinal /\ Alive

-----------------------------------------------------------------------------
(* Initially, and in steps that leave tokens alone.                         *)

LEMMA InitSInv == Init => SInv
BY SessionsAssumption DEF Init, SInv, TypeOK, Underway, Ancestry, Replaces, OneAtATime,
       LogoutIsFinal, Alive, Issued, Rotating, TokensOf, Kinds, Statuses

LEMMA TouchType == ASSUME TypeOK, NEW s \in Calls, Touch(s) PROVE raced' \subseteq Calls
BY DEF TypeOK, Touch

LEMMA MoveType ==
  ASSUME TypeOK, NEW c \in Calls
  PROVE  /\ \A p \in {"idle", "insert", "store", "delete", "set", "done"} :
              Goto(c, p) => pc' \in [Calls -> {"idle", "insert", "store", "delete", "set", "done"}]
         /\ \A k \in Kinds : Ask(c, k) => kind' \in [Calls -> Kinds]
         /\ \A a \in Statuses :
              Answer(c, a) =>
                /\ pc' \in [Calls -> {"idle", "insert", "store", "delete", "set", "done"}]
                /\ answer' \in [Calls -> Statuses]
BY DEF TypeOK, Goto, Ask, Answer

LEMMA TypeStep == SInv /\ [Next]_vars => TypeOK'
<1> USE DEF tokenVars, callVars, historyVars, Kinds, Statuses
<1> SUFFICES ASSUME TypeOK, Underway, Ancestry, Replaces, [Next]_vars PROVE TypeOK'
  BY DEF SInv
<1>1. ASSUME NEW c \in Calls, NEW e \in Emails, FindEmail(c, e) PROVE TypeOK'
  BY <1>1, MoveType DEF FindEmail, TypeOK
<1>2. ASSUME NEW c \in Calls, NEW e \in Emails, FindUser(c, e) PROVE TypeOK'
  BY <1>2, MoveType DEF FindUser, TypeOK
<1>3. ASSUME NEW c \in Calls, NEW t \in Issued, ReadToken(c, t) PROVE TypeOK'
  <2>1. pc' \in [Calls -> {"idle", "insert", "store", "delete", "set", "done"}]
        /\ kind' \in [Calls -> Kinds] /\ answer' \in [Calls -> Statuses]
    BY <1>3, MoveType DEF ReadToken, TypeOK
  <2>2. arg' \in [Calls -> Calls \cup {NoCall}] /\ session' \in [Calls -> Calls \cup {NoCall}]
    BY <1>3 DEF ReadToken, TypeOK, Issued
  <2>3. raced' \subseteq Calls
    BY <1>3, TouchType DEF ReadToken, TypeOK, Issued, Ancestry
  <2> QED BY <1>3, <2>1, <2>2, <2>3 DEF ReadToken, TypeOK
<1>4. ASSUME NEW c \in Calls, NEW t \in Issued, Logout(c, t) PROVE TypeOK'
  <2>1. session[t] \in Calls
    BY DEF Ancestry
  <2>2. pc' \in [Calls -> {"idle", "insert", "store", "delete", "set", "done"}]
        /\ kind' \in [Calls -> Kinds] /\ answer' \in [Calls -> Statuses]
    BY <1>4, MoveType DEF Logout
  <2>3. raced' \subseteq Calls /\ closed' \subseteq Calls
    BY <1>4, <2>1, TouchType DEF Logout, TypeOK
  <2>4. arg' \in [Calls -> Calls \cup {NoCall}]
    BY <1>4 DEF Logout, TypeOK, Issued
  <2> QED BY <1>4, <2>2, <2>3, <2>4 DEF Logout, TypeOK
<1>5. ASSUME NEW c \in Calls, NEW t \in Issued, Me(c, t) PROVE TypeOK'
  BY <1>5, MoveType DEF Me, TypeOK, Issued
<1>6. ASSUME NEW c \in Calls, InsertUser(c) PROVE TypeOK'
  <2>1. pc' \in [Calls -> {"idle", "insert", "store", "delete", "set", "done"}]
        /\ answer' \in [Calls -> Statuses]
    BY <1>6, MoveType DEF InsertUser
  <2>2. accounts' \subseteq Emails
    BY <1>6 DEF InsertUser, TypeOK, Underway
  <2> QED BY <1>6, <2>1, <2>2 DEF InsertUser, TypeOK
<1>7. ASSUME NEW c \in Calls, StoreToken(c) PROVE TypeOK'
  BY <1>7, MoveType DEF StoreToken, TypeOK
<1>8. ASSUME NEW c \in Calls, DeleteOld(c) PROVE TypeOK'
  BY <1>8, MoveType DEF DeleteOld, TypeOK
<1>9. ASSUME NEW c \in Calls, SetNew(c) PROVE TypeOK'
  BY <1>9, MoveType DEF SetNew, TypeOK
<1>10. ASSUME NEW c \in Calls, PipelineFails(c) PROVE TypeOK'
  BY <1>10, MoveType DEF PipelineFails, TypeOK
<1>11. ASSUME NEW c \in Calls, Invalid(c) PROVE TypeOK'
  BY <1>11, MoveType DEF Invalid, TypeOK
<1>12. ASSUME NEW c \in Calls, FirstFails(c) PROVE TypeOK'
  BY <1>12, MoveType DEF FirstFails, TypeOK
<1>13. ASSUME NEW c \in Calls, SecondFails(c) PROVE TypeOK'
  <2>1. pc' \in [Calls -> {"idle", "insert", "store", "delete", "set", "done"}]
        /\ answer' \in [Calls -> Statuses]
    BY <1>13, MoveType DEF SecondFails
  <2>2. live' \subseteq Calls /\ session' \in [Calls -> Calls \cup {NoCall}]
    BY <1>13 DEF SecondFails, TypeOK
  <2>3. accounts' \subseteq Emails
    BY <1>13 DEF SecondFails, TypeOK, Underway
  <2> QED BY <1>13, <2>1, <2>2, <2>3 DEF SecondFails, TypeOK
<1>14. ASSUME NEW t \in Calls, RefreshExpires(t) PROVE TypeOK'
  <2>1. session[t] \in Calls
    BY <1>14 DEF RefreshExpires, Ancestry
  <2>2. raced' \subseteq Calls /\ closed' \subseteq Calls
    BY <1>14, <2>1, TouchType DEF RefreshExpires, TypeOK
  <2> QED BY <1>14, <2>2 DEF RefreshExpires, TypeOK
<1>15. ASSUME NEW t \in Calls, AccessExpires(t) PROVE TypeOK'
  BY <1>15, TouchType DEF AccessExpires, TypeOK
<1>16. ASSUME NEW c \in Calls, SetLost(c) PROVE TypeOK'
  <2>1. session[c] \in Calls
    BY <1>16 DEF SetLost, Replaces
  <2> QED BY <1>16, <2>1, MoveType DEF SetLost, TypeOK
<1>17. CASE UNCHANGED vars BY <1>17 DEF vars, TypeOK
<1> QED BY <1>1, <1>2, <1>3, <1>4, <1>5, <1>6, <1>7, <1>8, <1>9, <1>10, <1>11, <1>12, <1>13, <1>14, <1>15, <1>16,
       <1>17 DEF Next

\* A step by which no refresh starts or goes on, and no token appears or disappears.
QuietStep ==
  /\ UNCHANGED <<live, session, raced, closed, lost>>
  /\ \A d \in Calls :
       /\ arg'[d] # arg[d] => pc[d] = "idle"
       /\ pc'[d] # pc[d] => pc[d] \in {"idle", "insert"} /\ pc'[d] \notin {"delete", "set"}
       /\ kind'[d] # kind[d] => pc[d] = "idle"
       /\ pc'[d] = "store" => kind'[d] = "login"
       /\ pc'[d] = "insert" => email'[d] \in Emails
       /\ answer'[d] # 0 => pc'[d] = "done"
       /\ answer'[d] # answer[d] => answer'[d] # 200 \/ kind'[d] \notin {"login", "refresh"}

LEMMA QuietSInv ==
  ASSUME SInv, TypeOK', QuietStep
  PROVE  SInv'
<1> USE DEF SInv, Underway, Ancestry
<1>1. Issued' \subseteq Issued
  BY DEF QuietStep, Issued, TypeOK
<1>2. ASSUME NEW s PROVE Rotating(s)' = Rotating(s) /\ TokensOf(s)' = TokensOf(s)
  BY DEF QuietStep, Rotating, TokensOf, TypeOK
<1>3. \A d \in Calls : pc[d] \in {"done", "delete", "set"} => pc'[d] = pc[d] /\ kind'[d] = kind[d]
  BY DEF QuietStep
<1>4. \A d \in Calls : pc'[d] \in {"delete", "set"} => pc[d] = pc'[d]
  BY DEF QuietStep
<1>5. Underway' /\ Ancestry'
  BY <1>1, <1>3, <1>4 DEF QuietStep, TypeOK
<1>6. Replaces'
  BY <1>3, <1>4 DEF QuietStep, TypeOK, Replaces
<1>7. OneAtATime'
  BY <1>2, <1>3 DEF QuietStep, OneAtATime, Rotating
<1>8. LogoutIsFinal'
  BY <1>2 DEF QuietStep, LogoutIsFinal
<1>9. Alive'
  BY <1>1, <1>2, <1>3 DEF QuietStep, Alive, Rotating
<1> QED BY <1>5, <1>6, <1>7, <1>8, <1>9

LEMMA QuietActions ==
  ASSUME SInv, TypeOK', NEW c \in Calls,
         \/ \E e \in Emails : FindEmail(c, e) \/ FindUser(c, e)
         \/ \E u \in Issued : Me(c, u)
         \/ InsertUser(c) \/ Invalid(c) \/ FirstFails(c)
         \/ \E u \in Calls : AccessExpires(u)
  PROVE  SInv'
<1> USE DEF SInv, Underway, TypeOK, tokenVars, callVars, historyVars, QuietStep
<1>1. CASE \E e \in Emails : FindEmail(c, e)
  <2> QuietStep BY <1>1 DEF FindEmail, Ask, Answer, Goto
  <2> QED BY QuietSInv
<1>2. CASE \E e \in Emails : FindUser(c, e)
  <2> QuietStep BY <1>2 DEF FindUser, Ask, Answer, Goto
  <2> QED BY QuietSInv
<1>3. CASE \E u \in Issued : Me(c, u)
  <2> QuietStep BY <1>3 DEF Me, Ask, Answer, Goto
  <2> QED BY QuietSInv
<1>4. CASE InsertUser(c)
  <2> QuietStep BY <1>4 DEF InsertUser, Answer, Goto
  <2> QED BY QuietSInv
<1>5. CASE Invalid(c)
  <2> QuietStep BY <1>5 DEF Invalid, Ask, Answer, Goto
  <2> QED BY QuietSInv
<1>6. CASE FirstFails(c)
  <2> QuietStep BY <1>6 DEF FirstFails, Ask, Answer, Goto
  <2> QED BY QuietSInv
<1>7. CASE \E u \in Calls : AccessExpires(u)
  <2> QuietStep BY <1>7 DEF AccessExpires
  <2> QED BY QuietSInv
<1> QED BY <1>1, <1>2, <1>3, <1>4, <1>5, <1>6, <1>7

-----------------------------------------------------------------------------
(* The steps of a login.                                                    *)

\* A login's token starts a session of its own: nothing descends from a call that
\* has not ended.
LEMMA StoreSInv ==
  ASSUME SInv, TypeOK', NEW c \in Calls, pc[c] = "store",
         session' = [session EXCEPT ![c] = c],
         live' \in {live, live \cup {c}},
         \E a \in {200, 500} : Answer(c, a) /\ (a = 200 => c \in live'),
         UNCHANGED <<kind, arg, email, raced, closed, lost>>
  PROVE  SInv'
<1>1. /\ pc' = [pc EXCEPT ![c] = "done"] /\ kind[c] = "login" /\ answer[c] = 0
      /\ c \notin live /\ c \notin closed \cup lost
      /\ \A t \in Calls : session[t] # c
  BY DEF SInv, Underway, Ancestry, Answer, Goto, TypeOK
<1>2. /\ \A d \in Calls : d # c => session'[d] = session[d] /\ answer'[d] = answer[d]
      /\ session'[c] = c /\ Issued' \subseteq Issued \cup {c}
      /\ answer'[c] = 200 => c \in live'
  BY <1>1 DEF Issued, Answer, TypeOK, SInv
<1>3. ASSUME NEW s, s # c
      PROVE  Rotating(s)' = Rotating(s) /\ TokensOf(s)' = TokensOf(s)
  BY <1>1, <1>2, <1>3 DEF Rotating, TokensOf, SInv, TypeOK
<1>4. Rotating(c)' = {} /\ TokensOf(c)' \subseteq {c} /\ TokensOf(c)' = live' \cap {c}
  BY <1>1, <1>2 DEF Rotating, TokensOf, SInv, TypeOK
<1>5. Underway'
  BY <1>1, <1>2 DEF Underway, SInv, TypeOK
<1>6. Ancestry'
  BY <1>1, <1>2 DEF Ancestry, SInv, TypeOK
<1>7. Replaces'
  BY <1>1, <1>2 DEF Replaces, Ancestry, SInv, TypeOK
<1>8. OneAtATime'
  BY <1>1, <1>2, <1>3, <1>4 DEF OneAtATime, Replaces, SInv, TypeOK, Rotating
<1>9. LogoutIsFinal'
  BY <1>1, <1>3, <1>4 DEF LogoutIsFinal, SInv
<1>10. Alive'
  <2> SUFFICES ASSUME NEW s \in Issued' \ (raced \cup closed \cup lost), session'[s] = s
               PROVE  \/ TokensOf(s)' # {}
                      \/ \E d \in Rotating(s)' : pc'[d] = "set"
    BY DEF Alive
  <2>1. CASE s = c
    BY <2>1, <1>2, <1>4 DEF Issued
  <2>2. CASE s # c
    BY <2>2, <1>1, <1>2, <1>3 DEF Alive, SInv, Rotating, TypeOK
  <2> QED BY <2>1, <2>2
<1> QED BY <1>5, <1>6, <1>7, <1>8, <1>9, <1>10 DEF SInv

-----------------------------------------------------------------------------
(* The steps of a refresh.                                                  *)

\* It joins the session of its token; if another refresh of the session is under
\* way, the session is marked.
LEMMA ReadSInv ==
  ASSUME SInv, TypeOK', NEW c \in Calls, NEW t \in Issued, ReadToken(c, t)
  PROVE  SInv'
<1> USE DEF Ask, Answer, Goto
<1>1. CASE t \notin live
  <2>1. UNCHANGED <<live, session, raced, closed, lost, email>>
    BY <1>1 DEF ReadToken
  <2>2. /\ pc[c] = "idle" /\ pc' = [pc EXCEPT ![c] = "done"] /\ kind' = [kind EXCEPT ![c] = "refresh"]
        /\ answer' = [answer EXCEPT ![c] = 401] /\ arg' = [arg EXCEPT ![c] = t]
    BY <1>1 DEF ReadToken
  <2> QED BY <2>1, <2>2, QuietSInv DEF QuietStep, SInv, Underway, TypeOK
<1>2. CASE t \in live
  <2> DEFINE s0 == session[t]
  <2>1. /\ pc[c] = "idle" /\ pc' = [pc EXCEPT ![c] = "delete"] /\ kind' = [kind EXCEPT ![c] = "refresh"]
        /\ arg' = [arg EXCEPT ![c] = t] /\ session' = [session EXCEPT ![c] = s0]
        /\ Touch(s0) /\ UNCHANGED <<live, answer, closed, lost, email>>
    BY <1>2 DEF ReadToken
  <2>2. /\ t \in Calls /\ pc[t] = "done" /\ s0 \in Calls /\ pc[s0] = "done"
        /\ t # c /\ s0 # c /\ c \notin live /\ c \notin closed \cup lost /\ answer[c] = 0
        /\ \A d \in Calls : session[d] # c
    BY <1>2, <2>1 DEF SInv, Ancestry, Underway, Issued, TypeOK
  <2>3. Issued' = Issued /\ c \notin Issued
    BY <2>1, <2>2 DEF Issued, SInv, TypeOK
  <2>4. ASSUME NEW s
        PROVE  /\ Rotating(s)' = IF s = s0 THEN Rotating(s) \cup {c} ELSE Rotating(s)
               /\ TokensOf(s)' = TokensOf(s)
    BY <2>1, <2>2 DEF Rotating, TokensOf, SInv, TypeOK
  <2>5. t \in TokensOf(s0)
    BY <1>2 DEF TokensOf
  <2>6. Underway'
    BY <2>1, <2>2 DEF Underway, SInv, TypeOK
  <2>7. Ancestry'
    BY <2>1, <2>2, <2>3 DEF Ancestry, SInv, TypeOK
  <2>8. Replaces'
    BY <2>1, <2>2 DEF Replaces, Ancestry, SInv, TypeOK
  <2>9. OneAtATime'
    <3> SUFFICES ASSUME NEW s \in Calls \ raced'
                 PROVE  /\ \A a, b \in Rotating(s)' : a = b
                        /\ \A u, v \in TokensOf(s)' : u = v
                        /\ \A a \in Rotating(s)' :
                             IF pc'[a] = "delete" THEN arg'[a] \in live' ELSE TokensOf(s)' = {}
      BY DEF OneAtATime
    <3>1. s \notin raced
      BY <2>1 DEF Touch
    <3>2. CASE s = s0
      <4>1. Rotating(s0) = {}
        BY <2>1, <3>2 DEF Touch, SInv, TypeOK
      <4> QED BY <1>2, <2>1, <2>4, <3>1, <3>2, <4>1 DEF OneAtATime, SInv, TypeOK
    <3>3. CASE s # s0
      BY <2>1, <2>2, <2>4, <3>1, <3>3 DEF OneAtATime, SInv, TypeOK, Rotating
    <3> QED BY <3>2, <3>3
  <2>10. LogoutIsFinal'
    BY <2>1, <2>4, <2>5 DEF LogoutIsFinal, SInv, Touch
  <2>11. Alive'
    BY <2>1, <2>2, <2>3, <2>4 DEF Alive, SInv, Touch, TypeOK, Rotating
  <2> QED BY <2>6, <2>7, <2>8, <2>9, <2>10, <2>11 DEF SInv
<1> QED BY <1>1, <1>2

\* The old token goes; the refresh is now the only trace of an unmarked session.
LEMMA DeleteSInv ==
  ASSUME SInv, TypeOK', NEW c \in Calls, DeleteOld(c)
  PROVE  SInv'
<1> DEFINE t == arg[c]  s0 == session[c]
<1>1. /\ pc[c] = "delete" /\ pc' = [pc EXCEPT ![c] = "set"] /\ live' = live \ {t}
      /\ UNCHANGED <<access, session, kind, arg, email, answer, raced, closed, lost>>
  BY DEF DeleteOld, Goto, historyVars
<1>2. /\ t \in Calls /\ pc[t] = "done" /\ s0 = session[t] /\ s0 \in Calls /\ c \notin live
      /\ c \in Rotating(s0) /\ t # c /\ answer[c] = 0 /\ kind[c] = "refresh"
  BY <1>1 DEF SInv, Replaces, Ancestry, Underway, Rotating
<1>3. Issued' = Issued
  BY <1>1 DEF Issued
<1>4. ASSUME NEW s
      PROVE  /\ Rotating(s)' = Rotating(s)
             /\ TokensOf(s)' = IF s = s0 THEN TokensOf(s) \ {t} ELSE TokensOf(s)
  BY <1>1, <1>2 DEF Rotating, TokensOf, SInv, TypeOK
<1>5. Underway'
  BY <1>1, <1>2 DEF Underway, SInv, TypeOK
<1>6. Ancestry'
  BY <1>1, <1>2, <1>3 DEF Ancestry, SInv, TypeOK
<1>7. Replaces'
  BY <1>1, <1>2 DEF Replaces, SInv, TypeOK
<1>8. OneAtATime'
  <2> SUFFICES ASSUME NEW s \in Calls \ raced
               PROVE  /\ \A a, b \in Rotating(s)' : a = b
                      /\ \A u, v \in TokensOf(s)' : u = v
                      /\ \A a \in Rotating(s)' :
                           IF pc'[a] = "delete" THEN arg'[a] \in live' ELSE TokensOf(s)' = {}
    BY <1>1 DEF OneAtATime
  <2>1. CASE s = s0
    <3>1. t \in TokensOf(s0)
      BY <1>1, <1>2, <2>1 DEF OneAtATime, SInv, TokensOf
    <3>2. TokensOf(s)' = {}
      BY <1>4, <2>1, <3>1 DEF OneAtATime, SInv
    <3>3. \A a \in Rotating(s)' : a = c
      BY <1>2, <1>4, <2>1 DEF OneAtATime, SInv
    <3> QED BY <1>1, <2>1, <3>2, <3>3 DEF SInv, TypeOK
  <2>2. CASE s # s0
    <3>1. \A a \in Rotating(s) : a # c /\ arg[a] # t
      BY <1>2, <2>2 DEF Rotating, SInv, Replaces
    <3> QED BY <1>1, <1>4, <2>2, <3>1 DEF OneAtATime, SInv, TypeOK
  <2> QED BY <2>1, <2>2
<1>9. LogoutIsFinal'
  BY <1>1, <1>4 DEF LogoutIsFinal, SInv
<1>10. Alive'
  <2> SUFFICES ASSUME NEW s \in Issued \ (raced \cup closed \cup lost), session[s] = s
               PROVE  \/ TokensOf(s)' # {}
                      \/ \E d \in Rotating(s)' : pc'[d] = "set"
    BY <1>1, <1>3 DEF Alive
  <2>1. CASE s = s0
    BY <2>1, <1>1, <1>2, <1>4 DEF SInv, TypeOK
  <2>2. CASE s # s0
    BY <2>2, <1>1, <1>4 DEF Alive, SInv, TypeOK, Rotating
  <2> QED BY <2>1, <2>2
<1> QED BY <1>5, <1>6, <1>7, <1>8, <1>9, <1>10 DEF SInv

\* The new token is stored, or it is not and the session is lost.
LEMMA SetSInv ==
  ASSUME SInv, TypeOK', NEW c \in Calls, SetNew(c) \/ SetLost(c)
  PROVE  SInv'
<1> DEFINE s0 == session[c]
<1>1. /\ pc[c] = "set" /\ pc' = [pc EXCEPT ![c] = "done"] /\ answer' = [answer EXCEPT ![c] = 200]
      /\ UNCHANGED <<session, kind, arg, email, raced, closed>>
      /\ \/ live' = live \cup {c} /\ lost' = lost
         \/ live' = live /\ lost' = lost \cup {s0}
  BY DEF SetNew, SetLost, Answer, Goto, historyVars
<1>2. /\ arg[c] \in Calls /\ pc[arg[c]] = "done" /\ s0 \in Calls /\ pc[s0] = "done"
      /\ arg[c] \notin live /\ c \notin live /\ arg[c] # c /\ s0 # c
      /\ c \in Rotating(s0) /\ kind[c] = "refresh"
  BY <1>1 DEF SInv, Replaces, Ancestry, Rotating, Underway
<1>3. Issued' = Issued \cup {c}
  BY <1>1, <1>2 DEF Issued, SInv, TypeOK
<1>4. ASSUME NEW s
      PROVE  /\ Rotating(s)' = IF s = s0 THEN Rotating(s) \ {c} ELSE Rotating(s)
             /\ TokensOf(s)' = IF s = s0 THEN TokensOf(s) \cup (live' \cap {c}) ELSE TokensOf(s)
  BY <1>1, <1>2 DEF Rotating, TokensOf, SInv, TypeOK
<1>5. Underway'
  BY <1>1, <1>2 DEF Underway, SInv, TypeOK
<1>6. Ancestry'
  BY <1>1, <1>2, <1>3 DEF Ancestry, SInv, TypeOK
<1>7. Replaces'
  BY <1>1, <1>2 DEF Replaces, SInv, TypeOK
<1>8. OneAtATime'
  <2> SUFFICES ASSUME NEW s \in Calls \ raced
               PROVE  /\ \A a, b \in Rotating(s)' : a = b
                      /\ \A u, v \in TokensOf(s)' : u = v
                      /\ \A a \in Rotating(s)' :
                           IF pc'[a] = "delete" THEN arg'[a] \in live' ELSE TokensOf(s)' = {}
    BY <1>1 DEF OneAtATime
  <2>1. CASE s = s0
    <3>1. TokensOf(s) = {} /\ Rotating(s)' = {}
      BY <1>1, <1>2, <1>4, <2>1 DEF OneAtATime, SInv
    <3> QED BY <1>4, <2>1, <3>1
  <2>2. CASE s # s0
    <3>1. \A a \in Rotating(s) : a # c
      BY <2>2 DEF Rotating
    <3> QED BY <1>1, <1>4, <2>2, <3>1 DEF OneAtATime, SInv, TypeOK
  <2> QED BY <2>1, <2>2
<1>9. LogoutIsFinal'
  <2> SUFFICES ASSUME NEW s \in (closed \cup lost') \ raced
               PROVE  TokensOf(s)' = {} /\ Rotating(s)' = {}
    BY <1>1 DEF LogoutIsFinal
  <2>1. CASE s = s0
    <3>1. s0 \notin closed \cup lost
      BY <1>2, <2>1 DEF LogoutIsFinal, SInv
    <3>2. live' = live
      BY <1>1, <2>1, <3>1
    <3>3. TokensOf(s0) = {} /\ Rotating(s0) = {c}
      BY <1>1, <1>2, <2>1 DEF OneAtATime, SInv
    <3> QED BY <1>2, <1>4, <2>1, <3>2, <3>3
  <2>2. CASE s # s0
    BY <1>1, <1>4, <2>2 DEF LogoutIsFinal, SInv
  <2> QED BY <2>1, <2>2
<1>10. Alive'
  <2> SUFFICES ASSUME NEW s \in Issued' \ (raced \cup closed \cup lost'), session[s] = s
               PROVE  \/ TokensOf(s)' # {}
                      \/ \E d \in Rotating(s)' : pc'[d] = "set"
    BY <1>1 DEF Alive
  <2>0. s # c /\ s \in Issued /\ s \notin closed \cup lost
    BY <1>1, <1>2, <1>3
  <2>1. CASE s = s0
    BY <2>0, <2>1, <1>1, <1>4
  <2>2. CASE s # s0
    BY <2>0, <2>2, <1>1, <1>4 DEF Alive, SInv, TypeOK, Rotating
  <2> QED BY <2>1, <2>2
<1> QED BY <1>5, <1>6, <1>7, <1>8, <1>9, <1>10 DEF SInv

\* The pipeline does nothing: the old token is still good.
LEMMA PipelineSInv ==
  ASSUME SInv, TypeOK', NEW c \in Calls, PipelineFails(c)
  PROVE  SInv'
<1> DEFINE s0 == session[c]
<1>1. /\ pc[c] = "delete" /\ pc' = [pc EXCEPT ![c] = "done"] /\ answer' = [answer EXCEPT ![c] = 200]
      /\ UNCHANGED <<live, session, kind, arg, email, raced, closed, lost>>
  BY DEF PipelineFails, Answer, Goto, historyVars
<1>2. /\ arg[c] \in Calls /\ pc[arg[c]] = "done" /\ s0 \in Calls /\ pc[s0] = "done"
      /\ c \notin live /\ s0 # c /\ s0 = session[arg[c]]
      /\ c \in Rotating(s0) /\ kind[c] = "refresh"
  BY <1>1 DEF SInv, Replaces, Ancestry, Rotating, Underway
<1>3. Issued' = Issued \cup {c}
  BY <1>1, <1>2 DEF Issued, SInv, TypeOK
<1>4. ASSUME NEW s
      PROVE  /\ Rotating(s)' = IF s = s0 THEN Rotating(s) \ {c} ELSE Rotating(s)
             /\ TokensOf(s)' = TokensOf(s)
  BY <1>1, <1>2 DEF Rotating, TokensOf, SInv, TypeOK
<1>5. Underway' /\ Ancestry' /\ Replaces'
  BY <1>1, <1>2, <1>3 DEF Underway, Ancestry, Replaces, SInv, TypeOK
<1>6. OneAtATime'
  BY <1>1, <1>2, <1>4 DEF OneAtATime, SInv, TypeOK, Rotating
<1>7. LogoutIsFinal'
  BY <1>1, <1>4 DEF LogoutIsFinal, SInv
<1>8. Alive'
  <2> SUFFICES ASSUME NEW s \in Issued' \ (raced \cup closed \cup lost), session[s] = s
               PROVE  \/ TokensOf(s)' # {}
                      \/ \E d \in Rotating(s)' : pc'[d] = "set"
    BY <1>1 DEF Alive
  <2>0. s # c /\ s \in Issued
    BY <1>1, <1>2, <1>3
  <2>1. CASE s = s0
    <3> arg[c] \in TokensOf(s0)
      BY <2>1, <1>1, <1>2 DEF SInv, OneAtATime, TokensOf, Issued
    <3> QED BY <2>1, <1>4
  <2>2. CASE s # s0
    BY <2>0, <2>2, <1>1, <1>4 DEF Alive, SInv, TypeOK, Rotating
  <2> QED BY <2>1, <2>2
<1> QED BY <1>5, <1>6, <1>7, <1>8 DEF SInv

-----------------------------------------------------------------------------
(* The end of a token.                                                      *)

\* A logout or the end of the seven days: the session is closed if the token was
\* good, and marked if a refresh of it is under way.
LEMMA EndSInv ==
  ASSUME SInv, TypeOK', NEW t \in Calls, session[t] \in Calls,
         live' = live \ {t},
         closed' = IF t \in live THEN closed \cup {session[t]} ELSE closed,
         Touch(session[t]), session' = session, lost' = lost,
         \A d \in Calls : /\ pc[d] # "idle" => /\ pc'[d] = pc[d] /\ kind'[d] = kind[d]
                                               /\ arg'[d] = arg[d] /\ answer'[d] = answer[d]
                          /\ pc[d] = "idle" /\ pc'[d] # "idle" => /\ pc'[d] = "done"
                                                                  /\ kind'[d] = "logout"
                          /\ pc'[d] = "idle" => answer'[d] = answer[d],
         email' = email
  PROVE  SInv'
<1> DEFINE s0 == session[t]
<1>1. raced' = IF Rotating(s0) # {} THEN raced \cup {s0} ELSE raced
  BY DEF Touch
<1>2. Issued' = Issued
  BY DEF Issued, SInv, Underway, TypeOK
<1>3. \A d \in Calls : pc'[d] \in {"insert", "store", "delete", "set"} \/ pc[d] # "idle" => pc'[d] = pc[d]
  BY DEF SInv, TypeOK
<1>4. ASSUME NEW s
      PROVE  /\ Rotating(s)' = Rotating(s)
             /\ TokensOf(s)' = TokensOf(s) \ {t}
  BY <1>3 DEF Rotating, TokensOf, SInv, TypeOK
<1>5. Underway'
  BY <1>3 DEF Underway, SInv, TypeOK
<1>6. Ancestry'
  BY <1>2, <1>3 DEF Ancestry, SInv, TypeOK
<1>7. Replaces'
  BY <1>3 DEF Replaces, Ancestry, SInv, TypeOK
<1>8. OneAtATime'
  <2> SUFFICES ASSUME NEW s \in Calls \ raced'
               PROVE  /\ \A a, b \in Rotating(s)' : a = b
                      /\ \A u, v \in TokensOf(s)' : u = v
                      /\ \A a \in Rotating(s)' :
                           IF pc'[a] = "delete" THEN arg'[a] \in live' ELSE TokensOf(s)' = {}
    BY DEF OneAtATime
  <2>1. s \notin raced
    BY <1>1
  <2>2. CASE s = s0
    BY <1>1, <1>4, <2>1, <2>2 DEF OneAtATime, SInv
  <2>3. CASE s # s0
    <3>1. \A a \in Rotating(s) : pc'[a] = pc[a] /\ arg'[a] = arg[a] /\ arg[a] # t
      BY <2>3 DEF Rotating, SInv, Replaces
    <3> QED BY <1>4, <2>1, <3>1 DEF OneAtATime, SInv, TypeOK
  <2> QED BY <2>2, <2>3
<1>9. LogoutIsFinal'
  <2> SUFFICES ASSUME NEW s \in (closed' \cup lost) \ raced'
               PROVE  TokensOf(s)' = {} /\ Rotating(s)' = {}
    BY DEF LogoutIsFinal
  <2>1. s \notin raced
    BY <1>1
  <2>2. CASE s \in closed \cup lost
    BY <1>4, <2>1, <2>2 DEF LogoutIsFinal, SInv
  <2>3. CASE s \notin closed \cup lost
    <3>1. s = s0 /\ t \in TokensOf(s)
      BY <2>3 DEF TokensOf
    <3>2. TokensOf(s) = {t}
      BY <2>1, <3>1 DEF OneAtATime, SInv
    <3> QED BY <1>1, <1>4, <3>1, <3>2
  <2> QED BY <2>2, <2>3
<1>10. Alive'
  <2> SUFFICES ASSUME NEW s \in Issued \ (raced' \cup closed' \cup lost), session[s] = s
               PROVE  \/ TokensOf(s)' # {}
                      \/ \E d \in Rotating(s)' : pc'[d] = "set"
    BY <1>2 DEF Alive
  <2>1. s \notin raced /\ s \notin closed \cup lost /\ t \notin TokensOf(s)
    BY <1>1 DEF TokensOf
  <2> QED BY <1>3, <1>4, <2>1 DEF Alive, SInv, TypeOK, Rotating
<1> QED BY <1>5, <1>6, <1>7, <1>8, <1>9, <1>10 DEF SInv

-----------------------------------------------------------------------------
(* The theorems about sessions.                                             *)

LEMMA NextSInv == SInv /\ [Next]_vars => SInv'
<1> SUFFICES ASSUME SInv, [Next]_vars PROVE SInv'
  OBVIOUS
<1> TypeOK'
  BY TypeStep
<1>1. ASSUME NEW c \in Calls, NEW t \in Issued, Logout(c, t) PROVE SInv'
  <2>1. t \in Calls /\ session[t] \in Calls
    BY DEF Issued, SInv, Ancestry
  <2>2. /\ pc[c] = "idle" /\ pc' = [pc EXCEPT ![c] = "done"] /\ kind' = [kind EXCEPT ![c] = "logout"]
        /\ answer' = [answer EXCEPT ![c] = 204] /\ arg' = [arg EXCEPT ![c] = t]
        /\ live' = live \ {t} /\ Touch(session[t]) /\ UNCHANGED <<session, email, lost>>
        /\ closed' = IF t \in live THEN closed \cup {session[t]} ELSE closed
    BY <1>1 DEF Logout, Ask, Answer, Goto
  <2> QED BY <2>1, <2>2, EndSInv DEF SInv, TypeOK
<1>2. ASSUME NEW t \in Calls, RefreshExpires(t) PROVE SInv'
  <2>1. t \in live /\ session[t] \in Calls
    BY <1>2 DEF RefreshExpires, SInv, Ancestry
  <2>2. /\ live' = live \ {t} /\ Touch(session[t]) /\ UNCHANGED <<session, callVars, lost>>
        /\ closed' = closed \cup {session[t]}
    BY <1>2 DEF RefreshExpires
  <2> QED BY <2>1, <2>2, EndSInv DEF callVars
<1>3. ASSUME NEW c \in Calls, StoreToken(c) PROVE SInv'
  BY <1>3, StoreSInv DEF StoreToken, historyVars
<1>4. ASSUME NEW c \in Calls, SecondFails(c) PROVE SInv'
  <2>1. CASE pc[c] = "insert"
    <3> QuietStep
      BY <1>4, <2>1 DEF SecondFails, SInv, Underway, TypeOK, QuietStep, Answer, Goto, historyVars
    <3> QED BY QuietSInv
  <2>2. CASE pc[c] = "store"
    BY <1>4, <2>2, StoreSInv DEF SecondFails, historyVars
  <2> QED BY <1>4, <2>1, <2>2 DEF SecondFails
<1>5. CASE UNCHANGED vars
  BY <1>5, QuietSInv DEF QuietStep, vars, tokenVars, callVars, historyVars, SInv, Underway
<1>6. ASSUME NEW c \in Calls, NEW e \in Emails, FindEmail(c, e) \/ FindUser(c, e) PROVE SInv'
  BY <1>6, QuietActions
<1>7. ASSUME NEW c \in Calls, NEW t \in Issued, Me(c, t) PROVE SInv'
  BY <1>7, QuietActions
<1>8. ASSUME NEW c \in Calls, InsertUser(c) \/ Invalid(c) \/ FirstFails(c) PROVE SInv'
  BY <1>8, QuietActions
<1>9. ASSUME NEW t \in Calls, AccessExpires(t) PROVE SInv'
  BY <1>9, QuietActions
<1> QED
  BY <1>1, <1>2, <1>3, <1>4, <1>5, <1>6, <1>7, <1>8, <1>9, ReadSInv, DeleteSInv, SetSInv,
     PipelineSInv DEF Next

\* The inductive invariant, of any number of calls that interleave and fail.
THEOREM SessionsInvariant == Spec => []SInv
BY InitSInv, NextSInv, PTL DEF Spec

\* rotateRefreshToken: a refresh token and the one it was exchanged for are never both
\* good, and a session whose refreshes do not overlap has one token.
THEOREM OneTokenAlways == Spec => []OneToken
<1>1. SInv => OneToken
  BY DEF SInv, TypeOK, OneToken, Replaces, OneAtATime
<1> QED BY <1>1, SessionsInvariant, PTL

\* logout and the expiry of a token close its session for good, and so does a rotation
\* that loses it, unless a refresh was under way.
THEOREM LogoutIsFinalAlways == Spec => []LogoutIsFinal
<1>1. SInv => LogoutIsFinal
  BY DEF SInv
<1> QED BY <1>1, SessionsInvariant, PTL

\* A client that refreshes one call after the other keeps its session whatever fails,
\* with the one exception of a pipeline whose DEL is executed and whose SETEX is not.
THEOREM SessionSurvivesAlways == Spec => []SessionSurvives
<1>1. SInv => SessionSurvives
  BY DEF SInv, SessionSurvives, Alive
<1> QED BY <1>1, SessionsInvariant, PTL

-----------------------------------------------------------------------------
(* The gate: what the middleware lines up.                                  *)

Names == {"api", "auth", "again", "global", "bid", "requireAuth", "requireRole", "validate",
          "notFound"}

\* What app.ts and the routers line up for each route.
LEMMA Lines ==
  ASSUME NEW route \in Routes
  PROVE  /\ Mounted[route] \in Seq(Names) /\ Len(Mounted[route]) <= 2
         /\ Routers(route) \in Seq(Names) /\ Len(Routers(route)) <= 5
         /\ route # "bid" =>
              /\ \A i \in 1 .. Len(Mounted[route]) : Mounted[route][i] \notin {"bid", "global"}
              /\ \A i \in 1 .. Len(Routers(route)) : Routers(route)[i] \notin {"bid", "global"}
<1> DEFINE Plain(s) == \A i \in 1 .. Len(s) : s[i] \notin {"bid", "global"}
           Fits(s, n) == s \in Seq(Names) /\ Len(s) <= n
           bids == <<"requireAuth", "requireRole", "global", "bid", "validate">>
<1>1. /\ Fits(<<>>, 2) /\ Plain(<<>>)
      /\ Fits(<<"api">>, 2) /\ Plain(<<"api">>)
      /\ Fits(<<"notFound">>, 2) /\ Plain(<<"notFound">>)
  BY DEF Names
<1>2. Fits(<<"api", "again">>, 2) /\ Plain(<<"api", "again">>) BY DEF Names
<1>3. Fits(<<"api", "requireAuth">>, 2) /\ Plain(<<"api", "requireAuth">>) BY DEF Names
<1>4. /\ Fits(<<>>, 5) /\ Fits(<<"validate">>, 5) /\ Plain(<<"validate">>)
      /\ Fits(<<"requireAuth">>, 5) /\ Plain(<<"requireAuth">>)
  BY DEF Names
<1>5. Fits(<<"auth", "validate">>, 5) /\ Plain(<<"auth", "validate">>) BY DEF Names
<1>6. /\ Fits(<<"requireAuth", "requireRole", "validate">>, 5)
      /\ Plain(<<"requireAuth", "requireRole", "validate">>)
  BY DEF Names
<1>7. Fits(bids, 5) BY DEF Names
<1>8. \/ Mounted[route] = <<"api">> \/ Mounted[route] = <<"api", "again">>
      \/ Mounted[route] = <<"api", "requireAuth">> \/ Mounted[route] = <<>>
      \/ Mounted[route] = <<"notFound">>
  BY DEF Mounted, Routes
<1>9. \/ Routers(route) = <<"auth", "validate">> \/ Routers(route) = <<"validate">>
      \/ Routers(route) = <<>> \/ Routers(route) = <<"requireAuth", "requireRole", "validate">>
      \/ Routers(route) = <<"requireAuth">>
      \/ route = "bid" /\ Routers(route) = bids
  <2>1. /\ DOMAIN authRouter = {"login", "refresh"} /\ DOMAIN auctionRouter = {"browse", "bid"}
        /\ DOMAIN bidsRouter = {"my"} /\ DOMAIN analysisRouter = {"analysis"}
    BY DEF authRouter, auctionRouter, bidsRouter, analysisRouter
  <2>2. CASE route \in {"login", "refresh"} BY <2>1, <2>2 DEF Routers, authRouter
  <2>3. CASE route \in {"browse", "bid"} BY <2>1, <2>3 DEF Routers, auctionRouter
  <2>4. CASE route = "my" BY <2>1, <2>4 DEF Routers, bidsRouter
  <2>5. CASE route = "analysis" BY <2>1, <2>5 DEF Routers, analysisRouter
  <2>6. CASE route \in {"open", "missing"} BY <2>1, <2>6 DEF Routers
  <2> QED BY <2>2, <2>3, <2>4, <2>5, <2>6 DEF Routes
<1> HIDE DEF Plain, Fits, bids
<1>10. Fits(Mounted[route], 2) /\ Plain(Mounted[route]) BY <1>1, <1>2, <1>3, <1>8
<1>11. Fits(Routers(route), 5) /\ (route # "bid" => Plain(Routers(route)))
  BY <1>1, <1>4, <1>5, <1>6, <1>7, <1>9
<1> QED BY <1>10, <1>11 DEF Plain, Fits

\* A route has at most seven stages, and the budget of bids is charged behind the check of
\* the token and that of the role.
LEMMA StagesShape ==
  ASSUME NEW route \in Routes
  PROVE  /\ Len(Stages[route]) \in 0 .. 7
         /\ \A i \in 1 .. Len(Stages[route]) :
              Stages[route][i] \in {"bid", "global"} =>
                \E j, m \in 1 .. i - 1 :
                  Stages[route][j] = "requireAuth" /\ Stages[route][m] = "requireRole"
<1> DEFINE first == Mounted[route]
           second == Routers(route)
           line == Stages[route]
<1>1. /\ first \in Seq(Names) /\ second \in Seq(Names)
      /\ Len(first) \in Nat /\ Len(first) <= 2 /\ Len(second) \in Nat /\ Len(second) <= 5
  BY Lines, LenProperties
<1>2. line = first \o second BY DEF Stages
<1> HIDE DEF first, second, line
<1>3. /\ Len(line) = Len(first) + Len(second)
      /\ \A i \in 1 .. Len(first) + Len(second) :
           line[i] = IF i <= Len(first) THEN first[i] ELSE second[i - Len(first)]
  BY <1>1, <1>2, ConcatProperties
<1>4. Len(line) \in 0 .. 7
  <2>1. Len(line) = Len(first) + Len(second) BY <1>3
  <2> QED BY <1>1, <2>1
<1>5. CASE route # "bid"
  <2>1. /\ \A i \in 1 .. Len(first) : first[i] \notin {"bid", "global"}
        /\ \A i \in 1 .. Len(second) : second[i] \notin {"bid", "global"}
    BY <1>5, Lines DEF first, second
  <2>2. ASSUME NEW i \in 1 .. Len(line) PROVE line[i] \notin {"bid", "global"}
    <3>1. CASE i <= Len(first) BY <1>1, <1>3, <2>1, <3>1
    <3>2. CASE i > Len(first)
      <4>1. i - Len(first) \in 1 .. Len(second) BY <1>1, <1>3, <3>2
      <4> QED BY <1>1, <1>3, <2>1, <3>2, <4>1
    <3> QED BY <1>1, <1>3, <3>1, <3>2
  <2> QED BY <1>4, <2>2 DEF line
<1>6. CASE route = "bid"
  <2>1. first = <<"api">> BY <1>6 DEF first, Mounted
  <2>2. second = <<"requireAuth", "requireRole", "global", "bid", "validate">>
    <3>1. DOMAIN authRouter = {"login", "refresh"} /\ DOMAIN auctionRouter = {"browse", "bid"}
          /\ DOMAIN bidsRouter = {"my"} /\ DOMAIN analysisRouter = {"analysis"}
      BY DEF authRouter, auctionRouter, bidsRouter, analysisRouter
    <3>2. second = auctionRouter["bid"] BY <1>6, <3>1 DEF second, Routers
    <3> QED BY <3>2 DEF auctionRouter
  <2>3. Len(first) = 1 /\ Len(second) = 5 /\ first[1] = "api" BY <2>1, <2>2
  <2>4. second[1] = "requireAuth" /\ second[2] = "requireRole" BY <2>2
  <2>5. line[1] = "api" /\ line[2] = "requireAuth" /\ line[3] = "requireRole"
    BY <1>3, <2>3, <2>4
  <2>6. ASSUME NEW i \in 1 .. Len(line), line[i] \in {"bid", "global"}
        PROVE  2 \in 1 .. i - 1 /\ 3 \in 1 .. i - 1
    <3>1. i # 1 /\ i # 2 /\ i # 3 BY <2>5, <2>6
    <3> QED BY <1>4, <3>1
  <2> QED BY <1>4, <2>5, <2>6 DEF line
<1> QED BY <1>5, <1>6

LEMMA LeastStop ==
  ASSUME NEW T \in SUBSET (1 .. 7), T # {}
  PROVE  \E j \in T : \A k \in T : j <= k
<1>0. PICK m \in T : TRUE OBVIOUS
<1>1. CASE 1 \in T BY <1>1
<1>2. CASE 1 \notin T /\ 2 \in T BY <1>2
<1>3. CASE 1 \notin T /\ 2 \notin T /\ 3 \in T BY <1>3
<1>4. CASE 1 \notin T /\ 2 \notin T /\ 3 \notin T /\ 4 \in T BY <1>4
<1>5. CASE 1 \notin T /\ 2 \notin T /\ 3 \notin T /\ 4 \notin T /\ 5 \in T BY <1>5
<1>6. CASE 1 \notin T /\ 2 \notin T /\ 3 \notin T /\ 4 \notin T /\ 5 \notin T /\ 6 \in T
  BY <1>6
<1>7. CASE 1 \notin T /\ 2 \notin T /\ 3 \notin T /\ 4 \notin T /\ 5 \notin T /\ 6 \notin T
  <2>1. \A k \in T : k = 7 BY <1>7
  <2>2. 7 \in T BY <1>0, <2>1
  <2> QED BY <2>1, <2>2
<1> QED BY <1>1, <1>2, <1>3, <1>4, <1>5, <1>6, <1>7

\* Where a request stops: unanswered in front of a limiter, having passed all before it.
Halts(s, n, x) ==
  x = 0 =>
    /\ n \in 1 .. Len(Stages[s.route]) /\ Stages[s.route][n] \in LimiterStages
    /\ \A j \in 1 .. n - 1 : Refusal(Stages[s.route][j], s) = 0

LEMMA RunsHalts ==
  ASSUME NEW r \in Requests, NEW s \in Shapes, NEW i \in 1 .. Len(Stages[s.route]) + 1,
         \A j \in 1 .. i - 1 : Refusal(Stages[s.route][j], s) = 0,
         Runs(r, s, i)
  PROVE  \E n \in i .. 8, x \in {0, 200, 400, 401, 403, 404} :
           /\ stage' = [stage EXCEPT ![r] = n] /\ status' = [status EXCEPT ![r] = x]
           /\ Halts(s, n, x)
<1> DEFINE line == Stages[s.route]
           stops == {j \in i .. Len(line) : line[j] \in LimiterStages \/ Refusal(line[j], s) # 0}
           stop == CHOOSE j \in stops : \A k \in stops : j <= k
<1>1. Len(line) \in 0 .. 7 /\ i \in 1 .. 8
  <2>1. s.route \in Routes BY GateAssumption
  <2>2. Len(line) \in 0 .. 7 BY <2>1, StagesShape
  <2>3. \A n \in 0 .. 7 : \A m \in 1 .. n + 1 : m \in 1 .. 8 OBVIOUS
  <2>4. i \in 1 .. 8 BY <2>2, <2>3
  <2> QED BY <2>2, <2>4
<1>2. CASE stops = {}
  <2>1. stage' = [stage EXCEPT ![r] = 8] /\ status' = [status EXCEPT ![r] = 200]
    BY <1>2 DEF Runs
  <2>2. 8 \in i .. 8 BY <1>1
  <2>3. 200 # 0 /\ 200 \in {0, 200, 400, 401, 403, 404} OBVIOUS
  <2>4. Halts(s, 8, 200) BY <2>3 DEF Halts
  <2> QED BY <2>1, <2>2, <2>3, <2>4
<1>3. CASE stops # {}
  <2>1. stop \in stops /\ \A k \in stops : stop <= k
    <3>1. stops \in SUBSET (1 .. 7) BY <1>1
    <3> HIDE DEF stops
    <3> QED BY <1>3, <3>1, LeastStop
  <2>2. stage' = [stage EXCEPT ![r] = stop] /\ status' = [status EXCEPT ![r] = Refusal(line[stop], s)]
    BY <1>3 DEF Runs
  <2> HIDE DEF stop
  <2>3. /\ stop \in i .. Len(line)
        /\ line[stop] \in LimiterStages \/ Refusal(line[stop], s) # 0
        /\ \A j \in i .. stop - 1 : Refusal(line[j], s) = 0
    BY <1>1, <2>1
  <2>4. Refusal(line[stop], s) \in {0, 400, 401, 403, 404} BY DEF Refusal
  <2>5. \A j \in 1 .. stop - 1 : Refusal(line[j], s) = 0 BY <1>1, <2>3
  <2>6. Halts(s, stop, Refusal(line[stop], s)) BY <1>1, <2>3, <2>5 DEF Halts
  <2>7. stop \in i .. 8 /\ Refusal(line[stop], s) \in {0, 200, 400, 401, 403, 404}
    BY <1>1, <2>3, <2>4
  <2> QED BY <2>2, <2>6, <2>7
<1> QED BY <1>2, <1>3

-----------------------------------------------------------------------------
(* The gate: what the limiters remember.                                    *)

\* A request that was sent has a shape, and one that waits has passed what is in front
\* of its limiter.
Reached ==
  \A r \in Requests :
    stage[r] # 0 =>
      /\ wants[r] \in Shapes
      /\ status[r] = 0 => Halts(wants[r], stage[r], 0)

\* The member a limiter put into the set of the key, by the clock of its process.
Member(c) == [by |-> c.by, stage |-> c.stage, at |-> c.at - Lag[process[c.by]]]

\* Whatever clock and limiter look, the request is in the window.
Fresh(c) == time + Skew < c.at + Window["api"]

\* What was counted is behind the request, and Redis has it as long as it is in every
\* window: the limiters that share a key drop nothing before.
Remembered ==
  \A c \in counted :
    /\ c.stage < stage[c.by] /\ c.at <= time
    /\ Fresh(c) =>
         Member(c) \in bucket[c.key] /\ c.at + Window["api"] <= expires[c.key]

\* A limiter counts a request once.
Once == \A c, d \in counted : c.by = d.by /\ c.stage = d.stage => c = d

Finite == IsFiniteSet(counted) /\ \A k \in Keys : IsFiniteSet(bucket[k])

\* The two halves of LimitsHold.
Budget ==
  \A l \in Limiters, k \in Keys, t \in -1 .. MaxTime :
    Cardinality(Admitted(l, k, t, Window["api"] - Skew)) <= Limit[l]

Spent ==
  \A c \in counted : c.limiter \in {"bid", "global"} =>
    wants[c.by].role /\ wants[c.by].user # Nobody /\ c.key[2] = wants[c.by].user

GateInv == GateTypeOK /\ Reached /\ Remembered /\ Once /\ Finite /\ Budget /\ Spent

\* The constants, one by one.
LEMMA GateConstants ==
  /\ Skew \in Nat /\ MaxTime \in Nat /\ Skew <= MaxTime /\ MaxFaults \in Nat
  /\ \A l \in Limiters : Limit[l] \in Nat \ {0} /\ Window[l] \in Nat \ {0}
  /\ \A l \in Limiters : Window["api"] <= Window[l]
  /\ Window["api"] \in Nat
  /\ \A p \in Processes : Lag[p] \in Nat /\ Lag[p] <= Skew
  /\ \A s \in Shapes : s.route \in Routes /\ s.role \in BOOLEAN /\ s.valid \in BOOLEAN
BY GateAssumption DEF Limiters

LEMMA InitGateInv == GateInit => GateInv
<1> SUFFICES ASSUME GateInit PROVE GateInv
  OBVIOUS
<1>1. GateTypeOK
  BY GateConstants DEF GateInit, GateTypeOK
<1>2. Finite BY FS_EmptySet DEF GateInit, Finite
<1>3. Budget
  <2>1. \A l, k, t, len : Admitted(l, k, t, len) = {} BY DEF GateInit, Admitted
  <2> QED BY <2>1, FS_EmptySet, GateConstants DEF Budget
<1> QED BY <1>1, <1>2, <1>3 DEF GateInit, GateInv, Reached, Remembered, Once, Spent

\* A request that waits at a limiter.
LEMMA AtLimiter ==
  ASSUME GateInv, NEW r \in Requests, NEW st \in LimiterStages, Waits(r, st)
  PROVE  /\ wants[r] \in Shapes /\ stage[r] \in 1 .. Len(Stages[wants[r].route])
         /\ Stages[wants[r].route][stage[r]] = st
         /\ stage[r] \in 1 .. 7
         /\ \A j \in 1 .. stage[r] : Refusal(Stages[wants[r].route][j], wants[r]) = 0
         /\ LimiterOf(st) \in Limiters /\ Key(st, wants[r]) \in Keys
         /\ Now(r) \in 0 .. MaxTime
<1>1. /\ wants[r] \in Shapes /\ stage[r] \in 1 .. Len(Stages[wants[r].route])
      /\ Stages[wants[r].route][stage[r]] = st
      /\ \A j \in 1 .. stage[r] - 1 : Refusal(Stages[wants[r].route][j], wants[r]) = 0
  BY DEF GateInv, Reached, Waits, At, Halts
<1>2. Len(Stages[wants[r].route]) \in 0 .. 7 BY <1>1, StagesShape, GateConstants
<1>3. stage[r] \in 1 .. 7 BY <1>1, <1>2
<1>4. Refusal(st, wants[r]) = 0
  BY DEF Refusal, Unauthorized, Forbidden, Malformed, LimiterStages, Limiters
<1>5. \A j \in 1 .. stage[r] : Refusal(Stages[wants[r].route][j], wants[r]) = 0
  <2> SUFFICES ASSUME NEW j \in 1 .. stage[r]
               PROVE  Refusal(Stages[wants[r].route][j], wants[r]) = 0
    OBVIOUS
  <2>1. j = stage[r] \/ j \in 1 .. stage[r] - 1 BY <1>3
  <2> QED BY <1>1, <1>4, <2>1
<1>6. LimiterOf(st) \in Limiters BY DEF LimiterOf, LimiterStages, Limiters
<1>7. Key(st, wants[r]) \in Keys
  <2>1. stage[r] \in {j \in DOMAIN Stages[wants[r].route] : Stages[wants[r].route][j] \in LimiterStages}
    <3>1. DOMAIN Stages[wants[r].route] = 1 .. Len(Stages[wants[r].route])
      <4>1. wants[r].route \in Routes BY <1>1, GateConstants
      <4>2. Stages[wants[r].route] \in Seq(Names) BY <4>1, Lines, ConcatProperties DEF Stages
      <4> QED BY <4>2, LenProperties
    <3> QED BY <1>1, <3>1
  <2>2. Key(st, wants[r]) \in KeysOf(wants[r]) BY <1>1, <2>1 DEF KeysOf
  <2> QED BY <1>1, <2>2 DEF Keys
<1>8. Now(r) \in 0 .. MaxTime
  <2>1. process[r] \in Processes /\ time \in Skew .. MaxTime BY DEF GateInv, GateTypeOK
  <2>2. Lag[process[r]] \in Nat /\ Lag[process[r]] <= Skew BY <2>1, GateConstants
  <2> QED BY <2>1, <2>2, GateConstants DEF Now
<1> QED BY <1>1, <1>3, <1>5, <1>6, <1>7, <1>8

\* ... and runs on.
LEMMA PassesOn ==
  ASSUME GateInv, NEW r \in Requests, NEW st \in LimiterStages, Waits(r, st), Passes(r)
  PROVE  \E n \in stage[r] + 1 .. 8, x \in {0, 200, 400, 401, 403, 404} :
           /\ stage' = [stage EXCEPT ![r] = n] /\ status' = [status EXCEPT ![r] = x]
           /\ Halts(wants[r], n, x)
<1>1. /\ wants[r] \in Shapes /\ stage[r] \in 1 .. Len(Stages[wants[r].route])
      /\ \A j \in 1 .. stage[r] : Refusal(Stages[wants[r].route][j], wants[r]) = 0
      /\ stage[r] \in 1 .. 7
  BY AtLimiter
<1>2. Len(Stages[wants[r].route]) \in 0 .. 7 BY <1>1, StagesShape, GateConstants
<1>3. stage[r] + 1 \in 1 .. Len(Stages[wants[r].route]) + 1 /\ stage[r] + 1 - 1 = stage[r]
  BY <1>1, <1>2
<1> DEFINE i == stage[r] + 1
<1>4. Runs(r, wants[r], i) BY DEF Passes
<1>5. i \in 1 .. Len(Stages[wants[r].route]) + 1 BY <1>3
<1>6. \A j \in 1 .. i - 1 : Refusal(Stages[wants[r].route][j], wants[r]) = 0 BY <1>1, <1>3
<1> HIDE DEF i
<1>7. \E n \in i .. 8, x \in {0, 200, 400, 401, 403, 404} :
        /\ stage' = [stage EXCEPT ![r] = n] /\ status' = [status EXCEPT ![r] = x]
        /\ Halts(wants[r], n, x)
  BY <1>1, <1>4, <1>5, <1>6, RunsHalts
<1> QED BY <1>7 DEF i

\* No limiter drops a member that is in every window.
LEMMA KeptFresh ==
  ASSUME GateInv, NEW c \in counted, Fresh(c), NEW r \in Requests, NEW l \in Limiters
  PROVE  Member(c) \in Kept(c.key, Now(r) - Window[l])
<1>1. /\ c.by \in Requests /\ c.at \in 0 .. MaxTime /\ time \in Skew .. MaxTime
      /\ process[c.by] \in Processes /\ process[r] \in Processes /\ c.key \in Keys
      /\ expires[c.key] \in Nat
  BY DEF GateInv, GateTypeOK, Counts
<1>2. Member(c) \in bucket[c.key] /\ c.at + Window["api"] <= expires[c.key]
  BY DEF GateInv, Remembered
<1>3. /\ Lag[process[c.by]] \in Nat /\ Lag[process[c.by]] <= Skew
      /\ Lag[process[r]] \in Nat /\ Lag[process[r]] <= Skew
      /\ Window["api"] \in Nat /\ Window[l] \in Nat /\ Window["api"] <= Window[l] /\ Skew \in Nat
      /\ MaxTime \in Nat
  BY <1>1, GateConstants
<1>4. time < expires[c.key] BY <1>1, <1>2, <1>3 DEF Fresh
<1>5. Member(c).at > Now(r) - Window[l]
  <2>1. Member(c).at = c.at - Lag[process[c.by]] BY DEF Member
  <2>2. c.at - Lag[process[c.by]] > time - Lag[process[r]] - Window[l]
    BY <1>1, <1>3 DEF Fresh
  <2> QED BY <2>1, <2>2 DEF Now
<1> QED BY <1>2, <1>4, <1>5 DEF Kept

\* What has been admitted in a window that reaches to now, and is not full, leaves room.
LEMMA RoomLeft ==
  ASSUME GateInv, NEW r \in Requests, NEW l \in Limiters, NEW k \in Keys, NEW t \in -1 .. MaxTime,
         time <= t + (Window["api"] - Skew),
         ~(Cardinality(Kept(k, Now(r) - Window[l])) >= Limit[l])
  PROVE  Cardinality(Admitted(l, k, t, Window["api"] - Skew)) < Limit[l]
<1> DEFINE A == Admitted(l, k, t, Window["api"] - Skew)
           K1 == Kept(k, Now(r) - Window[l])
           f == [c \in A |-> Member(c)]
<1>1. IsFiniteSet(K1)
  <2>1. K1 \subseteq bucket[k] BY DEF Kept
  <2>2. IsFiniteSet(bucket[k]) BY DEF GateInv, Finite
  <2> HIDE DEF K1
  <2> QED BY <2>1, <2>2, FS_Subset
<1>2. A \subseteq counted /\ \A c \in A : c.key = k /\ t < c.at
  BY DEF Admitted
<1>3. \A c \in A : Member(c) \in K1
  <2> SUFFICES ASSUME NEW c \in A PROVE Member(c) \in K1
    OBVIOUS
  <2>1. c \in counted /\ c.key = k /\ t < c.at BY <1>2
  <2>2. c.at \in 0 .. MaxTime /\ time \in Skew .. MaxTime /\ Window["api"] \in Nat /\ Skew \in Nat
        /\ MaxTime \in Nat
    BY <2>1, GateConstants DEF GateInv, GateTypeOK, Counts
  <2>3. Fresh(c)
    <3> HIDE DEF A
    <3> QED BY <2>1, <2>2 DEF Fresh
  <2> QED BY <2>1, <2>3, KeptFresh
<1> HIDE DEF A, K1
<1>4. f \in Injection(A, K1)
  <2>1. \A c, d \in A : Member(c) = Member(d) => c = d
    BY <1>2 DEF Member, GateInv, Once
  <2> QED BY <1>3, <2>1 DEF Injection, IsInjective
<1>5. IsFiniteSet(A) /\ Cardinality(A) <= Cardinality(K1)
  BY <1>1, <1>4, FS_Injection
<1>6. Cardinality(A) \in Nat /\ Cardinality(K1) \in Nat /\ Limit[l] \in Nat
  BY <1>1, <1>5, FS_CardinalityType, GateConstants
<1>7. Cardinality(K1) < Limit[l] BY <1>6 DEF K1
<1> QED BY <1>5, <1>6, <1>7 DEF A

\* A limiter counts a request and lets it run on.
LEMMA AddGateInv ==
  ASSUME GateInv, NEW r \in Requests, NEW st \in LimiterStages, NEW free \in BOOLEAN,
         Waits(r, st), ~Full(r, st), Add(r, st, free), Passes(r),
         UNCHANGED <<time, wants, process>>, faults' \in 0 .. MaxFaults
  PROVE  GateInv'
<1> DEFINE s == wants[r]
           l == LimiterOf(st)
           k == Key(st, s)
           now == Now(r)
           new == [by |-> r, stage |-> stage[r], limiter |-> l, key |-> k, at |-> time,
                   free |-> free]
           member == [by |-> r, stage |-> stage[r], at |-> now]
           kept == Kept(k, now - Window[l])
<1>1. /\ s \in Shapes /\ stage[r] \in 1 .. Len(Stages[s.route]) /\ Stages[s.route][stage[r]] = st
      /\ stage[r] \in 1 .. 7
      /\ \A j \in 1 .. stage[r] : Refusal(Stages[s.route][j], s) = 0
      /\ l \in Limiters /\ k \in Keys /\ now \in 0 .. MaxTime
  BY AtLimiter
<1>2. PICK n \in stage[r] + 1 .. 8, x \in {0, 200, 400, 401, 403, 404} :
        /\ stage' = [stage EXCEPT ![r] = n] /\ status' = [status EXCEPT ![r] = x]
        /\ Halts(s, n, x)
  BY PassesOn
<1>3. /\ bucket' = [bucket EXCEPT ![k] = kept \cup {member}]
      /\ expires' = [expires EXCEPT ![k] = time + Window[l]]
      /\ counted' = counted \cup {new}
  BY DEF Add
<1>4. /\ time \in Skew .. MaxTime /\ time' = time /\ wants' = wants /\ process' = process
      /\ process[r] \in Processes
      /\ Skew \in Nat /\ MaxTime \in Nat /\ Window[l] \in Nat /\ Window["api"] \in Nat
      /\ Window["api"] <= Window[l] /\ kept \subseteq bucket[k] /\ bucket[k] \subseteq Members
  BY <1>1, GateConstants DEF GateInv, GateTypeOK, Kept
<1>5. ~(Cardinality(kept) >= Limit[l]) BY DEF Full
<1>6. member \in Members /\ new \in Counts BY <1>1, <1>4 DEF Members, Counts
<1>7. n \in 0 .. 8 /\ n > stage[r] /\ n # 0 BY <1>1, <1>2
<1> HIDE DEF s, l, k, now, kept
<1>8. GateTypeOK'
  <2>1. bucket' \in [Keys -> SUBSET Members] BY <1>1, <1>3, <1>4, <1>6 DEF GateInv, GateTypeOK
  <2>2. expires' \in [Keys -> Nat] BY <1>1, <1>3, <1>4 DEF GateInv, GateTypeOK
  <2>3. counted' \subseteq Counts BY <1>3, <1>6 DEF GateInv, GateTypeOK
  <2>4. stage' \in [Requests -> 0 .. 8] BY <1>2, <1>7 DEF GateInv, GateTypeOK
  <2>5. status' \in [Requests -> {0, 200, 400, 401, 403, 404, 429}]
    BY <1>2 DEF GateInv, GateTypeOK
  <2> QED BY <1>4, <2>1, <2>2, <2>3, <2>4, <2>5 DEF GateInv, GateTypeOK
<1>9. Reached'
  <2> SUFFICES ASSUME NEW q \in Requests, stage'[q] # 0
               PROVE  wants[q] \in Shapes /\ (status'[q] = 0 => Halts(wants[q], stage'[q], 0))
    BY <1>4 DEF Reached, Halts
  <2>1. CASE q # r
    BY <1>2, <2>1 DEF GateInv, GateTypeOK, Reached
  <2>2. CASE q = r
    BY <1>1, <1>2, <2>2 DEF GateInv, GateTypeOK, s
  <2> QED BY <2>1, <2>2
<1>10. Remembered'
  <2> SUFFICES ASSUME NEW c \in counted'
               PROVE  /\ c.stage < stage'[c.by] /\ c.at <= time
                      /\ Fresh(c) =>
                           /\ Member(c) \in bucket'[c.key]
                           /\ c.at + Window["api"] <= expires'[c.key]
    BY <1>4 DEF Remembered, Fresh, Member
  <2>1. CASE c \in counted
    <3>1. c.by \in Requests /\ c.key \in Keys /\ c.at \in Nat /\ c.stage \in Nat
      BY <2>1 DEF GateInv, GateTypeOK, Counts
    <3>2. c.stage < stage[c.by] /\ c.at <= time
      BY <2>1 DEF GateInv, Remembered
    <3>3. c.stage < stage'[c.by]
      <4>1. stage[c.by] \in 0 .. 8 BY <3>1 DEF GateInv, GateTypeOK
      <4>2. stage'[c.by] = stage[c.by] \/ (stage[c.by] = stage[r] /\ stage'[c.by] = n)
        BY <1>2, <3>1 DEF GateInv, GateTypeOK
      <4> QED BY <1>7, <3>1, <3>2, <4>1, <4>2
    <3>4. ASSUME Fresh(c)
          PROVE  Member(c) \in bucket'[c.key] /\ c.at + Window["api"] <= expires'[c.key]
      <4>1. Member(c) \in bucket[c.key] /\ c.at + Window["api"] <= expires[c.key]
        BY <2>1, <3>4 DEF GateInv, Remembered
      <4>2. CASE c.key # k BY <1>3, <3>1, <4>1, <4>2 DEF GateInv, GateTypeOK
      <4>3. CASE c.key = k
        <5>1. Member(c) \in kept BY <1>1, <2>1, <3>4, <4>3, KeptFresh DEF kept, now
        <5>2. bucket'[k] = kept \cup {member} /\ expires'[k] = time + Window[l]
          BY <1>1, <1>3 DEF GateInv, GateTypeOK
        <5>3. c.at + Window["api"] <= time + Window[l] BY <1>4, <3>1, <3>2
        <5> QED BY <4>3, <5>1, <5>2, <5>3
      <4> QED BY <4>2, <4>3
    <3> QED BY <3>2, <3>3, <3>4
  <2>2. CASE c = new
    <3>1. c.by = r /\ c.key = k /\ c.at = time /\ c.stage = stage[r] BY <2>2
    <3>2. stage'[r] = n BY <1>2 DEF GateInv, GateTypeOK
    <3>3. Member(c) = member BY <3>1 DEF Member, now, Now
    <3>4. bucket'[k] = kept \cup {member} /\ expires'[k] = time + Window[l]
      BY <1>1, <1>3 DEF GateInv, GateTypeOK
    <3> QED BY <1>1, <1>4, <1>7, <3>1, <3>2, <3>3, <3>4
  <2> QED BY <1>3, <2>1, <2>2
<1>11. \A c \in counted : c.by = r => c.stage < stage[r]
  BY DEF GateInv, Remembered
<1>12. \A c \in counted : ~(c.by = r /\ c.stage = stage[r])
  <2>1. stage[r] \in Nat BY <1>1
  <2> QED BY <1>11, <2>1
<1>13. Once'
  <2>1. new.by = r /\ new.stage = stage[r] OBVIOUS
  <2> HIDE DEF new
  <2> QED BY <1>3, <1>12, <2>1 DEF GateInv, Once
<1>14. Finite'
  <2> HIDE DEF new, member
  <2>1. IsFiniteSet(counted') BY <1>3, FS_AddElement DEF GateInv, Finite
  <2>2. IsFiniteSet(bucket[k]) BY <1>1 DEF GateInv, Finite
  <2>3. IsFiniteSet(kept \cup {member})
    <3>1. IsFiniteSet(kept) BY <1>4, <2>2, FS_Subset
    <3> QED BY <3>1, FS_AddElement
  <2>4. \A q \in Keys : bucket'[q] = bucket[q] \/ bucket'[q] = kept \cup {member}
    BY <1>3 DEF GateInv, GateTypeOK
  <2> QED BY <2>1, <2>3, <2>4 DEF GateInv, Finite
<1>15. Budget'
  <2> SUFFICES ASSUME NEW m \in Limiters, NEW q \in Keys, NEW t \in -1 .. MaxTime
               PROVE  Cardinality(Admitted(m, q, t, Window["api"] - Skew)') <= Limit[m]
    BY DEF Budget
  <2> DEFINE A == Admitted(m, q, t, Window["api"] - Skew)
             A1 == Admitted(m, q, t, Window["api"] - Skew)'
  <2>1. Cardinality(A) <= Limit[m] BY DEF GateInv, Budget
  <2>2. A1 = A \/ (A1 = A \cup {new} /\ m = l /\ q = k /\ time <= t + (Window["api"] - Skew))
    <3>1. A1 = {c \in counted' : c.limiter = m /\ c.key = q /\ ~c.free /\ t < c.at
                                   /\ c.at <= t + (Window["api"] - Skew)}
      BY DEF Admitted
    <3>2. A = {c \in counted : c.limiter = m /\ c.key = q /\ ~c.free /\ t < c.at
                                   /\ c.at <= t + (Window["api"] - Skew)}
      BY DEF Admitted
    <3>3. new.limiter = l /\ new.key = k /\ new.at = time OBVIOUS
    <3> HIDE DEF A, A1, new
    <3>4. CASE new \in A1
      <4>1. m = l /\ q = k /\ time <= t + (Window["api"] - Skew) BY <3>1, <3>3, <3>4
      <4>2. A1 = A \cup {new} BY <1>3, <3>1, <3>2, <3>4
      <4> QED BY <4>1, <4>2
    <3>5. CASE new \notin A1
      BY <1>3, <3>1, <3>2, <3>5
    <3> QED BY <3>4, <3>5
  <2>3. IsFiniteSet(A)
    <3>1. A \subseteq counted BY DEF Admitted
    <3> HIDE DEF A
    <3> QED BY <3>1, FS_Subset DEF GateInv, Finite
  <2>4. CASE A1 = A BY <2>1, <2>4
  <2>5. CASE A1 = A \cup {new} /\ m = l /\ q = k /\ time <= t + (Window["api"] - Skew)
    <3>1. Cardinality(A) < Limit[m]
      BY <1>1, <1>5, <2>5, RoomLeft DEF kept, now
    <3> HIDE DEF A, A1, new
    <3>2. Cardinality(A) \in Nat /\ Limit[m] \in Nat BY <2>3, FS_CardinalityType, GateConstants
    <3>3. Cardinality(A1) <= Cardinality(A) + 1
      <4>1. Cardinality(A1) = IF new \in A THEN Cardinality(A) ELSE Cardinality(A) + 1
        BY <2>3, <2>5, FS_AddElement
      <4> QED BY <3>2, <4>1
    <3>4. Cardinality(A1) \in Nat
      <4>1. IsFiniteSet(A1) BY <2>3, <2>5, FS_AddElement
      <4> QED BY <4>1, FS_CardinalityType
    <3>5. Cardinality(A1) <= Limit[m] BY <3>1, <3>2, <3>3, <3>4
    <3> QED BY <3>5 DEF A1
  <2> QED BY <2>2, <2>4, <2>5
<1>16. Spent'
  <2> SUFFICES ASSUME NEW c \in counted', c.limiter \in {"bid", "global"}
               PROVE  wants[c.by].role /\ wants[c.by].user # Nobody /\ c.key[2] = wants[c.by].user
    BY <1>4 DEF Spent
  <2>1. CASE c \in counted BY <2>1 DEF GateInv, Spent
  <2>2. CASE c = new
    <3>1. c.by = r /\ c.key = k /\ l \in {"bid", "global"} BY <2>2
    <3>2. st \in {"bid", "global"} BY <3>1 DEF l, LimiterOf
    <3>3. k[2] = s.user BY <3>2 DEF k, Key
    <3>4. PICK i, j \in 1 .. stage[r] - 1 :
            Stages[s.route][i] = "requireAuth" /\ Stages[s.route][j] = "requireRole"
      <4>1. s.route \in Routes BY <1>1, GateConstants
      <4>2. Stages[s.route][stage[r]] \in {"bid", "global"} BY <1>1, <3>2
      <4>3. \A n1 \in 1 .. Len(Stages[s.route]) :
              Stages[s.route][n1] \in {"bid", "global"} =>
                \E i, j \in 1 .. n1 - 1 :
                  Stages[s.route][i] = "requireAuth" /\ Stages[s.route][j] = "requireRole"
        BY <4>1, StagesShape
      <4> QED BY <1>1, <4>2, <4>3
    <3>5. i \in 1 .. stage[r] /\ j \in 1 .. stage[r] BY <1>1, <3>4
    <3>6. Refusal("requireAuth", s) = 0 /\ Refusal("requireRole", s) = 0
      BY <1>1, <3>4, <3>5
    <3>7. s.user # Nobody BY <3>6 DEF Refusal, Unauthorized, Forbidden, Malformed
    <3>8. s.role BY <1>1, <3>6, GateConstants DEF Refusal, Unauthorized, Forbidden, Malformed
    <3> QED BY <3>1, <3>3, <3>7, <3>8 DEF s
  <2> QED BY <1>3, <2>1, <2>2
<1> QED BY <1>8, <1>9, <1>10, <1>13, <1>14, <1>15, <1>16 DEF GateInv

\* Redis fails, or the limiter refuses: nothing is counted.
LEMMA QuietGateInv ==
  ASSUME GateInv, NEW r \in Requests, NEW st \in LimiterStages, Waits(r, st),
         UNCHANGED <<time, wants, process, expires, counted>>,
         \/ /\ Passes(r) /\ UNCHANGED bucket /\ faults' \in 0 .. MaxFaults
         \/ /\ Full(r, st) /\ UNCHANGED <<stage, faults>>
            /\ status' = [status EXCEPT ![r] = 429]
            /\ bucket' = [bucket EXCEPT
                 ![Key(st, wants[r])] = Kept(Key(st, wants[r]), Now(r) - Window[LimiterOf(st)])]
  PROVE  GateInv'
<1> DEFINE s == wants[r]
           l == LimiterOf(st)
           k == Key(st, s)
           kept == Kept(k, Now(r) - Window[l])
<1>1. s \in Shapes /\ l \in Limiters /\ k \in Keys /\ stage[r] \in 1 .. 7 BY AtLimiter
<1>2. kept \subseteq bucket[k] BY DEF Kept
<1>3. Once' /\ Spent' /\ Budget'
  <2>1. Once' BY DEF GateInv, Once
  <2>2. Spent' BY DEF GateInv, Spent
  <2>3. \A m, q, t, len : Admitted(m, q, t, len)' = Admitted(m, q, t, len) BY DEF Admitted
  <2>4. Budget' BY <2>3 DEF GateInv, Budget
  <2> QED BY <2>1, <2>2, <2>4
<1>4. CASE Passes(r) /\ UNCHANGED bucket /\ faults' \in 0 .. MaxFaults
  <2>1. PICK n \in stage[r] + 1 .. 8, x \in {0, 200, 400, 401, 403, 404} :
          /\ stage' = [stage EXCEPT ![r] = n] /\ status' = [status EXCEPT ![r] = x]
          /\ Halts(s, n, x)
    BY <1>4, PassesOn
  <2>2. n \in 0 .. 8 /\ n > stage[r] BY <1>1, <2>1
  <2> HIDE DEF s
  <2>3. GateTypeOK' BY <1>4, <2>1, <2>2 DEF GateInv, GateTypeOK
  <2>4. Reached'
    <3> SUFFICES ASSUME NEW q \in Requests, stage'[q] # 0
                 PROVE  wants[q] \in Shapes /\ (status'[q] = 0 => Halts(wants[q], stage'[q], 0))
      BY DEF Reached, Halts
    <3>1. CASE q # r BY <2>1, <3>1 DEF GateInv, GateTypeOK, Reached
    <3>2. CASE q = r BY <1>1, <2>1, <3>2 DEF GateInv, GateTypeOK, s
    <3> QED BY <3>1, <3>2
  <2>5. Remembered'
    <3> SUFFICES ASSUME NEW c \in counted PROVE c.stage < stage'[c.by]
      BY <1>4 DEF GateInv, Remembered, Fresh, Member
    <3>1. c.by \in Requests /\ c.stage \in Nat /\ c.stage < stage[c.by] /\ stage[c.by] \in 0 .. 8
      BY DEF GateInv, GateTypeOK, Counts, Remembered
    <3>2. stage'[c.by] = stage[c.by] \/ (stage[c.by] = stage[r] /\ stage'[c.by] = n)
      BY <2>1, <3>1 DEF GateInv, GateTypeOK
    <3> QED BY <2>2, <3>1, <3>2
  <2>6. Finite' BY <1>4 DEF GateInv, Finite
  <2> QED BY <1>3, <2>3, <2>4, <2>5, <2>6 DEF GateInv
<1>5. CASE /\ UNCHANGED <<stage, faults>> /\ status' = [status EXCEPT ![r] = 429]
           /\ bucket' = [bucket EXCEPT ![k] = kept]
  <2> HIDE DEF s, l, k, kept
  <2>1. GateTypeOK' BY <1>1, <1>2, <1>5 DEF GateInv, GateTypeOK
  <2>2. Reached' BY <1>5 DEF GateInv, GateTypeOK, Reached, Halts
  <2>3. Remembered'
    <3> SUFFICES ASSUME NEW c \in counted, Fresh(c) PROVE Member(c) \in bucket'[c.key]
      BY <1>5 DEF GateInv, Remembered, Fresh, Member
    <3>1. Member(c) \in bucket[c.key] /\ c.key \in Keys
      BY DEF GateInv, GateTypeOK, Counts, Remembered
    <3>2. c.key = k => Member(c) \in kept BY <1>1, KeptFresh DEF kept
    <3> QED BY <1>5, <3>1, <3>2 DEF GateInv, GateTypeOK
  <2>4. Finite'
    <3>1. IsFiniteSet(kept) BY <1>1, <1>2, FS_Subset DEF GateInv, Finite
    <3>2. \A q \in Keys : bucket'[q] = bucket[q] \/ bucket'[q] = kept
      BY <1>5 DEF GateInv, GateTypeOK
    <3> QED BY <3>1, <3>2 DEF GateInv, Finite
  <2> QED BY <1>3, <2>1, <2>2, <2>3, <2>4 DEF GateInv
<1> QED BY <1>4, <1>5

LEMMA ArriveGateInv ==
  ASSUME GateInv, NEW r \in Requests, NEW s \in Shapes, Arrive(r, s)
  PROVE  GateInv'
<1>1. /\ stage[r] = 0 /\ wants' = [wants EXCEPT ![r] = s]
      /\ UNCHANGED <<time, process, bucket, expires, counted, faults>>
  BY DEF Arrive, bucketVars
<1>2. PICK n \in 1 .. 8, x \in {0, 200, 400, 401, 403, 404} :
        /\ stage' = [stage EXCEPT ![r] = n] /\ status' = [status EXCEPT ![r] = x]
        /\ Halts(s, n, x)
  <2>1. Len(Stages[s.route]) \in 0 .. 7 BY StagesShape, GateConstants
  <2>2. 1 \in 1 .. Len(Stages[s.route]) + 1 /\ \A j \in 1 .. 1 - 1 : FALSE BY <2>1
  <2> QED BY <2>2, RunsHalts DEF Arrive
<1>3. GateTypeOK'
  <2>1. n \in 0 .. 8 BY <1>2
  <2> QED BY <1>1, <1>2, <2>1 DEF GateInv, GateTypeOK
<1>4. \A c \in counted : c.by \in Requests /\ c.by # r
  <2> SUFFICES ASSUME NEW c \in counted PROVE c.by \in Requests /\ c.by # r
    OBVIOUS
  <2>1. c.by \in Requests /\ c.stage \in Nat /\ c.stage < stage[c.by]
    BY DEF GateInv, GateTypeOK, Counts, Remembered
  <2> QED BY <1>1, <2>1
<1>5. Reached'
  <2> SUFFICES ASSUME NEW q \in Requests, stage'[q] # 0
               PROVE  wants'[q] \in Shapes /\ (status'[q] = 0 => Halts(wants'[q], stage'[q], 0))
    BY DEF Reached, Halts
  <2>1. CASE q # r BY <1>1, <1>2, <2>1 DEF GateInv, GateTypeOK, Reached
  <2>2. CASE q = r BY <1>1, <1>2, <2>2 DEF GateInv, GateTypeOK
  <2> QED BY <2>1, <2>2
<1>6. Remembered'
  BY <1>1, <1>2, <1>4 DEF GateInv, GateTypeOK, Remembered, Fresh, Member
<1>7. Once' /\ Finite' BY <1>1 DEF GateInv, Once, Finite
<1>8. Spent' BY <1>1, <1>4 DEF GateInv, GateTypeOK, Spent
<1>9. Budget'
  <2>1. \A m, q, t, len : Admitted(m, q, t, len)' = Admitted(m, q, t, len)
    BY <1>1 DEF Admitted
  <2> QED BY <2>1 DEF GateInv, Budget
<1> QED BY <1>3, <1>5, <1>6, <1>7, <1>8, <1>9 DEF GateInv

LEMMA TickGateInv == ASSUME GateInv, Tick PROVE GateInv'
<1>1. /\ time < MaxTime /\ time' = time + 1
      /\ UNCHANGED <<bucket, expires, counted, wants, process, stage, status, faults>>
  BY DEF Tick, bucketVars, requestVars
<1>2. time \in Skew .. MaxTime /\ Skew \in Nat /\ MaxTime \in Nat /\ Window["api"] \in Nat
  BY GateConstants DEF GateInv, GateTypeOK
<1>3. time' \in Skew .. MaxTime BY <1>1, <1>2
<1>4. GateTypeOK' BY <1>1, <1>3 DEF GateInv, GateTypeOK
<1>5. Reached' BY <1>1 DEF GateInv, Reached, Halts
<1>6. Remembered'
  <2> SUFFICES ASSUME NEW c \in counted
               PROVE  c.at <= time' /\ (Fresh(c)' => Fresh(c))
    BY <1>1 DEF GateInv, Remembered, Member
  <2>1. c.at \in Nat /\ c.at <= time BY DEF GateInv, GateTypeOK, Counts, Remembered
  <2> QED BY <1>1, <1>2, <2>1 DEF Fresh
<1>7. Once' /\ Finite' /\ Spent' BY <1>1 DEF GateInv, Once, Finite, Spent
<1>8. Budget'
  <2>1. \A m, q, t, len : Admitted(m, q, t, len)' = Admitted(m, q, t, len)
    BY <1>1 DEF Admitted
  <2> QED BY <2>1 DEF GateInv, Budget
<1> QED BY <1>4, <1>5, <1>6, <1>7, <1>8 DEF GateInv

LEMMA NextGateInv == GateInv /\ [GateNext]_gateVars => GateInv'
<1> SUFFICES ASSUME GateInv, [GateNext]_gateVars PROVE GateInv'
  OBVIOUS
<1>1. CASE UNCHANGED gateVars
  <2>1. UNCHANGED <<time, bucket, expires, counted, wants, process, stage, status, faults>>
    BY <1>1 DEF gateVars, requestVars
  <2>2. \A m, q, t, len : Admitted(m, q, t, len)' = Admitted(m, q, t, len)
    BY <2>1 DEF Admitted
  <2>3. Budget' BY <2>2 DEF GateInv, Budget
  <2>4. Remembered' BY <2>1 DEF GateInv, Remembered, Fresh, Member
  <2> QED
    BY <2>1, <2>3, <2>4 DEF GateInv, GateTypeOK, Reached, Halts, Once, Finite, Spent
<1>2. ASSUME NEW r \in Requests, NEW st \in LimiterStages, CheckLimit(r, st) PROVE GateInv'
  <2>1. faults' = faults /\ faults \in 0 .. MaxFaults /\ UNCHANGED <<time, wants, process>>
        /\ Waits(r, st)
    BY <1>2 DEF CheckLimit, requestVars, GateInv, GateTypeOK
  <2>2. CASE Full(r, st) BY <1>2, <2>1, <2>2, QuietGateInv DEF CheckLimit
  <2>3. CASE ~Full(r, st) BY <1>2, <2>1, <2>3, AddGateInv DEF CheckLimit
  <2> QED BY <2>2, <2>3
<1>3. ASSUME NEW r \in Requests, NEW st \in LimiterStages, FailOpen(r, st) PROVE GateInv'
  <2>1. faults' \in 0 .. MaxFaults /\ UNCHANGED <<time, wants, process>>
        /\ Waits(r, st) /\ Passes(r)
    <3>1. faults < MaxFaults /\ faults' = faults + 1 /\ faults \in 0 .. MaxFaults /\ MaxFaults \in Nat
      BY <1>3, GateConstants DEF FailOpen, GateInv, GateTypeOK
    <3> QED BY <1>3, <3>1 DEF FailOpen, requestVars
  <2>2. CASE UNCHANGED bucketVars BY <2>1, <2>2, QuietGateInv DEF bucketVars
  <2>3. CASE ~Full(r, st) /\ Add(r, st, TRUE) BY <2>1, <2>3, AddGateInv
  <2> QED BY <1>3, <2>2, <2>3 DEF FailOpen
<1>4. "global" \in LimiterStages BY DEF LimiterStages, Limiters
<1> QED
  BY <1>1, <1>2, <1>3, <1>4, TickGateInv, ArriveGateInv
  DEF GateNext, rateLimiter, globalUserBidRateLimit

\* The inductive invariant, for any limits, windows and clocks.
THEOREM GateInvariant == GateSpec => []GateInv
BY InitGateInv, NextGateInv, PTL DEF GateSpec

\* rateLimiter.ts and the routers: no window holds more than the limit, although limiters
\* of different windows share keys and clocks differ, and only a bidder's own requests
\* use up her bids.
THEOREM LimitsHoldAlways == GateSpec => []LimitsHold
<1>1. GateInv => LimitsHold
  BY DEF GateInv, Budget, Spent, LimitsHold
<1> QED BY <1>1, GateInvariant, PTL

-----------------------------------------------------------------------------
(* Both.                                                                    *)

\* The state of sessions, tokens, limiters and requests is well formed at any time.
THEOREM FrontDoorTypes == FrontDoorSpec => []FrontDoorTypeOK
<1>1. SInv /\ GateInv => FrontDoorTypeOK
  BY DEF SInv, GateInv, FrontDoorTypeOK
<1> QED BY <1>1, SessionsInvariant, GateInvariant, PTL DEF FrontDoorSpec
=============================================================================
