---------------------------- MODULE RequestGate ----------------------------
(***************************************************************************)
(* What a request passes before its handler: the middleware that app.ts and *)
(* the routers line up, with the sliding windows of                        *)
(* middleware/rateLimiter.ts in Redis.  Each limiter is one Lua script and  *)
(* one await, so requests interleave between the stages.                   *)
(*                                                                         *)
(* Time is discrete.  A limiter uses Date.now() of its API process; the     *)
(* clocks of the processes lag behind the fastest one.                     *)
(***************************************************************************)
EXTENDS Integers, Sequences, FiniteSets

CONSTANTS
  Requests,  \* requests to the API
  Shapes,    \* what a request may look like
  Nobody,    \* the user of a request without a valid access token
  Limit,     \* requests per window of each limiter
  Window,    \* length of each limiter's window
  Processes, \* API processes
  Lag,       \* how far the clock of each process lags behind
  Skew,      \* the most it does
  MaxTime,   \* bound: the end of time
  MaxFaults  \* bound: how often Redis fails

Limiters == {"api", "auth", "bid", "global"}
Routes == {"login", "refresh", "browse", "analysis", "bid", "my", "open", "missing"}

ASSUME GateAssumption ==
  /\ \A s \in Shapes : s.route \in Routes /\ s.role \in BOOLEAN /\ s.valid \in BOOLEAN
  /\ Limit \in [Limiters -> Nat \ {0}] /\ Window \in [Limiters -> Nat \ {0}]
  /\ \A l \in Limiters : Window["api"] <= Window[l]
  /\ Skew \in Nat /\ MaxTime \in Nat /\ Skew <= MaxTime /\ MaxFaults \in Nat
  /\ Lag \in [Processes -> 0 .. Skew]

VARIABLES
  time,      \* the clock of the API process that is ahead
  bucket,    \* the sorted set of each key
  expires,   \* when Redis drops each key
  wants,     \* the shape of each request
  process,   \* the process that takes it
  stage,     \* the stage each request has reached, 0 before it is sent
  status,    \* its HTTP status, 0 before it is answered
  faults,    \* failures of Redis so far
  counted    \* history: what the limiters counted, and when

requestVars == <<wants, process>>
gateVars == <<time, bucket, expires, requestVars, stage, status, faults, counted>>

\* What app.ts mounts in front of the routers.  /auctions/:id/analysis is mounted
\* behind /auctions and passes the limiter of both ("again").
Mounted ==
  [ login    |-> <<"api">>,
    refresh  |-> <<"api">>,
    browse   |-> <<"api">>,
    analysis |-> <<"api", "again">>,
    bid      |-> <<"api">>,
    my       |-> <<"api", "requireAuth">>,
    open     |-> <<>>,
    missing  |-> <<"notFound">> ]

\* The routers: what a route lines up in front of its handler.
authRouter == [login |-> <<"auth", "validate">>, refresh |-> <<"validate">>]

auctionRouter ==
  [browse |-> <<"validate">>,
   bid    |-> <<"requireAuth", "requireRole", "global", "bid", "validate">>]

analysisRouter == [analysis |-> <<"requireAuth">>]

bidsRouter == [my |-> <<"requireAuth", "requireRole", "validate">>]

Routers(route) ==
  CASE route \in DOMAIN authRouter -> authRouter[route]
    [] route \in DOMAIN auctionRouter -> auctionRouter[route]
    [] route \in DOMAIN analysisRouter -> analysisRouter[route]
    [] route \in DOMAIN bidsRouter -> bidsRouter[route]
    [] OTHER -> <<>>

\* The middleware of each route, in the order it runs.
Stages == [route \in Routes |-> Mounted[route] \o Routers(route)]

LimiterOf(st) == IF st = "again" THEN "api" ELSE st

\* req.path is relative to the mount point, and analysis reaches its own router
\* as "/", like the listing of auctions.
Path(s) == IF s.route = "browse" THEN <<"/">> ELSE <<s.route, s.auction>>

\* The key of a limiter: path and user, or path and address where no access token
\* was checked yet; the global limit of bids has no path.
Key(st, s) ==
  CASE st \in {"api", "auth"} -> <<Path(s), s.from>>
    [] st = "again"           -> <<<<"/">>, s.from>>
    [] st = "bid"             -> <<Path(s), s.user>>
    [] st = "global"          -> <<<<"global_bids">>, s.user>>

LimiterStages == Limiters \cup {"again"}
KeysOf(s) == {Key(Stages[s.route][i], s) :
                i \in {j \in DOMAIN Stages[s.route] : Stages[s.route][j] \in LimiterStages}}
Keys == UNION {KeysOf(s) : s \in Shapes}

Members == [by : Requests, stage : Nat, at : 0 .. MaxTime]
Counts == [by : Requests, stage : Nat, limiter : Limiters, key : Keys, at : 0 .. MaxTime,
           free : BOOLEAN]
NoShape == [route |-> "open", user |-> Nobody]

GateTypeOK ==
  /\ time \in Skew .. MaxTime
  /\ bucket \in [Keys -> SUBSET Members]
  /\ expires \in [Keys -> Nat]
  /\ wants \in [Requests -> Shapes \cup {NoShape}]
  /\ process \in [Requests -> Processes]
  /\ stage \in [Requests -> 0 .. 8]
  /\ status \in [Requests -> {0, 200, 400, 401, 403, 404, 429}]
  /\ faults \in 0 .. MaxFaults
  /\ counted \subseteq Counts

GateInit ==
  /\ time = Skew
  /\ bucket = [k \in Keys |-> {}]
  /\ expires = [k \in Keys |-> 0]
  /\ wants = [r \in Requests |-> NoShape]
  /\ process \in [Requests -> Processes]
  /\ stage = [r \in Requests |-> 0]
  /\ status = [r \in Requests |-> 0]
  /\ faults = 0
  /\ counted = {}

-----------------------------------------------------------------------------
At(r) == Stages[wants[r].route][stage[r]]
Waits(r, st) == status[r] = 0 /\ stage[r] # 0 /\ At(r) = st

\* The stages that await nothing and refuse.
Unauthorized(st, s) == st = "requireAuth" /\ s.user = Nobody
Forbidden(st, s) == st = "requireRole" /\ ~s.role
Malformed(st, s) == st = "validate" /\ ~s.valid

\* errorHandler: the status with which such a stage ends a request, or 0.
Refusal(st, s) ==
  CASE Unauthorized(st, s) -> 401
    [] Forbidden(st, s) -> 403
    [] Malformed(st, s) -> 400
    [] st = "notFound" -> 404
    [] OTHER -> 0

\* From stage i on, a request runs to the first limiter, to the first stage that
\* refuses it, or to its handler, without an await between.
Runs(r, s, i) ==
  LET stops == {j \in i .. Len(Stages[s.route]) :
                  \/ Stages[s.route][j] \in LimiterStages
                  \/ Refusal(Stages[s.route][j], s) # 0}
      stop == CHOOSE j \in stops : \A k \in stops : j <= k
  IN IF stops = {}
     THEN stage' = [stage EXCEPT ![r] = 8] /\ status' = [status EXCEPT ![r] = 200]
     ELSE /\ stage' = [stage EXCEPT ![r] = stop]
          /\ status' = [status EXCEPT ![r] = Refusal(Stages[s.route][stop], s)]
Passes(r) == Runs(r, wants[r], stage[r] + 1)

bucketVars == <<bucket, expires, counted>>

Arrive(r, s) ==
  /\ stage[r] = 0
  /\ wants' = [wants EXCEPT ![r] = s]
  /\ Runs(r, s, 1)
  /\ UNCHANGED <<time, process, bucketVars, faults>>

\* Date.now() in the process that has the request.
Now(r) == time - Lag[process[r]]

\* Mutant: the script drops one tick too much.
KeptShort(k, floor) ==
  IF time < expires[k] THEN {m \in bucket[k] : m.at > floor + 1} ELSE {}

\* ZREMRANGEBYSCORE on what Redis still keeps of the key.
Kept(k, floor) == IF time < expires[k] THEN {m \in bucket[k] : m.at > floor} ELSE {}

\* ZADD and PEXPIRE.
Add(r, st, free) ==
  LET l == LimiterOf(st)
      k == Key(st, wants[r])
      now == Now(r) IN
  /\ bucket' = [bucket EXCEPT
       ![k] = Kept(k, now - Window[l]) \cup {[by |-> r, stage |-> stage[r], at |-> now]}]
  /\ expires' = [expires EXCEPT ![k] = time + Window[l]]
  /\ counted' = counted \cup {[by |-> r, stage |-> stage[r], limiter |-> l, key |-> k,
                               at |-> time, free |-> free]}

\* The script counts the request or refuses it.
Full(r, st) == Cardinality(Kept(Key(st, wants[r]), Now(r) - Window[LimiterOf(st)]))
                 >= Limit[LimiterOf(st)]

CheckLimit(r, st) ==
  /\ Waits(r, st)
  /\ IF Full(r, st)
     THEN /\ bucket' = [bucket EXCEPT
               ![Key(st, wants[r])] = Kept(Key(st, wants[r]), Now(r) - Window[LimiterOf(st)])]
          /\ status' = [status EXCEPT ![r] = 429]
          /\ UNCHANGED <<expires, counted, stage>>
     ELSE Add(r, st, FALSE) /\ Passes(r)
  /\ UNCHANGED <<time, requestVars, faults>>

\* Redis fails, before or after the script ran: the limiter lets the request pass.
FailOpen(r, st) ==
  /\ faults < MaxFaults /\ Waits(r, st)
  /\ \/ UNCHANGED bucketVars
     \/ ~Full(r, st) /\ Add(r, st, TRUE)
  /\ Passes(r)
  /\ faults' = faults + 1
  /\ UNCHANGED <<time, requestVars>>

\* The two kinds of limiter: one for each path, and one for all bids of a user.
rateLimiter(r, st) == CheckLimit(r, st) \/ FailOpen(r, st)
globalUserBidRateLimit(r) == CheckLimit(r, "global") \/ FailOpen(r, "global")

Tick ==
  /\ time < MaxTime
  /\ time' = time + 1
  /\ UNCHANGED <<bucketVars, requestVars, stage, status, faults>>

GateNext ==
  \/ Tick
  \/ \E r \in Requests :
       \/ \E s \in Shapes : Arrive(r, s)
       \/ \E st \in LimiterStages \ {"global"} : rateLimiter(r, st)
       \/ globalUserBidRateLimit(r)

GateSpec == GateInit /\ [][GateNext]_gateVars

-----------------------------------------------------------------------------
(* What the gate promises.                                                  *)

\* What limiter l let pass on key k, not because Redis failed, in the time after t.
Admitted(l, k, t, len) ==
  {c \in counted : c.limiter = l /\ c.key = k /\ ~c.free /\ t < c.at /\ c.at <= t + len}

\* No window holds more requests of a key than the limit, wherever it starts, as
\* far as the clocks agree.  The window that counts is the one of apiRateLimit: it
\* shares the key of /login and /register with authRateLimit, and its script
\* drops what the longer window would still have to count.
\* And only the user's own requests, with a valid access token and a role that may
\* bid, use up the user's bids: the budget is charged behind requireRole.
LimitsHold ==
  /\ \A l \in Limiters, k \in Keys, t \in -1 .. MaxTime :
       Cardinality(Admitted(l, k, t, Window["api"] - Skew)) <= Limit[l]
  /\ \A c \in counted : c.limiter \in {"bid", "global"} =>
       /\ wants[c.by].role
       /\ wants[c.by].user # Nobody
       /\ c.key[2] = wants[c.by].user
=============================================================================
