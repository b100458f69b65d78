---------------------------- MODULE Connections ----------------------------
(***************************************************************************)
(* What the requests of one API process share and wait for: the pool of    *)
(* db/index.ts, the row lock of an auction, the Redis client of            *)
(* lib/redis.ts, which gives up at once and in the end for good, and the   *)
(* clients of the queues, which never give up.                             *)
(*                                                                         *)
(* Three kinds of request need them in different ways: a bid, as           *)
(* placeBid's order of statements has it, GET /readyz and GET              *)
(* /api/v1/metrics.  What a bid reads and writes is BidService's business. *)
(***************************************************************************)
EXTENDS Naturals, FiniteSets, Sequences, SequencesExt

CONSTANTS
  Callers,            \* requests under way at once
  PoolMax,            \* DB_POOL_MAX
  RetryLimit,         \* 10: the last reconnection retryStrategy allows
  RetriesPerRequest,  \* 3: maxRetriesPerRequest
  MaxOutages,         \* bound: how often PostgreSQL or Redis goes away
  Nobody              \* holds a free row lock

ASSUME ConnectionsAssumption ==
  /\ Nobody \notin Callers /\ PoolMax \in Nat \ {0}
  /\ RetryLimit \in Nat \ {0} /\ RetriesPerRequest \in Nat /\ MaxOutages \in Nat

VARIABLES
  step,      \* what each request does
  waiting,   \* the pool's queue of requests without a connection
  lent,      \* requests with a connection
  broken,    \* those whose connection PostgreSQL has closed
  rowLock,   \* who holds the row of the auction
  database,  \* PostgreSQL answers
  redis,     \* Redis answers
  client,    \* the Redis client
  tries,     \* its reconnections since it was ready
  outages,   \* outages so far
  pg,        \* what a check or report has of PostgreSQL
  ping,      \* what it has of the Redis client
  counts     \* what it has of the queues

poolVars == <<waiting, lent, broken>>
faultVars == <<database, redis, outages>>
redisVars == <<client, tries>>
partVars == <<pg, ping, counts>>
connectionVars == <<step, poolVars, rowLock, faultVars, redisVars, partVars>>

InTransaction == {"tx", "held"}
Part == {"none", "sent", "ok", "error"}

PoolTypeOK ==
  /\ step \in [Callers -> InTransaction \cup {"idle", "email", "tell", "audit", "ready", "metrics"}]
  /\ lent \subseteq Callers /\ broken \subseteq lent /\ Cardinality(lent) <= PoolMax
  /\ ToSet(waiting) \subseteq Callers /\ IsInjective(waiting)
  /\ rowLock \in Callers \cup {Nobody}
  /\ database \in BOOLEAN /\ redis \in BOOLEAN /\ outages \in 0 .. MaxOutages
  /\ client \in {"ready", "away", "end"} /\ tries \in 0 .. RetryLimit + 1
  /\ pg \in [Callers -> Part] /\ ping \in [Callers -> Part] /\ counts \in [Callers -> Part]

PoolInit ==
  /\ step = [c \in Callers |-> "idle"]
  /\ waiting = <<>> /\ lent = {} /\ broken = {} /\ rowLock = Nobody
  /\ database = TRUE /\ redis = TRUE /\ outages = 0
  /\ client = "ready" /\ tries = 0
  /\ pg = [c \in Callers |-> "none"]
  /\ ping = [c \in Callers |-> "none"]
  /\ counts = [c \in Callers |-> "none"]

-----------------------------------------------------------------------------
(* The pool.                                                                *)

Goes(c, s) == step' = [step EXCEPT ![c] = s]

Asks(c) == waiting' = Append(waiting, c)
Releases(c) == lent' = lent \ {c} /\ broken' = broken \ {c}

\* A request whose statement was answered; what is left of it needs no connection.
Answered(c) ==
  /\ Goes(c, CASE step[c] = "email" -> "tell" [] step[c] = "audit" -> "idle"
               [] step[c] = "ready" -> "ready")
  /\ pg' = IF step[c] = "ready" THEN [pg EXCEPT ![c] = "ok"] ELSE pg

\* A request that got no connection or lost it; queue is the pool's without it.
\* A bid that fails in its transaction is audited, with another connection.
Failed(c, queue) ==
  /\ step[c] \in InTransaction => Goes(c, "audit") /\ waiting' = Append(queue, c)
  /\ step[c] \in {"email", "audit"} => Goes(c, "idle") /\ waiting' = queue
  /\ step[c] = "ready" => step' = step /\ waiting' = queue
  /\ pg' = IF step[c] = "ready" THEN [pg EXCEPT ![c] = "error"] ELSE pg

HasRoom == Cardinality(lent) < PoolMax

\* The pool serves the first in its queue: it has or opens a connection, or
\* PostgreSQL refuses one.
Serve ==
  /\ waiting # <<>> /\ HasRoom
  /\ \/ /\ database
        /\ lent' = lent \cup {Head(waiting)}
        /\ waiting' = Tail(waiting)
        /\ UNCHANGED <<step, broken, partVars>>
     \/ /\ ~database
        /\ Failed(Head(waiting), Tail(waiting))
        /\ UNCHANGED <<lent, broken, ping, counts>>
  /\ UNCHANGED <<rowLock, faultVars, redisVars>>

\* connectionTimeoutMillis: the pool takes the request out of its queue.
TimesOut(c) ==
  /\ \E i \in DOMAIN waiting : waiting[i] = c /\ Failed(c, RemoveAt(waiting, i))
  /\ UNCHANGED <<lent, broken, rowLock, faultVars, redisVars, ping, counts>>

\* A statement on a connection that is gone: the pool takes it back, and out.
StatementFails(c) ==
  /\ c \in broken
  /\ Failed(c, waiting)
  /\ Releases(c)
  /\ UNCHANGED <<rowLock, faultVars, redisVars, ping, counts>>

\* A statement outside of a transaction: checkDatabaseConnection, the audit row
\* of a refused bid, the e-mail address of a displaced bidder.
Statement(c) ==
  /\ c \in lent \ broken /\ step[c] \in {"email", "audit", "ready"}
  /\ Answered(c)
  /\ Releases(c)
  /\ UNCHANGED <<waiting, rowLock, faultVars, redisVars, ping, counts>>

-----------------------------------------------------------------------------
(* A bid.                                                                   *)

\* Its transaction asks for a connection; what comes before it, with one of its own
\* for each statement, is left out.
PlaceBid(c) ==
  /\ step[c] = "idle"
  /\ Goes(c, "tx")
  /\ Asks(c)
  /\ UNCHANGED <<lent, broken, rowLock, faultVars, redisVars, partVars>>

\* SELECT ... FOR UPDATE, which waits as long as another has the row.
LockRow(c) ==
  /\ c \in lent \ broken /\ step[c] = "tx" /\ rowLock = Nobody
  /\ Goes(c, "held")
  /\ rowLock' = c
  /\ UNCHANGED <<poolVars, faultVars, redisVars, partVars>>

\* Mutant: a refusal is audited before the rollback, through the pool.
EndTransactionAudited(c) ==
  /\ c \in lent \ broken /\ step[c] = "held"
  /\ \/ Goes(c, "audit") /\ Asks(c) /\ UNCHANGED <<lent, broken, rowLock>>
     \/ Goes(c, "idle") /\ Releases(c) /\ rowLock' = Nobody /\ UNCHANGED waiting
  /\ UNCHANGED <<faultVars, redisVars, partVars>>

\* The transaction ends and gives up row and connection.  A committed bid may
\* have displaced another bidder, a refused one is audited.
EndTransaction(c) ==
  /\ c \in lent \ broken /\ step[c] = "held"
  /\ \/ \E s \in {"email", "audit"} : Goes(c, s) /\ Asks(c)
     \/ Goes(c, "idle") /\ UNCHANGED waiting
  /\ Releases(c)
  /\ rowLock' = Nobody
  /\ UNCHANGED <<faultVars, redisVars, partVars>>

\* notificationQueue.add: its client keeps the command until Redis is there.
AddOutbidJob(c) ==
  /\ step[c] = "tell" /\ redis
  /\ Goes(c, "idle")
  /\ UNCHANGED <<poolVars, rowLock, faultVars, redisVars, partVars>>

-----------------------------------------------------------------------------
(* Checks and reports.                                                      *)

\* A Redis command that fails: getSystemMetrics catches it and goes on with ''.
NoReply(c) == IF step'[c] = "metrics" THEN "ok" ELSE "error"

\* Mutant: enableOfflineQueue, without a limit of retries.
CommandQueued(c) == "sent"

\* A command on the Redis client: without an offline queue it fails at once
\* unless the client is ready.
Command(c) == IF client = "ready" THEN "sent" ELSE NoReply(c)

\* GET /readyz.
Readyz(c) ==
  /\ step[c] = "idle"
  /\ Goes(c, "ready")
  /\ Asks(c)
  /\ pg' = [pg EXCEPT ![c] = "sent"]
  /\ ping' = [ping EXCEPT ![c] = Command(c)]
  /\ UNCHANGED <<lent, broken, rowLock, faultVars, redisVars, counts>>

\* GET /api/v1/metrics: all parts begin together.  The query goes through a pool
\* of its own, where nothing waits for locks.
Metrics(c) ==
  /\ step[c] = "idle"
  /\ Goes(c, "metrics")
  /\ pg' = [pg EXCEPT ![c] = IF database THEN "ok" ELSE "error"]
  /\ ping' = [ping EXCEPT ![c] = Command(c)]
  /\ counts' = [counts EXCEPT ![c] = "sent"]
  /\ UNCHANGED <<poolVars, rowLock, faultVars, redisVars>>

\* safeQueueCounts: the clients of the queues try for ever.
CountsArrive(c) ==
  /\ counts[c] = "sent" /\ redis
  /\ counts' = [counts EXCEPT ![c] = "ok"]
  /\ UNCHANGED <<step, poolVars, rowLock, faultVars, redisVars, pg, ping>>

Pong(c) ==
  /\ ping[c] = "sent" /\ client = "ready"
  /\ ping' = [ping EXCEPT ![c] = "ok"]
  /\ UNCHANGED <<step, poolVars, rowLock, faultVars, redisVars, pg, counts>>

\* Promise.allSettled for the one, Promise.all for the other, which fails with its
\* first error.
Complete(c) ==
  \/ step[c] = "ready" /\ pg[c] # "sent" /\ ping[c] # "sent"
  \/ step[c] = "metrics" /\ pg[c] = "error"
  \/ step[c] = "metrics" /\ pg[c] = "ok" /\ ping[c] # "sent" /\ counts[c] # "sent"

Answer(c) ==
  /\ Complete(c)
  /\ Goes(c, "idle")
  /\ pg' = [pg EXCEPT ![c] = "none"]
  /\ ping' = [ping EXCEPT ![c] = "none"]
  /\ counts' = [counts EXCEPT ![c] = "none"]
  /\ UNCHANGED <<poolVars, rowLock, faultVars, redisVars>>

-----------------------------------------------------------------------------
(* Outages and the Redis client.                                            *)

\* PostgreSQL goes away and closes its sessions, which frees their locks.
DatabaseGoes ==
  /\ database /\ outages < MaxOutages
  /\ database' = FALSE /\ outages' = outages + 1
  /\ broken' = lent /\ rowLock' = Nobody
  /\ UNCHANGED <<step, waiting, lent, redis, redisVars, partVars>>

\* Redis or the connection to it goes away.
RedisGoes ==
  /\ redis /\ outages < MaxOutages
  /\ redis' = FALSE /\ outages' = outages + 1
  /\ IF client = "ready" THEN client' = "away" /\ tries' = 1 ELSE UNCHANGED redisVars
  /\ UNCHANGED <<step, poolVars, rowLock, database, partVars>>

ComesBack ==
  /\ \/ ~database /\ database' = TRUE /\ UNCHANGED redis
     \/ ~redis /\ redis' = TRUE /\ UNCHANGED database
  /\ UNCHANGED <<step, poolVars, rowLock, outages, redisVars, partVars>>

\* The commands that were sent before the connection broke fail after
\* RetriesPerRequest reconnections, or when there will be no other.
Flushed(n) == n > RetryLimit \/ n % (RetriesPerRequest + 1) = 0

\* The client reconnects, and sends such commands again, or retryStrategy is asked
\* for another time; after RetryLimit the client has ended for good.
Reconnect ==
  /\ client = "away"
  /\ step' = step
  /\ IF redis THEN client' = "ready" /\ tries' = 0 /\ UNCHANGED ping
     ELSE /\ tries' = tries + 1
          /\ client' = IF tries + 1 > RetryLimit THEN "end" ELSE "away"
          /\ ping' = [c \in Callers |->
               IF ping[c] = "sent" /\ Flushed(tries + 1) THEN NoReply(c) ELSE ping[c]]
  /\ UNCHANGED << poolVars, rowLock, faultVars, pg, counts>>

\* What moves a request on without a choice of its own or of the environment.
Proceeds(c) ==
  \/ EndTransaction(c) \/ Statement(c) \/ StatementFails(c) \/ TimesOut(c)
  \/ CountsArrive(c) \/ Pong(c) \/ Answer(c)

PoolNext ==
  \/ \E c \in Callers :
       \/ PlaceBid(c) \/ LockRow(c) \/ AddOutbidJob(c) \/ Readyz(c) \/ Metrics(c)
       \/ Proceeds(c)
  \/ Serve \/ DatabaseGoes \/ RedisGoes \/ ComesBack \/ Reconnect

\* Timers fire, PostgreSQL and a Redis that is there answer, and a free row goes to
\* one of those who wait for it.  Nothing says that an outage ends, or that a
\* request comes.
PoolFairness ==
  /\ WF_connectionVars(Serve) /\ WF_connectionVars(Reconnect)
  /\ WF_connectionVars(\E c \in Callers : LockRow(c))
  /\ \A c \in Callers : WF_connectionVars(Proceeds(c))

PoolSpec == PoolInit /\ [][PoolNext]_connectionVars

-----------------------------------------------------------------------------
(* What keeps a process answering.                                          *)

\* No request keeps a connection or the row of an auction while it waits for
\* another connection or for Redis: bids that pile up behind a row use the pool up,
\* and may not need it to get out of it.
NoHoldAndWait ==
  \A c \in Callers :
    c \in ToSet(waiting) \/ step[c] = "tell" => c \notin lent /\ rowLock # c

\* A readiness check is answered whatever is away and however busy the pool is;
\* a report of the metrics waits for Redis at most.
ChecksAreAnswered ==
  \A c \in Callers :
    step[c] \in {"ready", "metrics"} ~> step[c] = "idle" \/ (step[c] = "metrics" /\ ~redis)
=============================================================================
