--------------------------- MODULE EmbeddingSearch ---------------------------
(***************************************************************************)
(* How an auction becomes findable: createAuction queues a job, fire and   *)
(* forget, the embedding worker stores a vector, and GET /search looks for *)
(* vectors when there is an OpenAI key and for words when there is none.   *)
(***************************************************************************)
EXTENDS Naturals, FiniteSets

CONSTANTS
  Auctions,   \* the auctions there may be
  Attempts,   \* attempts of a job: defaultJobOptions
  MaxStalls,  \* external: stalls BullMQ forgives a job
  MaxCrashes  \* bound: crashes of API and worker processes

ASSUME SearchAssumption ==
  /\ IsFiniteSet(Auctions) /\ Attempts \in Nat \ {0}
  /\ {MaxStalls, MaxCrashes} \subseteq Nat

VARIABLES
  hasRealEmbeddings,  \* the deployment has an OpenAI key
  status,   \* auctions.status
  vector,   \* auctions.embedding is not NULL
  job,      \* the embedding job of each auction
  tries,    \* attempts it has failed
  stalls,   \* how often it stalled
  crashes,  \* crashes so far
  search,   \* the search under way
  found     \* what it answered with 200

jobVars == <<job, tries, stalls>>
searchVars == <<search, found>>
vars == <<hasRealEmbeddings, status, vector, jobVars, crashes, searchVars>>

TypeOK ==
  /\ hasRealEmbeddings \in BOOLEAN
  /\ status \in [Auctions -> {"none", "draft", "active", "ended"}]
  /\ vector \in [Auctions -> BOOLEAN]
  /\ job \in [Auctions -> {"none", "offline", "waiting", "active", "done", "failed", "lost"}]
  /\ tries \in [Auctions -> 0 .. Attempts] /\ stalls \in [Auctions -> 0 .. MaxStalls + 1]
  /\ crashes \in 0 .. MaxCrashes
  /\ search \in {"none", "embed", "query", "200", "400", "500"}
  /\ found \subseteq Auctions

Init ==
  /\ hasRealEmbeddings \in BOOLEAN
  /\ status = [a \in Auctions |-> "none"] /\ vector = [a \in Auctions |-> FALSE]
  /\ job = [a \in Auctions |-> "none"]
  /\ tries = [a \in Auctions |-> 0] /\ stalls = [a \in Auctions |-> 0] /\ crashes = 0
  /\ search = "none" /\ found = {}

-----------------------------------------------------------------------------
(* Auctions and their jobs.                                                 *)

\* The row is inserted; safeQueueAdd sends the job, which waits in the process
\* while Redis is away, also after the timeout that logs it as failed, or is
\* refused and dropped.
CreateAuction(a) ==
  /\ status[a] = "none"
  /\ status' = [status EXCEPT ![a] = "draft"]
  /\ \E j \in {"waiting", "offline", "lost"} : job' = [job EXCEPT ![a] = j]
  /\ UNCHANGED <<hasRealEmbeddings, vector, tries, stalls, crashes, searchVars>>

Activate(a) ==
  /\ status[a] = "draft"
  /\ status' = [status EXCEPT ![a] = "active"]
  /\ UNCHANGED <<hasRealEmbeddings, vector, jobVars, crashes, searchVars>>

EndAuction(a) ==
  /\ status[a] = "active"
  /\ status' = [status EXCEPT ![a] = "ended"]
  /\ UNCHANGED <<hasRealEmbeddings, vector, jobVars, crashes, searchVars>>

\* Redis is back, however late.
Reconnect(a) ==
  /\ job[a] = "offline"
  /\ job' = [job EXCEPT ![a] = "waiting"]
  /\ UNCHANGED <<hasRealEmbeddings, status, vector, tries, stalls, crashes, searchVars>>

TakeJob(a) ==
  /\ job[a] = "waiting"
  /\ job' = [job EXCEPT ![a] = "active"]
  /\ UNCHANGED <<hasRealEmbeddings, status, vector, tries, stalls, crashes, searchVars>>

\* Mutant: the UPDATE is not awaited, and fails.
ReportAtOnce(a) ==
  /\ job[a] = "active"
  /\ vector' \in {vector, [vector EXCEPT ![a] = TRUE]}
  /\ job' = [job EXCEPT ![a] = "done"]
  /\ UNCHANGED <<hasRealEmbeddings, status, tries, stalls, crashes, searchVars>>

\* embedText and the UPDATE; the worker may die before BullMQ hears of it.
StoreEmbedding(a) ==
  /\ job[a] = "active"
  /\ vector' = [vector EXCEPT ![a] = TRUE]
  /\ \/ job' = [job EXCEPT ![a] = "done"]
     \/ UNCHANGED job /\ ~vector[a]
  /\ UNCHANGED <<hasRealEmbeddings, status, tries, stalls, crashes, searchVars>>

\* Mutants: a failed job is tried again and again; a count that goes on.
FailsForNothing(a) ==
  /\ job[a] = "active"
  /\ job' = [job EXCEPT ![a] = "waiting"]
  /\ UNCHANGED <<hasRealEmbeddings, status, vector, tries, stalls, crashes, searchVars>>

FailsOnceMore(a) ==
  /\ job[a] = "active"
  /\ tries' = [tries EXCEPT ![a] = @ + 1]
  /\ job' = [job EXCEPT ![a] = IF tries[a] <= Attempts THEN "waiting" ELSE "failed"]
  /\ UNCHANGED <<hasRealEmbeddings, status, vector, stalls, crashes, searchVars>>

\* OpenAI or the UPDATE fails: an answer without a vector is one of length 0, which
\* pgvector refuses.
AttemptFails(a) ==
  /\ job[a] = "active"
  /\ tries' = [tries EXCEPT ![a] = @ + 1]
  /\ job' = [job EXCEPT ![a] = IF tries'[a] < Attempts THEN "waiting" ELSE "failed"]
  /\ UNCHANGED <<hasRealEmbeddings, status, vector, stalls, crashes, searchVars>>

\* The processes crash: a worker's jobs stall and are taken again, but not forever;
\* an API process loses the jobs it could not send and the search under way.
WorkerCrashes ==
  /\ crashes < MaxCrashes
  /\ LET struck == {a \in Auctions : job[a] = "active"} IN
     /\ struck # {}
     /\ stalls' = [a \in Auctions |-> IF a \in struck THEN stalls[a] + 1 ELSE stalls[a]]
     /\ job' = [a \in Auctions |-> IF a \notin struck THEN job[a]
                                   ELSE IF stalls[a] < MaxStalls THEN "waiting" ELSE "failed"]
  /\ crashes' = crashes + 1
  /\ UNCHANGED <<hasRealEmbeddings, status, vector, tries, searchVars>>

ApiCrashes ==
  /\ crashes < MaxCrashes
  /\ job' = [a \in Auctions |-> IF job[a] = "offline" THEN "lost" ELSE job[a]]
  /\ search' = "none" /\ found' = {}
  /\ crashes' = crashes + 1
  /\ UNCHANGED <<hasRealEmbeddings, status, vector, tries, stalls>>

-----------------------------------------------------------------------------
(* A search.                                                                *)

StartSearch ==
  /\ search \in {"none", "200", "400", "500"}
  /\ search' \in {"embed", "400"}
  /\ found' = {}
  /\ UNCHANGED <<hasRealEmbeddings, status, vector, jobVars, crashes>>

\* embedText of the query: the vector of words is made here and cannot fail, and a
\* failure of OpenAI is an answer 500, before the search has chosen between vectors
\* and words.
EmbedQuery ==
  /\ search = "embed"
  /\ search' = "query" \/ (hasRealEmbeddings /\ search' = "500")
  /\ UNCHANGED <<hasRealEmbeddings, status, vector, jobVars, crashes, found>>

\* Every auction matches every query.
Searchable == {a \in Auctions : status[a] = "active" /\ (hasRealEmbeddings => vector[a])}

RunQuery ==
  /\ search = "query"
  /\ search' = "200" /\ found' = Searchable
  /\ UNCHANGED <<hasRealEmbeddings, status, vector, jobVars, crashes>>

\* The pool of the search cannot connect, or the query fails.
QueryFails ==
  /\ search = "query"
  /\ search' = "500"
  /\ UNCHANGED <<hasRealEmbeddings, status, vector, jobVars, crashes, found>>

Next ==
  \/ \E a \in Auctions :
       \/ CreateAuction(a) \/ Activate(a) \/ EndAuction(a) \/ Reconnect(a)
       \/ TakeJob(a) \/ StoreEmbedding(a) \/ AttemptFails(a)
  \/ WorkerCrashes \/ ApiCrashes
  \/ StartSearch \/ EmbedQuery \/ RunQuery \/ QueryFails

Spec == Init /\ [][Next]_vars

\* Workers go on with the jobs they can get.  Nothing is assumed of clients, of Redis,
\* or of the outcome of an attempt.
Fairness ==
  \A a \in Auctions :
    WF_vars(TakeJob(a)) /\ WF_vars(StoreEmbedding(a) \/ AttemptFails(a))

-----------------------------------------------------------------------------
(* What sellers and buyers may rely on.                                     *)

\* An active auction that a search cannot find, although its query got through, has
\* no finished embedding job: its job is under way, was never queued, or has
\* failed for good.
HiddenForAReason ==
  \A a \in Auctions : status[a] = "active" /\ a \notin Searchable =>
    hasRealEmbeddings /\ job[a] # "done"

\* The embedding of a new auction is stored, or its job is lost before it reaches
\* Redis, or kept waiting for Redis, or fails for good: crashes of workers, stalls
\* and failed attempts alone neither lose it nor repeat it forever.
EmbeddingsSettle ==
  \A a \in Auctions :
    status[a] = "draft" ~> (vector[a] \/ job[a] \in {"offline", "lost", "failed"})
=============================================================================
