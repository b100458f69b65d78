-------------------------- MODULE AuctionLifecycle --------------------------
(***************************************************************************)
(* How an auction opens and ends: activateAuction of                       *)
(* services/auction.service.ts in the API, the expire-auction job in Redis *)
(* and its handler in workers/auction.worker.ts.  Every awaited statement  *)
(* is an action.  A bid is one step here (BidTakes): BidRefinement shows   *)
(* that COMMIT is the only point at which placeBid changes the rows.       *)
(*                                                                         *)
(* BullMQ delivers a job at least once: a failed attempt is repeated, and  *)
(* the job of a worker that died, or was too slow to renew its lock, is    *)
(* given to another worker while the first may go on.                      *)
(***************************************************************************)
EXTENDS AuctionStore

CONSTANTS
  Activations,  \* calls of activateAuction by the seller
  Workers,      \* slots of worker processes that may run the job
  Attempts,     \* attempts of a job
  MaxStalls,    \* how often a stalled job is given to another worker
  Mishaps,      \* the kinds of failure that may happen
  MaxMishaps    \* bound: how many failures happen in one behaviour

ASSUME AttemptsAssumption == Attempts \in Nat \ {0}
ASSUME StallsAssumption == MaxStalls \in Nat
ASSUME WorkersAssumption == NoOne \notin Workers
ASSUME MishapsAssumption ==
  /\ Mishaps \subseteq {"activation", "add", "attempt", "worker", "stall"}
  /\ MaxMishaps \in Nat

VARIABLES
  actPc,      \* the statement each activation awaits
  adding,     \* activations whose auctionQueue.add is under way
  overtaken,  \* history: activations past their checks when another one's UPDATE came
  reopened,   \* history: an UPDATE has made an ended auction active again
  job,        \* the job expire-<id>: its state, failures and stalls
  holder,     \* the worker that holds the job's lock
  workPc,     \* the statement each worker awaits
  ended,      \* ended.currentPrice of each worker
  found,      \* winningBid of each worker
  publisher,  \* the Redis connection over which each worker publishes
  wonJobs,    \* how many auction-won jobs were queued for each bid
  endEvents,  \* auction_ended events published
  mishaps     \* failures so far

pastVars == <<overtaken, reopened>>
activationVars == <<actPc, adding, pastVars>>
jobVars == <<job, holder>>
workerVars == <<workPc, ended, found, publisher>>
newsVars == <<wonJobs, endEvents>>
lifecycleVars == <<activationVars, jobVars, workerVars, newsVars, mishaps>>
allVars == <<storeVars, lifecycleVars>>

JobStates == {"none", "delayed", "waiting", "active", "completed", "failed"}
NoJob == [state |-> "none", fails |-> 0, stalls |-> 0]
Awaiting == {"end", "find", "award", "tell", "publish"}
EndEvents == [winner : Requests \cup {NoOne}, finalPrice : Nat]

LifecycleTypeOK ==
  /\ StoreTypeOK
  /\ actPc \in [Activations -> {"idle", "update", "done"}]
  /\ adding \subseteq Activations
  /\ overtaken \subseteq Activations
  /\ reopened \in BOOLEAN
  /\ job \in [state : JobStates, fails : 0 .. Attempts, stalls : 0 .. MaxStalls]
  /\ holder \in Workers \cup {NoOne}
  /\ workPc \in [Workers -> Awaiting \cup {"idle", "finish"}]
  /\ ended \in [Workers -> Nat]
  /\ found \in [Workers -> Requests \cup {NoOne}]
  /\ publisher \in [Workers -> {"wait", "ready"}]
  /\ wonJobs \in [Requests -> Nat]
  /\ endEvents \subseteq EndEvents
  /\ mishaps \in 0 .. MaxMishaps
  /\ \A w \in Workers : workPc[w] \in {"award", "tell"} => found[w] # NoOne

LifecycleInit ==
  /\ StoreInit
  /\ status \in {"absent", "draft"}
  /\ actPc = [a \in Activations |-> "idle"]
  /\ adding = {}
  /\ overtaken = {}
  /\ reopened = FALSE
  /\ job = NoJob
  /\ holder = NoOne
  /\ workPc = [w \in Workers |-> "idle"]
  /\ ended = [w \in Workers |-> 0]
  /\ found = [w \in Workers |-> NoOne]
  /\ publisher \in [Workers -> {"wait", "ready"}]
  /\ wonJobs = [r \in Requests |-> 0]
  /\ endEvents = {}
  /\ mishaps = 0

\* One more failure of this kind.
Mishap(kind) ==
  /\ kind \in Mishaps
  /\ mishaps < MaxMishaps
  /\ mishaps' = mishaps + 1

-----------------------------------------------------------------------------
(* The rest of the system on the same rows.                                 *)

\* placeBid as the committed rows show it.
BidTakes(r) ==
  /\ status = "active" /\ rowLock = NoOne
  /\ bids[r] = "none"
  /\ price < Amount(r) /\ Bidder(r) # Seller
  /\ price' = Amount(r)
  /\ bids' = [q \in Requests |-> IF q = r THEN "winning"
                                 ELSE IF bids[q] \in Live THEN "outbid" ELSE bids[q]]
  /\ UNCHANGED <<status, endPassed, offer, rowLock, lifecycleVars>>

Surroundings ==
  \/ (CreateRow \/ EndTimePasses) /\ UNCHANGED lifecycleVars
  \/ \E r \in Requests : BidTakes(r)

-----------------------------------------------------------------------------
(* activateAuction.                                                         *)

\* Mutant: nobody looks at the status.
ReadAny(a) ==
  /\ actPc[a] = "idle"
  /\ actPc' = [actPc EXCEPT ![a] = IF status # "absent" /\ ~endPassed THEN "update" ELSE "done"]
  /\ UNCHANGED <<storeVars, adding, pastVars, jobVars, workerVars, newsVars, mishaps>>

\* The read, and the checks that follow without an await.
ReadDraft(a) ==
  /\ actPc[a] = "idle"
  /\ actPc' = [actPc EXCEPT ![a] = IF status = "draft" /\ ~endPassed THEN "update" ELSE "done"]
  /\ UNCHANGED <<storeVars, adding, pastVars, jobVars, workerVars, newsVars, mishaps>>

\* The UPDATE asks for the id alone: it finds the row as it is now, which may be
\* active or ended when another activation was faster.
UpdateRow(a) ==
  /\ ActivateRow
  /\ overtaken' = {b \in Activations \ {a} : actPc[b] = "update"}
  /\ reopened' = (reopened \/ status = "ended")

\* safeQueueAdd is not awaited.
Activate(a) ==
  /\ actPc[a] = "update"
  /\ UpdateRow(a)
  /\ actPc' = [actPc EXCEPT ![a] = "done"]
  /\ adding' = adding \cup {a}
  /\ UNCHANGED <<jobVars, workerVars, newsVars, mishaps>>

\* The UPDATE fails, or its answer is lost after it was done.
ActivateFails(a) ==
  /\ Mishap("activation")
  /\ actPc[a] = "update"
  /\ actPc' = [actPc EXCEPT ![a] = "done"]
  /\ \/ UpdateRow(a)
     \/ overtaken' = overtaken \ {a} /\ UNCHANGED <<storeVars, reopened>>
  /\ UNCHANGED <<adding, jobVars, workerVars, newsVars>>

\* The jobId is expire-<id>: while a job of that id exists, adding does nothing.
AddJob(a) ==
  /\ a \in adding
  /\ adding' = adding \ {a}
  /\ job' = IF job.state = "none" THEN [NoJob EXCEPT !.state = "delayed"] ELSE job
  /\ UNCHANGED <<storeVars, actPc, pastVars, holder, workerVars, newsVars, mishaps>>

\* safeQueueAdd logs the error, or the process dies first.
AddLost(a) ==
  /\ Mishap("add")
  /\ a \in adding
  /\ adding' = adding \ {a}
  /\ UNCHANGED <<storeVars, actPc, pastVars, jobVars, workerVars, newsVars>>

-----------------------------------------------------------------------------
(* The job in Redis.                                                        *)

\* The delay of the job is the time until end_time.
DelayEnds ==
  /\ job.state = "delayed" /\ endPassed
  /\ job' = [job EXCEPT !.state = "waiting"]
  /\ UNCHANGED <<storeVars, activationVars, holder, workerVars, newsVars, mishaps>>

TakeJob(w) ==
  /\ job.state = "waiting" /\ workPc[w] = "idle"
  /\ job' = [job EXCEPT !.state = "active"]
  /\ holder' = w
  /\ workPc' = [workPc EXCEPT ![w] = "end"]
  /\ UNCHANGED <<storeVars, activationVars, newsVars, mishaps, ended, found, publisher>>

\* Mutant: one stall more than the limit.
StallsOnceMore ==
  /\ job.state = "active"
  /\ IF workPc[holder] = "idle" THEN UNCHANGED mishaps ELSE Mishap("stall")
  /\ job' = IF job.stalls <= MaxStalls
            THEN [job EXCEPT !.state = "waiting", !.stalls = @ + 1]
            ELSE [job EXCEPT !.state = "failed"]
  /\ holder' = NoOne
  /\ UNCHANGED <<storeVars, activationVars, workerVars, newsVars>>

\* The lock of the job ran out: its worker is dead or too slow.
JobStalls ==
  /\ job.state = "active"
  /\ IF workPc[holder] = "idle" THEN UNCHANGED mishaps ELSE Mishap("stall")
  /\ job' = IF job.stalls < MaxStalls
            THEN [job EXCEPT !.state = "waiting", !.stalls = @ + 1]
            ELSE [job EXCEPT !.state = "failed"]
  /\ holder' = NoOne
  /\ UNCHANGED <<storeVars, activationVars, workerVars, newsVars>>

\* Kept jobs go when enough jobs of other auctions have ended after them.
JobIsRemoved ==
  /\ job.state \in {"completed", "failed"}
  /\ job' = NoJob
  /\ UNCHANGED <<storeVars, activationVars, holder, workerVars, newsVars, mishaps>>

-----------------------------------------------------------------------------
(* The handler of expire-auction.                                           *)

\* Mutant: UPDATE ... WHERE id alone.
EndAnyway(w) ==
  /\ workPc[w] = "end"
  /\ rowLock = NoOne
  /\ status' = "ended"
  /\ ended' = [ended EXCEPT ![w] = price]
  /\ workPc' = [workPc EXCEPT ![w] = "find"]
  /\ UNCHANGED <<endPassed, price, bids, offer, rowLock, activationVars, jobVars, found,
                 newsVars, mishaps, publisher>>

\* UPDATE auctions ... WHERE id AND status = 'active' RETURNING; else skip.
EndAuction(w) ==
  /\ workPc[w] = "end"
  /\ rowLock = NoOne
  /\ \/ /\ status = "active"
        /\ status' = "ended"
        /\ ended' = [ended EXCEPT ![w] = price]
        /\ workPc' = [workPc EXCEPT ![w] = "find"]
     \/ /\ status # "active"
        /\ workPc' = [workPc EXCEPT ![w] = "finish"]
        /\ UNCHANGED <<status, ended>>
  /\ UNCHANGED <<endPassed, price, bids, offer, rowLock, activationVars, jobVars, found,
                 newsVars, mishaps, publisher>>

\* Mutant: no ORDER BY amount DESC.
FindAny(w) ==
  /\ workPc[w] = "find"
  /\ \E r \in IF Placed = {} THEN {NoOne} ELSE Placed :
       /\ found' = [found EXCEPT ![w] = r]
       /\ workPc' = [workPc EXCEPT ![w] = IF r = NoOne THEN "publish" ELSE "award"]
  /\ UNCHANGED <<storeVars, activationVars, jobVars, ended, newsVars, mishaps, publisher>>

FindWinner(w) ==
  /\ workPc[w] = "find"
  /\ \E r \in IF Placed = {} THEN {NoOne} ELSE Top(Placed) :
       /\ found' = [found EXCEPT ![w] = r]
       /\ workPc' = [workPc EXCEPT ![w] = IF r = NoOne THEN "publish" ELSE "award"]
  /\ UNCHANGED <<storeVars, activationVars, jobVars, ended, newsVars, mishaps, publisher>>

\* Mutant: nobody queues the auction-won job.
AwardSilently(w) ==
  /\ workPc[w] = "award"
  /\ bids' = [bids EXCEPT ![found[w]] = "won"]
  /\ workPc' = [workPc EXCEPT ![w] = "publish"]
  /\ UNCHANGED <<status, endPassed, price, offer, rowLock, activationVars, jobVars, ended, found,
                 newsVars, mishaps, publisher>>

AwardWinner(w) ==
  /\ workPc[w] = "award"
  /\ bids' = [bids EXCEPT ![found[w]] = "won"]
  /\ workPc' = [workPc EXCEPT ![w] = "tell"]
  /\ UNCHANGED <<status, endPassed, price, offer, rowLock, activationVars, jobVars, ended, found,
                 newsVars, mishaps, publisher>>

QueueWon(w) == wonJobs' = [wonJobs EXCEPT ![found[w]] = @ + 1]

TellWinner(w) ==
  /\ workPc[w] = "tell"
  /\ QueueWon(w)
  /\ workPc' = [workPc EXCEPT ![w] = "publish"]
  /\ UNCHANGED <<storeVars, activationVars, jobVars, ended, found, endEvents, mishaps, publisher>>

\* winningBid?.bidderId ?? null, winningBid?.amount ?? ended.currentPrice.
EndEvent(w) ==
  [winner |-> found[w],
   finalPrice |-> IF found[w] = NoOne THEN ended[w] ELSE Amount(found[w])]

PublishEnd(w) ==
  /\ workPc[w] = "publish" /\ publisher[w] = "ready"
  /\ endEvents' = endEvents \cup {EndEvent(w)}
  /\ workPc' = [workPc EXCEPT ![w] = "finish"]
  /\ UNCHANGED <<storeVars, activationVars, jobVars, ended, found, wonJobs, mishaps, publisher>>

\* The handler is left, and with it what it had read.
Leave(w) ==
  /\ workPc' = [workPc EXCEPT ![w] = "idle"]
  /\ ended' = [ended EXCEPT ![w] = 0]
  /\ found' = [found EXCEPT ![w] = NoOne]

\* The handler returns.  BullMQ refuses the result of a worker without the lock.
FinishJob(w) ==
  /\ workPc[w] = "finish"
  /\ Leave(w)
  /\ IF holder = w
     THEN job' = [job EXCEPT !.state = "completed"] /\ holder' = NoOne
     ELSE UNCHANGED jobVars
  /\ UNCHANGED <<storeVars, activationVars, newsVars, mishaps, publisher>>

\* The attempt of w failed.
JobFails(w) ==
  IF holder = w
  THEN /\ holder' = NoOne
       /\ job' = [job EXCEPT !.fails = @ + 1,
                             !.state = IF job.fails + 1 < Attempts THEN "waiting" ELSE "failed"]
  ELSE UNCHANGED jobVars

\* lazyConnect without an offline queue: the first publish of a process only opens
\* the connection, and throws.
PublishRefused(w) ==
  /\ workPc[w] = "publish" /\ publisher[w] = "wait"
  /\ publisher' = [publisher EXCEPT ![w] = "ready"]
  /\ Leave(w)
  /\ JobFails(w)
  /\ UNCHANGED <<storeVars, activationVars, newsVars, mishaps>>

\* What the statement that w awaits may have done although its answer is an error.
HalfDone(w) ==
  \/ UNCHANGED <<status, bids, newsVars>>
  \/ /\ workPc[w] = "end" /\ status = "active" /\ rowLock = NoOne
     /\ status' = "ended"
     /\ UNCHANGED <<bids, newsVars>>
  \/ /\ workPc[w] = "award"
     /\ bids' = [bids EXCEPT ![found[w]] = "won"]
     /\ UNCHANGED <<status, newsVars>>
  \/ /\ workPc[w] = "tell" /\ QueueWon(w)
     /\ UNCHANGED <<status, bids, endEvents>>
  \/ /\ workPc[w] = "publish" /\ publisher[w] = "ready"
     /\ endEvents' = endEvents \cup {EndEvent(w)}
     /\ UNCHANGED <<status, bids, wonJobs>>

\* Mutant: attempts: 1, so that a failure is final.
AttemptFailsForGood(w) ==
  /\ Mishap("attempt")
  /\ workPc[w] \in Awaiting
  /\ Leave(w)
  /\ job' = IF holder = w THEN [job EXCEPT !.state = "failed"] ELSE job
  /\ holder' = IF holder = w THEN NoOne ELSE holder
  /\ HalfDone(w)
  /\ UNCHANGED <<endPassed, price, offer, rowLock, activationVars, publisher>>

\* A statement, the queue or the publisher throws; BullMQ takes the job back.
AttemptFails(w) ==
  /\ Mishap("attempt")
  /\ workPc[w] \in Awaiting
  /\ Leave(w)
  /\ JobFails(w)
  /\ HalfDone(w)
  /\ UNCHANGED <<endPassed, price, offer, rowLock, activationVars, publisher>>

\* The worker process dies and is started again; Redis keeps the job locked.
WorkerDies(w) ==
  /\ Mishap("worker")
  /\ workPc[w] # "idle"
  /\ Leave(w)
  /\ publisher' = [publisher EXCEPT ![w] = "wait"]
  /\ UNCHANGED <<storeVars, activationVars, jobVars, newsVars>>

-----------------------------------------------------------------------------
Activation(a) == ReadDraft(a) \/ Activate(a) \/ AddJob(a)
Handler(w) == \/ EndAuction(w) \/ FindWinner(w) \/ AwardWinner(w) \/ TellWinner(w)
              \/ PublishEnd(w) \/ PublishRefused(w) \/ FinishJob(w)

LifecycleStep ==
  \/ \E a \in Activations : Activation(a) \/ ActivateFails(a) \/ AddLost(a)
  \/ \E w \in Workers : TakeJob(w) \/ Handler(w) \/ AttemptFails(w) \/ WorkerDies(w)
  \/ DelayEnds \/ JobStalls \/ JobIsRemoved

LifecycleNext == Surroundings \/ LifecycleStep

LifecycleSpec == LifecycleInit /\ [][LifecycleNext]_allVars

\* The clock runs, an activation that was sent goes on, Redis hands out the job,
\* a worker that runs goes on, and the job of a dead worker is found stalled.
LifecycleFairness ==
  /\ WF_allVars(EndTimePasses /\ UNCHANGED lifecycleVars)
  /\ \A a \in Activations : WF_allVars(actPc[a] # "idle" /\ Activation(a))
  /\ WF_allVars(DelayEnds)
  /\ WF_allVars(\E w \in Workers : TakeJob(w))
  /\ \A w \in Workers : WF_allVars(Handler(w))
  /\ WF_allVars(JobStalls /\ UNCHANGED mishaps)

FairLifecycle == LifecycleSpec /\ LifecycleFairness
=============================================================================
