--------------------------- MODULE LifecycleProofs ---------------------------
(***************************************************************************)
(* Theorems about the end of an auction, for every set of bids and of      *)
(* workers, every number of attempts and stalls and every failure.  LInv   *)
(* is inductive for any number of activations; until one of them opens an  *)
(* ended auction again, RowInv says what the rows and the news hold.       *)
(***************************************************************************)
EXTENDS AuctionSystem, BidProofs

-----------------------------------------------------------------------------
(* Types.                                                                   *)

LEMMA LifecycleAmountType ==
  ASSUME StoreTypeOK, NEW r \in Requests
  PROVE  Amount(r) \in Nat /\ Bidder(r) \in Users
BY OffersAssumption DEF Amount, Bidder, StoreTypeOK

LEMMA LifecycleInitType == LifecycleInit => LifecycleTypeOK /\ JobIsHeld
<1> SUFFICES ASSUME LifecycleInit PROVE LifecycleTypeOK /\ JobIsHeld
  OBVIOUS
<1>1. StoreTypeOK
  BY PriceAssumption DEF LifecycleInit, StoreInit, StoreTypeOK, AuctionStatus
<1>2. /\ job \in [state : JobStates, fails : 0 .. Attempts, stalls : 0 .. MaxStalls]
      /\ JobIsHeld
  BY AttemptsAssumption, StallsAssumption DEF LifecycleInit, NoJob, JobStates, JobIsHeld
<1>3. mishaps \in 0 .. MaxMishaps
  BY MishapsAssumption DEF LifecycleInit
<1> QED BY <1>1, <1>2, <1>3 DEF LifecycleInit, LifecycleTypeOK

LEMMA SurroundingsType ==
  ASSUME LifecycleTypeOK, JobIsHeld, Surroundings
  PROVE  LifecycleTypeOK' /\ JobIsHeld'
<1> USE DEF lifecycleVars, activationVars, pastVars, jobVars, workerVars, newsVars
<1>1. StoreTypeOK'
  <2> USE DEF LifecycleTypeOK, StoreTypeOK
  <2>1. CASE CreateRow BY <2>1 DEF CreateRow, AuctionStatus
  <2>2. CASE EndTimePasses BY <2>2 DEF EndTimePasses
  <2>3. ASSUME NEW r \in Requests, BidTakes(r) PROVE StoreTypeOK'
    BY <2>3, LifecycleAmountType DEF BidTakes, BidStatus
  <2> QED BY <2>1, <2>2, <2>3 DEF Surroundings
<1>2. UNCHANGED lifecycleVars BY DEF Surroundings, BidTakes
<1> QED BY <1>1, <1>2 DEF LifecycleTypeOK, JobIsHeld

LEMMA ActivationType ==
  ASSUME LifecycleTypeOK, JobIsHeld, NEW a \in Activations,
         Activation(a) \/ ActivateFails(a) \/ AddLost(a)
  PROVE  LifecycleTypeOK' /\ JobIsHeld'
<1> USE AttemptsAssumption, StallsAssumption, MishapsAssumption
    DEF LifecycleTypeOK, JobIsHeld, StoreTypeOK, storeVars, pastVars, jobVars, workerVars,
        newsVars, Mishap, AuctionStatus, JobStates
<1>1. CASE ReadDraft(a) BY <1>1 DEF ReadDraft
<1>2. CASE Activate(a) BY <1>2 DEF Activate, UpdateRow, ActivateRow
<1>3. CASE AddJob(a) BY <1>3 DEF AddJob, NoJob
<1>4. CASE ActivateFails(a)
  <2>1. mishaps' \in 0 .. MaxMishaps BY <1>4 DEF ActivateFails
  <2>2. /\ status' \in AuctionStatus /\ overtaken' \subseteq Activations /\ reopened' \in BOOLEAN
        /\ UNCHANGED <<endPassed, price, bids, offer, rowLock>>
    BY <1>4 DEF ActivateFails, UpdateRow, ActivateRow
  <2> QED BY <1>4, <2>1, <2>2 DEF ActivateFails
<1>5. CASE AddLost(a) BY <1>5 DEF AddLost
<1> QED BY <1>1, <1>2, <1>3, <1>4, <1>5 DEF Activation

LEMMA QueueType ==
  ASSUME LifecycleTypeOK, JobIsHeld,
         DelayEnds \/ JobStalls \/ JobIsRemoved \/ \E w \in Workers : TakeJob(w) \/ FinishJob(w)
  PROVE  LifecycleTypeOK' /\ JobIsHeld'
<1> USE AttemptsAssumption, StallsAssumption, MishapsAssumption, WorkersAssumption
    DEF LifecycleTypeOK, JobIsHeld, StoreTypeOK, storeVars, activationVars, pastVars, jobVars, workerVars,
        newsVars, Mishap, JobStates, Awaiting
<1>1. CASE DelayEnds BY <1>1 DEF DelayEnds
<1>2. CASE JobStalls
  <2>1. mishaps' \in 0 .. MaxMishaps BY <1>2 DEF JobStalls
  <2>2. /\ job' \in [state : JobStates, fails : 0 .. Attempts, stalls : 0 .. MaxStalls]
        /\ job'.state \in {"waiting", "failed"} /\ job'.fails = job.fails
    <3>1. CASE job.stalls < MaxStalls
      <4>1. job' = [job EXCEPT !.state = "waiting", !.stalls = @ + 1]
        BY <1>2, <3>1 DEF JobStalls
      <4>2. job.stalls + 1 \in 0 .. MaxStalls BY <3>1
      <4> QED BY <4>1, <4>2
    <3>2. CASE ~(job.stalls < MaxStalls)
      <4>1. job' = [job EXCEPT !.state = "failed"]
        BY <1>2, <3>2 DEF JobStalls
      <4> QED BY <4>1
    <3> QED BY <3>1, <3>2
  <2>3. job'.state \notin {"completed", "failed"} => job'.fails < Attempts
    BY <1>2, <2>2 DEF JobStalls
  <2> QED BY <1>2, <2>1, <2>2, <2>3 DEF JobStalls
<1>3. CASE JobIsRemoved BY <1>3 DEF JobIsRemoved, NoJob
<1>4. ASSUME NEW w \in Workers, TakeJob(w) PROVE LifecycleTypeOK' /\ JobIsHeld'
  BY <1>4 DEF TakeJob
<1>5. ASSUME NEW w \in Workers, FinishJob(w) PROVE LifecycleTypeOK' /\ JobIsHeld'
  BY <1>5, NoOneAssumption DEF FinishJob, Leave
<1> QED BY <1>1, <1>2, <1>3, <1>4, <1>5

\* The event a worker publishes.
LEMMA EndEventType ==
  ASSUME LifecycleTypeOK, NEW w \in Workers
  PROVE  EndEvent(w) \in EndEvents
BY LifecycleAmountType DEF LifecycleTypeOK, EndEvent, EndEvents

LEMMA HandlerType ==
  ASSUME LifecycleTypeOK, JobIsHeld, NEW w \in Workers,
         EndAuction(w) \/ FindWinner(w) \/ AwardWinner(w) \/ TellWinner(w) \/ PublishEnd(w)
  PROVE  LifecycleTypeOK' /\ JobIsHeld'
<1> USE DEF LifecycleTypeOK, JobIsHeld, StoreTypeOK, storeVars, activationVars, pastVars, jobVars,
            AuctionStatus, BidStatus, Awaiting
<1>1. CASE EndAuction(w) BY <1>1 DEF EndAuction, newsVars
<1>2. CASE FindWinner(w)
  BY <1>2, NoOneAssumption DEF FindWinner, Placed, Top, workerVars, newsVars
<1>3. CASE AwardWinner(w) BY <1>3 DEF AwardWinner, newsVars
<1>4. CASE TellWinner(w) BY <1>4 DEF TellWinner, QueueWon
<1>5. CASE PublishEnd(w) BY <1>5, EndEventType DEF PublishEnd
<1> QED BY <1>1, <1>2, <1>3, <1>4, <1>5

LEMMA JobFailsType ==
  ASSUME LifecycleTypeOK, JobIsHeld, NEW w \in Workers, JobFails(w)
  PROVE  /\ job' \in [state : JobStates, fails : 0 .. Attempts, stalls : 0 .. MaxStalls]
         /\ holder' \in Workers \cup {NoOne}
         /\ JobIsHeld'
<1> USE DEF LifecycleTypeOK, JobIsHeld, jobVars
<1>1. CASE holder = w
  <2>1. job.state = "active" /\ job.fails + 1 \in 0 .. Attempts
    BY <1>1, AttemptsAssumption, WorkersAssumption
  <2>2. job' = [job EXCEPT !.fails = @ + 1,
                           !.state = IF job.fails + 1 < Attempts THEN "waiting" ELSE "failed"]
    BY <1>1 DEF JobFails
  <2>3. holder' = NoOne
    BY <1>1 DEF JobFails
  <2>4. job' \in [state : JobStates, fails : 0 .. Attempts, stalls : 0 .. MaxStalls]
    BY <2>1, <2>2 DEF JobStates
  <2>5. /\ job'.state \in {"waiting", "failed"}
        /\ job'.state = "waiting" => job'.fails < Attempts
    BY <2>1, <2>2
  <2> QED BY <2>3, <2>4, <2>5
<1>2. CASE holder # w
  BY <1>2 DEF JobFails
<1> QED BY <1>1, <1>2

LEMMA WorkerFailsType ==
  ASSUME LifecycleTypeOK, JobIsHeld, NEW w \in Workers, AttemptFails(w) \/ WorkerDies(w) \/ PublishRefused(w)
  PROVE  LifecycleTypeOK' /\ JobIsHeld'
<1> USE DEF LifecycleTypeOK, JobIsHeld, StoreTypeOK, storeVars, activationVars, pastVars, jobVars
<1>1. CASE WorkerDies(w)
  BY <1>1, MishapsAssumption DEF WorkerDies, Mishap, Leave, newsVars
<1>2. CASE AttemptFails(w)
  <2>1. /\ status' \in AuctionStatus
        /\ bids' \in [Requests -> BidStatus \cup {"none"}]
        /\ wonJobs' \in [Requests -> Nat]
        /\ endEvents' \subseteq EndEvents
    BY <1>2, EndEventType
       DEF AttemptFails, HalfDone, QueueWon, AuctionStatus, BidStatus, newsVars
  <2>2. /\ job' \in [state : JobStates, fails : 0 .. Attempts, stalls : 0 .. MaxStalls]
        /\ holder' \in Workers \cup {NoOne}
        /\ JobIsHeld'
    BY <1>2, JobFailsType DEF AttemptFails
  <2>3. mishaps' \in 0 .. MaxMishaps
    BY <1>2, MishapsAssumption DEF AttemptFails, Mishap
  <2> QED BY <1>2, <2>1, <2>2, <2>3 DEF AttemptFails, Leave
<1>3. CASE PublishRefused(w)
  BY <1>3, JobFailsType DEF PublishRefused, Leave, newsVars
<1> QED BY <1>1, <1>2, <1>3

LEMMA LifecycleTypeStep ==
  ASSUME LifecycleTypeOK, JobIsHeld, [LifecycleNext]_allVars
  PROVE  LifecycleTypeOK' /\ JobIsHeld'
<1>1. CASE UNCHANGED allVars
  BY <1>1 DEF LifecycleTypeOK, JobIsHeld, StoreTypeOK, allVars, storeVars, lifecycleVars,
     activationVars, pastVars, jobVars, workerVars, newsVars
<1>2. CASE LifecycleNext
  BY <1>2, SurroundingsType, ActivationType, QueueType, HandlerType, WorkerFailsType
     DEF LifecycleNext, LifecycleStep, Handler
<1> QED BY <1>1, <1>2

\* Every state of the lifecycle is well-typed, whatever the queue and the
\* workers do; a job is active exactly while one worker holds its lock.
THEOREM LifecycleTypeCorrect == LifecycleSpec => [](LifecycleTypeOK /\ JobIsHeld)
<1> QED BY LifecycleInitType, LifecycleTypeStep, PTL DEF LifecycleSpec

-----------------------------------------------------------------------------
(* The end of an auction.                                                   *)

Rows == <<status, price, bids, offer>>

\* Every worker but w stays where it is.
OthersStay(w) ==
  \A v \in Workers \ {w} : workPc'[v] = workPc[v] /\ ended'[v] = ended[v] /\ found'[v] = found[v]

\* The worker w leaves the handler or goes on with what it has read.
Onward(w, to) ==
  \/ workPc'[w] = "idle"
  \/ workPc'[w] = to /\ ended'[w] = ended[w] /\ found'[w] = found[w]

\* The bids that tie with the highest one: the leader alone.
LEMMA TopLeads ==
  ASSUME StoreTypeOK, OneHighest, NEW r \in Top(Placed)
  PROVE  Amount(r) = price /\ bids[r] \in {"winning", "won"}
<1>1. r \in Placed BY DEF Top
<1>2. PICK q \in Placed : bids[q] \in {"winning", "won"} BY <1>1 DEF OneHighest
<1>3. Amount(q) = price BY <1>2 DEF OneHighest
<1>4. price <= Amount(r) BY <1>2, <1>3 DEF Top
<1>5. Amount(r) \in Nat /\ price \in Nat
  BY <1>1, LifecycleAmountType DEF Placed, StoreTypeOK
<1> QED BY <1>1, <1>4, <1>5 DEF OneHighest

\* Only the highest bid wins, and only after the end.
LEMMA HighestWins == StoreTypeOK /\ OneHighest => WinnerIsHighest
<1> SUFFICES ASSUME StoreTypeOK, OneHighest, NEW r \in Requests, bids[r] = "won"
             PROVE  /\ status = "ended"
                    /\ r \in Top(Placed)
                    /\ \A q \in Placed \ {r} : bids[q] = "outbid"
  BY DEF WinnerIsHighest
<1>1. r \in Placed /\ Amount(r) = price
  BY DEF OneHighest, Placed
<1>2. \A q \in Placed \ {r} : bids[q] = "outbid"
  BY <1>1 DEF OneHighest
<1>3. \A q \in Placed : Amount(q) <= Amount(r)
  BY <1>1, LifecycleAmountType DEF OneHighest, Placed, StoreTypeOK
<1> QED BY <1>1, <1>2, <1>3 DEF OneHighest, Top

\* A step that leaves the rows and the news alone, and at most takes a worker
\* out of the end of the auction or an activation past its checks.
LEMMA QuietStep ==
  ASSUME RowInv, UNCHANGED <<Rows, newsVars>>, DraftHolds',
         \A w \in Workers : \/ workPc'[w] \notin Ending
                            \/ workPc'[w] = workPc[w] /\ ended'[w] = ended[w] /\ found'[w] = found[w]
  PROVE  RowInv'
<1> USE DEF RowInv, Rows, newsVars
<1>1. Placed' = Placed /\ Top(Placed)' = Top(Placed) /\ \A r \in Requests : Amount(r)' = Amount(r)
  BY DEF Placed, Top, Amount
<1>2. OneHighest' BY <1>1 DEF OneHighest, Placed
<1>3. ReadsHold' BY <1>1 DEF ReadsHold, Ending
<1>4. OneEnds' BY DEF OneEnds, Ending
<1>5. ToldOnce' BY DEF ToldOnce
<1>6. EndEventIsTrue' BY <1>1 DEF EndEventIsTrue
<1> QED BY <1>2, <1>3, <1>4, <1>5, <1>6

\* Activations that stay where they are, while the row stays or leaves "active".
LEMMA DraftFrame ==
  ASSUME DraftHolds, UNCHANGED <<actPc, overtaken>>,
         status' = status \/ (status = "active" /\ status' = "ended")
  PROVE  DraftHolds'
BY DEF DraftHolds

\* A bid takes the lead, whether in one step or at a COMMIT.
LEMMA TakenInv ==
  ASSUME StoreTypeOK, RowInv, NEW r \in Requests,
         status = "active", price < Amount(r), price' = Amount(r),
         r \notin Placed, Placed' = Placed \cup {r}, bids'[r] = "winning",
         \A q \in Placed : bids'[q] = "outbid",
         UNCHANGED <<status, offer, lifecycleVars>>
  PROVE  RowInv'
<1> USE DEF lifecycleVars, activationVars, pastVars, workerVars, newsVars
<1>1. \A q \in Placed : bids[q] # "won" /\ Amount(q) <= price
  BY LifecycleAmountType DEF RowInv, OneHighest, Placed, StoreTypeOK
<1>2. \A q \in Placed : Amount(q)' < price'
  <2> SUFFICES ASSUME NEW q \in Placed PROVE Amount(q)' < price'
    OBVIOUS
  <2>1. Amount(q) \in Nat /\ Amount(r) \in Nat /\ price \in Nat
    BY LifecycleAmountType DEF Placed, StoreTypeOK
  <2>2. Amount(q)' = Amount(q) BY DEF Amount
  <2> QED BY <1>1, <2>1, <2>2
<1>3. Amount(r)' = price' BY DEF Amount
<1>4. OneHighest' BY <1>2, <1>3 DEF OneHighest
<1>5. \A w \in Workers : workPc[w] \notin Ending BY DEF RowInv, ReadsHold
<1>6. ReadsHold' /\ DraftHolds' BY <1>5, DraftFrame DEF RowInv, ReadsHold, Ending
<1>7. OneEnds' BY DEF RowInv, OneEnds
<1>8. \A q \in Requests : bids[q] # "won" BY <1>1 DEF Placed
<1>9. ToldOnce' /\ EndEventIsTrue' BY <1>8 DEF RowInv, ToldOnce, EndEventIsTrue
<1> QED BY <1>4, <1>6, <1>7, <1>9 DEF RowInv

LEMMA SurroundingsInv ==
  ASSUME LifecycleTypeOK, RowInv, Surroundings
  PROVE  RowInv'
<1> USE DEF lifecycleVars, activationVars, pastVars, jobVars, workerVars, newsVars
<1>1. CASE EndTimePasses /\ UNCHANGED lifecycleVars
  BY <1>1, QuietStep, DraftFrame DEF EndTimePasses, Rows, RowInv
<1>2. CASE CreateRow /\ UNCHANGED lifecycleVars
  <2>1. status = "absent" /\ status' = "draft" /\ UNCHANGED <<price, bids, offer>>
    BY <1>2 DEF CreateRow
  <2>2. Placed = {} /\ Placed' = {} BY <2>1 DEF RowInv, ReadsHold, Placed
  <2>3. \A w \in Workers : workPc[w] \notin Ending BY <2>1 DEF RowInv, ReadsHold
  <2>4. OneHighest' BY <2>2 DEF OneHighest
  <2>5. ReadsHold' /\ DraftHolds' BY <1>2, <2>1, <2>2, <2>3 DEF RowInv, ReadsHold, DraftHolds, Ending
  <2>6. OneEnds' /\ ToldOnce' BY <1>2, <2>1 DEF RowInv, OneEnds, ToldOnce
  <2>7. EndEventIsTrue' BY <1>2, <2>1 DEF RowInv, EndEventIsTrue
  <2> QED BY <2>4, <2>5, <2>6, <2>7 DEF RowInv
<1>3. ASSUME NEW r \in Requests, BidTakes(r) PROVE RowInv'
  <2>1. /\ status = "active" /\ bids[r] = "none" /\ price < Amount(r)
        /\ price' = Amount(r) /\ UNCHANGED <<status, offer, lifecycleVars>>
        /\ bids' = [q \in Requests |-> IF q = r THEN "winning"
                                       ELSE IF bids[q] \in Live THEN "outbid" ELSE bids[q]]
    BY <1>3 DEF BidTakes
  <2>2. r \notin Placed /\ Placed' = Placed \cup {r} /\ bids'[r] = "winning"
    BY <2>1 DEF Placed, Live
  <2>3. \A q \in Placed : bids[q] \in {"winning", "outbid"}
    BY <2>1 DEF RowInv, OneHighest
  <2>4. \A q \in Placed : bids'[q] = "outbid"
    BY <2>1, <2>2, <2>3 DEF Placed, Live
  <2> QED BY <2>1, <2>2, <2>4, TakenInv DEF LifecycleTypeOK
<1> QED BY <1>1, <1>2, <1>3 DEF Surroundings

\* The UPDATE of an activation opens the draft, or finds the auction open, or ended:
\* then the activation was overtaken.
LEMMA OpenInv ==
  ASSUME LifecycleTypeOK, RowInv, NEW a \in Activations, actPc[a] = "update", UpdateRow(a),
         actPc' = [actPc EXCEPT ![a] = "done"], UNCHANGED <<workerVars, newsVars>>
  PROVE  /\ reopened' \/ RowInv'
         /\ status = "ended" => a \in overtaken
<1> USE DEF RowInv, UpdateRow, ActivateRow, workerVars, newsVars
<1>1. status = "draft" \/ (a \in overtaken /\ status \in {"active", "ended"})
  BY DEF DraftHolds
<1>2. DraftHolds'
  BY DEF DraftHolds, LifecycleTypeOK
<1>3. CASE status = "draft"
  <2>1. Placed = {} /\ Placed' = {} BY <1>3 DEF ReadsHold, Placed
  <2>2. \A w \in Workers : workPc[w] \notin Ending BY <1>3 DEF ReadsHold
  <2>3. OneHighest' BY <2>1 DEF OneHighest
  <2>4. ReadsHold' BY <2>1, <2>2 DEF ReadsHold, Ending
  <2>5. OneEnds' /\ ToldOnce' BY DEF OneEnds, ToldOnce
  <2>6. EndEventIsTrue' BY <1>3 DEF EndEventIsTrue
  <2> QED BY <1>2, <1>3, <2>3, <2>4, <2>5, <2>6
<1>4. CASE status = "active"
  BY <1>2, <1>4, QuietStep DEF Rows
<1>5. CASE status = "ended" BY <1>1, <1>5
<1> QED BY <1>1, <1>3, <1>4, <1>5

LEMMA ActivationInv ==
  ASSUME LifecycleTypeOK, RowInv, NEW a \in Activations,
         Activation(a) \/ ActivateFails(a) \/ AddLost(a)
  PROVE  reopened' \/ RowInv'
<1> USE DEF storeVars, workerVars, newsVars, pastVars
<1>1. CASE ReadDraft(a)
  <2>1. DraftHolds' BY <1>1 DEF ReadDraft, RowInv, DraftHolds, LifecycleTypeOK
  <2> QED BY <1>1, <2>1, QuietStep DEF ReadDraft, Rows
<1>2. CASE Activate(a)
  BY <1>2, OpenInv DEF Activate
<1>3. CASE AddJob(a) \/ AddLost(a)
  BY <1>3, QuietStep, DraftFrame DEF AddJob, AddLost, Rows, RowInv
<1>4. CASE ActivateFails(a)
  <2>1. actPc' = [actPc EXCEPT ![a] = "done"] /\ actPc[a] = "update" /\ UNCHANGED <<workerVars, newsVars>>
    BY <1>4 DEF ActivateFails
  <2>2. CASE UpdateRow(a)
    BY <2>1, <2>2, OpenInv
  <2>3. CASE overtaken' = overtaken \ {a} /\ UNCHANGED <<storeVars, reopened>>
    <3>1. DraftHolds' BY <2>1, <2>3 DEF RowInv, DraftHolds, LifecycleTypeOK
    <3> QED BY <2>1, <2>3, <3>1, QuietStep DEF Rows
  <2> QED BY <1>4, <2>2, <2>3 DEF ActivateFails
<1> QED BY <1>1, <1>2, <1>3, <1>4 DEF Activation

\* The UPDATE to 'ended', whether or not its answer reaches the worker.
LEMMA EndInv ==
  ASSUME LifecycleTypeOK, RowInv, NEW w \in Workers, status = "active", status' = "ended",
         UNCHANGED <<price, bids, offer, actPc, overtaken, newsVars>>, OthersStay(w),
         workPc'[w] = "idle" \/ (workPc'[w] = "find" /\ ended'[w] = price)
  PROVE  RowInv'
<1> USE DEF RowInv, newsVars, OthersStay
<1>1. \A v \in Workers : workPc[v] \notin Ending BY DEF ReadsHold
<1>2. Placed' = Placed /\ \A r \in Requests : Amount(r)' = Amount(r) /\ bids[r] # "won"
  BY DEF Placed, Amount, OneHighest
<1>3. OneHighest' BY <1>2 DEF OneHighest, Placed
<1>4. ReadsHold' /\ DraftHolds' BY <1>1, <1>2, DraftFrame DEF ReadsHold, Ending
<1>5. \A r \in Requests : wonJobs[r] = 0
  BY <1>2 DEF ToldOnce, LifecycleTypeOK
<1>6. OneEnds' BY <1>1, <1>5 DEF OneEnds, Ending
<1>7. ToldOnce' BY DEF ToldOnce
<1>8. EndEventIsTrue' BY DEF EndEventIsTrue
<1> QED BY <1>3, <1>4, <1>6, <1>7, <1>8

LEMMA FindInv ==
  ASSUME LifecycleTypeOK, RowInv, NEW w \in Workers, FindWinner(w)
  PROVE  RowInv'
<1> USE DEF RowInv
<1>1. PICK r \in IF Placed = {} THEN {NoOne} ELSE Top(Placed) :
        /\ found' = [found EXCEPT ![w] = r]
        /\ workPc' = [workPc EXCEPT ![w] = IF r = NoOne THEN "publish" ELSE "award"]
  BY DEF FindWinner
<1>2. /\ workPc[w] = "find" /\ UNCHANGED <<Rows, actPc, overtaken, ended, wonJobs, endEvents>>
      /\ OthersStay(w) /\ found'[w] = r
      /\ workPc'[w] = IF r = NoOne THEN "publish" ELSE "award"
  BY <1>1 DEF FindWinner, Rows, storeVars, activationVars, pastVars, newsVars, OthersStay, LifecycleTypeOK
<1>3. Placed' = Placed /\ Top(Placed)' = Top(Placed) /\ \A q \in Requests : Amount(q)' = Amount(q)
  BY <1>2 DEF Placed, Top, Amount, Rows
<1>4. OneHighest' BY <1>2, <1>3 DEF OneHighest, Placed, Rows
<1>5. IF r = NoOne THEN Placed = {} ELSE r \in Top(Placed)
  BY NoOneAssumption DEF Top, Placed
<1>6. ReadsHold' /\ DraftHolds'
  BY <1>2, <1>3, <1>5, DraftFrame DEF ReadsHold, Ending, Rows, OthersStay
<1>7. OneEnds' BY <1>2 DEF OneEnds, Ending, OthersStay
<1>8. ToldOnce' /\ EndEventIsTrue' BY <1>2, <1>3 DEF ToldOnce, EndEventIsTrue, Rows
<1> QED BY <1>4, <1>6, <1>7, <1>8

\* The UPDATE to 'won', whether or not its answer reaches the worker.
LEMMA WonInv ==
  ASSUME LifecycleTypeOK, RowInv, NEW w \in Workers, workPc[w] = "award",
         bids' = [bids EXCEPT ![found[w]] = "won"], Onward(w, "tell"),
         UNCHANGED <<status, price, offer, actPc, overtaken, newsVars>>, OthersStay(w)
  PROVE  RowInv'
<1> USE DEF RowInv, newsVars
<1>1. /\ found[w] \in Requests /\ found[w] \in Top(Placed) /\ found[w] \in Placed
      /\ status = "ended"
      /\ \A v \in Workers \ {w} : workPc[v] \notin Ending
  BY DEF ReadsHold, OneEnds, Ending, Top, LifecycleTypeOK, Placed
<1>2. Amount(found[w]) = price /\ bids[found[w]] \in {"winning", "won"}
  BY <1>1, TopLeads DEF LifecycleTypeOK
<1>3. bids'[found[w]] = "won" /\ \A q \in Requests \ {found[w]} : bids'[q] = bids[q]
  BY <1>1 DEF LifecycleTypeOK, StoreTypeOK
<1>4. /\ Placed' = Placed /\ Top(Placed)' = Top(Placed)
      /\ \A r \in Requests : Amount(r)' = Amount(r)
  BY <1>1, <1>3 DEF Placed, Top, Amount
<1>5. OneHighest' BY <1>1, <1>2, <1>3, <1>4 DEF OneHighest, Placed
<1>6. ReadsHold' /\ DraftHolds'
  BY <1>1, <1>3, <1>4, DraftFrame DEF ReadsHold, Ending, OthersStay, Onward
<1>7. \A r \in Requests : wonJobs[r] = 0
  BY DEF OneEnds, LifecycleTypeOK
<1>8. OneEnds' /\ ToldOnce' BY <1>1, <1>7 DEF OneEnds, ToldOnce, OthersStay, Ending, Onward
<1>9. EndEventIsTrue' BY <1>1, <1>3, <1>4 DEF EndEventIsTrue, LifecycleTypeOK, EndEvents
<1> QED BY <1>5, <1>6, <1>8, <1>9

\* The auction-won job is queued, whether or not the worker hears of it.
LEMMA TellInv ==
  ASSUME LifecycleTypeOK, RowInv, NEW w \in Workers, workPc[w] = "tell", QueueWon(w),
         Onward(w, "publish"),
         UNCHANGED <<Rows, actPc, overtaken, endEvents>>, OthersStay(w)
  PROVE  RowInv'
<1> USE DEF RowInv, Rows
<1>1. /\ found[w] \in Requests /\ bids[found[w]] = "won"
      /\ \A v \in Workers \ {w} : workPc[v] \notin Ending
  BY DEF ReadsHold, OneEnds, Ending, LifecycleTypeOK
<1>2. Placed' = Placed /\ Top(Placed)' = Top(Placed) /\ \A r \in Requests : Amount(r)' = Amount(r)
  BY DEF Placed, Top, Amount
<1>3. \A r \in Requests : wonJobs[r] = 0 BY DEF OneEnds, LifecycleTypeOK
<1>4. \A r \in Requests : wonJobs'[r] = IF r = found[w] THEN 1 ELSE 0
  BY <1>3 DEF QueueWon, LifecycleTypeOK
<1>5. OneHighest' BY <1>2 DEF OneHighest, Placed
<1>6. ReadsHold' /\ DraftHolds'
  BY <1>1, <1>2, NoOneAssumption, DraftFrame DEF ReadsHold, Ending, OthersStay, Onward
<1>7. OneEnds' BY <1>1 DEF OneEnds, OthersStay, Ending, Onward
<1>8. ToldOnce' BY <1>1, <1>4 DEF ToldOnce
<1>9. EndEventIsTrue' BY <1>2 DEF EndEventIsTrue
<1> QED BY <1>5, <1>6, <1>7, <1>8, <1>9

\* auction_ended is published, whether or not the worker hears of it.
LEMMA PublishInv ==
  ASSUME LifecycleTypeOK, RowInv, NEW w \in Workers, workPc[w] = "publish",
         endEvents' = endEvents \cup {EndEvent(w)}, workPc'[w] \in {"finish", "idle"},
         UNCHANGED <<Rows, actPc, overtaken, wonJobs>>, OthersStay(w)
  PROVE  RowInv'
<1> USE DEF RowInv, Rows
<1>1. /\ status = "ended" /\ ended[w] = price
      /\ IF found[w] = NoOne THEN Placed = {} ELSE bids[found[w]] = "won"
  BY DEF ReadsHold, Ending
<1>2. Placed' = Placed /\ Top(Placed)' = Top(Placed) /\ \A r \in Requests : Amount(r)' = Amount(r)
  BY DEF Placed, Top, Amount
<1>3. found[w] # NoOne => found[w] \in Placed /\ Amount(found[w]) = price
  BY <1>1 DEF LifecycleTypeOK, Placed, OneHighest
<1>4. EndEvent(w).winner = found[w] /\ EndEvent(w).finalPrice = price
  BY <1>1, <1>3 DEF EndEvent
<1>5. EndEventIsTrue' BY <1>1, <1>2, <1>4 DEF EndEventIsTrue
<1>6. OneHighest' BY <1>2 DEF OneHighest, Placed
<1>7. ReadsHold' /\ DraftHolds' BY <1>2, DraftFrame DEF ReadsHold, Ending, OthersStay
<1>8. OneEnds' /\ ToldOnce' BY DEF OneEnds, OthersStay, Ending, ToldOnce
<1> QED BY <1>5, <1>6, <1>7, <1>8

LEMMA WorkerInv ==
  ASSUME LifecycleTypeOK, JobIsHeld, RowInv, NEW w \in Workers,
         TakeJob(w) \/ Handler(w) \/ AttemptFails(w) \/ WorkerDies(w)
  PROVE  RowInv'
<1> USE DEF LifecycleTypeOK, storeVars, activationVars, pastVars, newsVars, Rows, OthersStay, Onward
<1>1. status' = status /\ UNCHANGED <<actPc, overtaken>> => DraftHolds'
  BY DraftFrame DEF RowInv
<1>2. CASE TakeJob(w) BY <1>1, <1>2, QuietStep DEF TakeJob, Ending
<1>3. CASE FinishJob(w) BY <1>1, <1>3, QuietStep DEF FinishJob, Leave, Ending
<1>4. CASE WorkerDies(w) \/ PublishRefused(w)
  BY <1>1, <1>4, QuietStep DEF WorkerDies, PublishRefused, Leave, Ending
<1>5. CASE EndAuction(w)
  <2>1. CASE status = "active" BY <1>5, <2>1, EndInv DEF EndAuction
  <2>2. CASE status # "active" BY <1>1, <1>5, <2>2, QuietStep DEF EndAuction, Ending
  <2> QED BY <2>1, <2>2
<1>6. CASE FindWinner(w) BY <1>6, FindInv
<1>7. CASE AwardWinner(w) BY <1>7, WonInv DEF AwardWinner
<1>8. CASE TellWinner(w) BY <1>8, TellInv DEF TellWinner
<1>9. CASE PublishEnd(w) BY <1>9, PublishInv DEF PublishEnd
<1>10. CASE AttemptFails(w)
  <2>1. /\ UNCHANGED <<price, offer, actPc, overtaken>>
        /\ workPc'[w] = "idle" /\ OthersStay(w)
    BY <1>10 DEF AttemptFails, Leave
  <2>2. CASE UNCHANGED <<status, bids, newsVars>>
    BY <1>1, <2>1, <2>2, QuietStep DEF Ending
  <2>3. CASE /\ status = "active" /\ status' = "ended" /\ UNCHANGED <<bids, newsVars>>
    BY <2>1, <2>3, EndInv
  <2>4. CASE /\ workPc[w] = "award" /\ bids' = [bids EXCEPT ![found[w]] = "won"]
             /\ UNCHANGED <<status, newsVars>>
    BY <2>1, <2>4, WonInv
  <2>5. CASE /\ workPc[w] = "tell" /\ QueueWon(w) /\ UNCHANGED <<status, bids, endEvents>>
    BY <2>1, <2>5, TellInv
  <2>6. CASE /\ workPc[w] = "publish" /\ endEvents' = endEvents \cup {EndEvent(w)}
             /\ UNCHANGED <<status, bids, wonJobs>>
    BY <2>1, <2>6, PublishInv
  <2> QED BY <1>10, <2>2, <2>3, <2>4, <2>5, <2>6 DEF AttemptFails, HalfDone
<1> QED BY <1>2, <1>3, <1>4, <1>5, <1>6, <1>7, <1>8, <1>9, <1>10 DEF Handler

LEMMA LifecycleStart == LifecycleInit => LInv /\ RowInv /\ ~reopened
<1> SUFFICES ASSUME LifecycleInit PROVE LInv /\ RowInv /\ ~reopened
  OBVIOUS
<1>1. RowInv
  BY DEF LifecycleInit, StoreInit, RowInv, OneHighest, DraftHolds, ReadsHold, OneEnds, ToldOnce,
     EndEventIsTrue, Placed, Ending
<1> QED BY <1>1, LifecycleInitType DEF LInv, LifecycleInit

\* What was opened again once stays so in the history.
LEMMA ReopenedStays ==
  ASSUME reopened, [LifecycleNext]_allVars
  PROVE  reopened'
<1> USE DEF lifecycleVars, activationVars, pastVars
<1>1. CASE UNCHANGED allVars BY <1>1 DEF allVars
<1>2. CASE Surroundings BY <1>2 DEF Surroundings, BidTakes
<1>3. ASSUME NEW a \in Activations, Activation(a) \/ ActivateFails(a) \/ AddLost(a)
      PROVE  reopened'
  BY <1>3 DEF Activation, ReadDraft, Activate, AddJob, ActivateFails, AddLost, UpdateRow
<1>4. ASSUME NEW w \in Workers, TakeJob(w) \/ Handler(w) \/ AttemptFails(w) \/ WorkerDies(w)
      PROVE  reopened'
  BY <1>4 DEF TakeJob, Handler, EndAuction, FindWinner, AwardWinner, TellWinner, PublishEnd,
     PublishRefused, FinishJob, AttemptFails, WorkerDies
<1>5. CASE DelayEnds \/ JobStalls \/ JobIsRemoved
  BY <1>5 DEF DelayEnds, JobStalls, JobIsRemoved
<1> QED BY <1>1, <1>2, <1>3, <1>4, <1>5 DEF LifecycleNext, LifecycleStep

LEMMA LifecycleStepInv ==
  ASSUME LInv, [LifecycleNext]_allVars
  PROVE  LInv'
<1>1. LifecycleTypeOK' /\ JobIsHeld' BY LifecycleTypeStep DEF LInv
<1>2. CASE reopened BY <1>1, <1>2, ReopenedStays DEF LInv
<1>3. CASE ~reopened
  <2>1. LifecycleTypeOK /\ JobIsHeld /\ RowInv BY <1>3 DEF LInv
  <2>2. ASSUME UNCHANGED allVars \/ DelayEnds \/ JobStalls \/ JobIsRemoved PROVE RowInv'
    BY <2>1, <2>2, QuietStep, DraftFrame
       DEF allVars, storeVars, lifecycleVars, activationVars, pastVars, jobVars, workerVars,
           newsVars, Rows, RowInv, DelayEnds, JobStalls, JobIsRemoved
  <2>3. ASSUME Surroundings PROVE RowInv' BY <2>1, <2>3, SurroundingsInv
  <2>4. ASSUME NEW a \in Activations, Activation(a) \/ ActivateFails(a) \/ AddLost(a)
        PROVE  reopened' \/ RowInv'
    BY <2>1, <2>4, ActivationInv
  <2>5. ASSUME NEW w \in Workers, TakeJob(w) \/ Handler(w) \/ AttemptFails(w) \/ WorkerDies(w)
        PROVE  RowInv'
    BY <2>1, <2>5, WorkerInv
  <2>6. reopened' \/ RowInv' BY <2>2, <2>3, <2>4, <2>5 DEF LifecycleNext, LifecycleStep
  <2> QED BY <1>1, <2>6 DEF LInv
<1> QED BY <1>2, <1>3

LEMMA LifecycleInvariant == LifecycleSpec => []LInv
BY LifecycleStart, LifecycleStepInv, PTL DEF LifecycleSpec

\* An auction gives itself to its highest bid, after its end and to nobody else,
\* however many calls activate it, however often its job is attempted and by however
\* many workers at once, unless an activation opens it again after its end.
THEOREM HighestBidWins == LifecycleSpec => []WinnerIsHighest
<1>1. LInv => WinnerIsHighest BY HighestWins DEF LInv, LifecycleTypeOK, RowInv, WinnerIsHighest
<1> QED BY <1>1, LifecycleInvariant, PTL

\* Until then its winner is told at most once and nobody else is, and every auction_ended
\* event names the winner and the final price.
THEOREM NewsAreTrue == LifecycleSpec => []NewsIsTrue
<1>1. LInv => NewsIsTrue BY DEF LInv, RowInv, NewsIsTrue
<1> QED BY <1>1, LifecycleInvariant, PTL

\* A step of the activation or of the worker does to the rows what placeBid
\* expects, or nothing, or it is the late UPDATE that opens the ended auction.
LEMMA LifecycleRows ==
  ASSUME LInv, ~reopened, LifecycleStep
  PROVE  \/ OpenDraft \/ EndRow \/ UNCHANGED storeVars
         \/ \E r \in Requests : AwardRow(r)
         \/ reopened' /\ \E a \in overtaken : Reopens(a)
<1> USE DEF storeVars
<1>1. /\ LifecycleTypeOK /\ RowInv
      /\ DraftHolds
  BY DEF LInv, RowInv
<1>2. \A w \in Workers : workPc[w] = "award" =>
        found[w] \in Requests /\ found[w] \in Top(Placed) /\ status = "ended"
  BY <1>1 DEF RowInv, LifecycleTypeOK, ReadsHold, Ending
<1>3. ASSUME NEW a \in Activations, actPc[a] = "update", UpdateRow(a)
      PROVE  \/ OpenDraft \/ UNCHANGED storeVars
             \/ reopened' /\ \E b \in overtaken : Reopens(b)
  <2>1. status = "draft" \/ (a \in overtaken /\ status \in {"active", "ended"})
    BY <1>1, <1>3 DEF DraftHolds
  <2>2. CASE status = "draft" BY <1>3, <2>2 DEF UpdateRow, OpenDraft
  <2>3. CASE status = "active" BY <1>3, <2>3 DEF UpdateRow, ActivateRow
  <2>4. CASE status = "ended"
    <3>1. a \in overtaken BY <2>1, <2>4
    <3> QED BY <1>3, <2>4, <3>1 DEF UpdateRow, Reopens
  <2> QED BY <2>1, <2>2, <2>3, <2>4
<1>4. ASSUME NEW a \in Activations, Activation(a) \/ ActivateFails(a) \/ AddLost(a)
      PROVE  \/ OpenDraft \/ UNCHANGED storeVars
             \/ reopened' /\ \E b \in overtaken : Reopens(b)
  BY <1>3, <1>4 DEF Activation, ReadDraft, Activate, AddJob, ActivateFails, AddLost
<1>5. ASSUME NEW w \in Workers, TakeJob(w) \/ Handler(w) \/ AttemptFails(w) \/ WorkerDies(w)
      PROVE  EndRow \/ UNCHANGED storeVars \/ \E r \in Requests : AwardRow(r)
  <2>1. CASE EndAuction(w) BY <2>1 DEF EndAuction, EndRow
  <2>2. CASE AwardWinner(w) BY <1>2, <2>2 DEF AwardWinner, AwardRow
  <2>3. CASE AttemptFails(w) BY <1>2, <2>3 DEF AttemptFails, HalfDone, EndRow, AwardRow
  <2> QED BY <1>5, <2>1, <2>2, <2>3
     DEF TakeJob, Handler, FindWinner, TellWinner, PublishEnd, PublishRefused, FinishJob,
         WorkerDies
<1>6. CASE DelayEnds \/ JobStalls \/ JobIsRemoved
  BY <1>6 DEF DelayEnds, JobStalls, JobIsRemoved
<1> QED BY <1>4, <1>5, <1>6 DEF LifecycleStep

\* Seen from placeBid, the activations and the worker are its environment; the one
\* step that is not is the UPDATE of an activation that was overtaken.
THEOREM LifecycleIsEnvironment == LifecycleSpec => ActsAsEnvironment
<1> DEFINE Environs == \/ CreateRow \/ OpenDraft \/ EndTimePasses \/ EndRow
                       \/ \E r \in Requests : AwardRow(r) \/ BidTakes(r)
                       \/ \E a \in overtaken : Reopens(a)
                       \/ reopened
<1>1. ASSUME LInv, [LifecycleNext]_allVars PROVE [Environs]_storeVars
  BY <1>1, LifecycleRows DEF LifecycleNext, Surroundings, allVars
<1>2. LifecycleSpec => [][Environs]_storeVars
  BY <1>1, LifecycleInvariant, PTL DEF LifecycleSpec
<1> QED BY <1>2 DEF ActsAsEnvironment

-----------------------------------------------------------------------------
(* With one activation there is no other to be overtaken by.                *)

OneActivation == \A a, b \in Activations : a = b

NeverLate == overtaken = {} /\ ~reopened

LEMMA OneIsNeverLate ==
  ASSUME OneActivation, LInv, NeverLate, LifecycleStep
  PROVE  NeverLate'
<1> USE DEF NeverLate, pastVars, activationVars
<1>1. \A a \in Activations : actPc[a] = "update" => status = "draft"
  BY DEF LInv, RowInv, DraftHolds
<1>2. ASSUME NEW a \in Activations, Activation(a) \/ ActivateFails(a) \/ AddLost(a)
      PROVE  NeverLate'
  <2>1. actPc[a] = "update" /\ UpdateRow(a) => NeverLate'
    BY <1>1 DEF UpdateRow, OneActivation
  <2>2. overtaken \ {a} = overtaken BY DEF NeverLate
  <2> QED BY <1>2, <2>1, <2>2
          DEF Activation, ReadDraft, Activate, AddJob, ActivateFails, AddLost
<1>3. ASSUME NEW w \in Workers, TakeJob(w) \/ Handler(w) \/ AttemptFails(w) \/ WorkerDies(w)
      PROVE  NeverLate'
  BY <1>3 DEF TakeJob, Handler, EndAuction, FindWinner, AwardWinner, TellWinner, PublishEnd,
     PublishRefused, FinishJob, AttemptFails, WorkerDies
<1>4. CASE DelayEnds \/ JobStalls \/ JobIsRemoved
  BY <1>4 DEF DelayEnds, JobStalls, JobIsRemoved
<1> QED BY <1>2, <1>3, <1>4 DEF LifecycleStep

LEMMA OneLifecycleNeverLate == OneActivation /\ LifecycleSpec => []NeverLate
<1>1. LifecycleInit => NeverLate BY DEF LifecycleInit, NeverLate
<1>2. ASSUME OneActivation, LInv, NeverLate, [LifecycleNext]_allVars PROVE NeverLate'
  <2>1. CASE UNCHANGED allVars \/ Surroundings
    BY <1>2, <2>1 DEF NeverLate, allVars, lifecycleVars, activationVars, pastVars, Surroundings,
       BidTakes
  <2> QED BY <1>2, <2>1, OneIsNeverLate DEF LifecycleNext
<1>3. CASE OneActivation
  BY <1>1, <1>2, <1>3, LifecycleInvariant, PTL DEF LifecycleSpec
<1> QED BY <1>3

\* An auction that one call activates never opens again after its end; with a
\* second activation under way it may.
THEOREM OneActivationStaysEnded == OneActivation /\ LifecycleSpec => EndedStaysEnded
<1>1. ASSUME LInv, NeverLate, [LifecycleNext]_allVars
      PROVE  [status = "ended" => status' = "ended"]_allVars
  <2> SUFFICES ASSUME LInv, NeverLate, LifecycleNext, status = "ended" PROVE status' = "ended"
    BY <1>1
  <2>1. CASE Surroundings
    BY <2>1 DEF Surroundings, CreateRow, EndTimePasses, BidTakes
  <2>2. CASE LifecycleStep
    BY <2>2, LifecycleRows DEF NeverLate, OpenDraft, EndRow, AwardRow, storeVars
  <2> QED BY <2>1, <2>2 DEF LifecycleNext
<1>2. OneActivation /\ LifecycleSpec => [][status = "ended" => status' = "ended"]_allVars
  BY <1>1, LifecycleInvariant, OneLifecycleNeverLate, PTL DEF LifecycleSpec
<1> QED BY <1>2 DEF EndedStaysEnded

-----------------------------------------------------------------------------
(* API and worker together, until an activation opens the ended auction.    *)
(* IInv /\ LInv is inductive for all of them: each half is kept by the     *)
(* other's steps because of what the other half says.                       *)

\* A call of placeBid leaves the activation and the worker what they know.
LEMMA CallKeepsLInv ==
  ASSUME IInv, LInv, ~reopened, NEW r \in Requests, CallStep(r) \/ FaultStep(r),
         UNCHANGED lifecycleVars
  PROVE  LInv'
<1> USE DEF lifecycleVars, activationVars, pastVars, jobVars, workerVars, newsVars
<1>1. StoreTypeOK' BY StepType DEF IInv, Next, TypeOK
<1>2. LifecycleTypeOK' /\ JobIsHeld' BY <1>1 DEF LInv, LifecycleTypeOK, JobIsHeld
<1>3. RowInv /\ StoreTypeOK BY DEF LInv, LifecycleTypeOK
<1>4. CASE UNCHANGED <<status, price, bids, offer>>
  <2>1. RowInv' BY <1>3, <1>4, QuietStep, DraftFrame DEF Rows, RowInv
  <2> QED BY <1>2, <2>1 DEF LInv
<1>5. CASE pc[r] = "commit" /\ ~tx[r].doomed /\ Apply(r)
  <2>1. /\ status = "active" /\ price < Amount(r) /\ price' = Amount(r)
        /\ status' = status /\ offer' = offer
        /\ r \notin Placed /\ Placed' = Placed \cup {r} /\ bids'[r] = "winning"
        /\ \A q \in Placed : bids'[q] = "outbid"
    BY <1>5, ApplyShape
  <2>2. RowInv' BY <1>3, <2>1, TakenInv
  <2> QED BY <1>2, <2>2 DEF LInv
<1> QED BY <1>4, <1>5, CallShape

\* Until a reopening a step of the system is a step of placeBid and its environment.
LEMMA SystemStepIsNext ==
  ASSUME LInv, ~reopened, ~reopened', [SystemNext]_systemVars
  PROVE  [Next]_vars
<1> USE DEF bidVars
<1>1. CASE UNCHANGED systemVars BY <1>1 DEF systemVars
<1>2. CASE Elsewhere BY <1>2 DEF Elsewhere, Next, Environment
<1>3. ASSUME NEW r \in Requests, CallStep(r) \/ FaultStep(r) PROVE Next
  BY <1>3 DEF Next
<1>4. CASE LifecycleStep /\ UNCHANGED bidVars
  <2>1. CASE UNCHANGED storeVars BY <1>4, <2>1 DEF vars
  <2>2. CASE OpenDraft \/ EndRow \/ \E r \in Requests : AwardRow(r)
    BY <1>4, <2>2 DEF Next, Environment
  <2> QED BY <1>4, <2>1, <2>2, LifecycleRows
<1> QED BY <1>1, <1>2, <1>3, <1>4 DEF SystemNext

SystemInv == reopened \/ (IInv /\ LInv)

LEMMA SystemStepInv ==
  ASSUME SystemInv, [SystemNext]_systemVars
  PROVE  SystemInv'
<1>1. CASE UNCHANGED systemVars \/ Elsewhere \/ LifecycleStep
  <2>1. [LifecycleNext]_allVars
    BY <1>1 DEF systemVars, vars, allVars, Elsewhere, LifecycleNext, Surroundings
  <2>2. reopened => reopened' BY <2>1, ReopenedStays
  <2>3. ~reopened => LInv' BY <2>1, LifecycleStepInv DEF SystemInv
  <2>4. ~reopened /\ ~reopened' => IInv' BY SystemStepIsNext, StepInv DEF SystemInv
  <2> QED BY <2>2, <2>3, <2>4 DEF SystemInv
<1>2. ASSUME NEW r \in Requests, CallStep(r) \/ FaultStep(r), UNCHANGED lifecycleVars
      PROVE  SystemInv'
  <2>1. reopened' = reopened BY <1>2 DEF lifecycleVars, activationVars, pastVars
  <2>2. ~reopened => LInv' BY <1>2, CallKeepsLInv DEF SystemInv
  <2>3. ~reopened => IInv' BY <2>1, SystemStepIsNext, StepInv DEF SystemInv
  <2> QED BY <2>1, <2>2, <2>3 DEF SystemInv
<1> QED BY <1>1, <1>2 DEF SystemNext

LEMMA SystemInvariant == SystemSpec => []SystemInv
<1>1. SystemInit => SystemInv BY InitInv, LifecycleStart DEF SystemInit, SystemInv
<1> QED BY <1>1, SystemStepInv, PTL DEF SystemSpec

\* With activateAuction and the worker statement by statement in the place of its
\* environment, placeBid behaves as it does among any other parts, as long as no
\* activation opens the ended auction again: each of its theorems holds of the whole.
THEOREM SystemIsBidService == SystemSpec /\ []~reopened => Spec
<1>1. SystemInit => Init BY DEF SystemInit
<1>2. ASSUME SystemInv, ~reopened, ~reopened', [SystemNext]_systemVars PROVE [Next]_vars
  BY <1>2, SystemStepIsNext DEF SystemInv
<1> QED BY <1>1, <1>2, SystemInvariant, PTL DEF SystemSpec, Spec

\* The whole system, with its races between bids and the end of the auction,
\* implements an ascending auction, until an activation opens it again after its end.
THEOREM SystemIsAnEnglishAuction == SystemSpec /\ []~reopened => ImplementsEnglishAuction
BY SystemIsBidService, BidServiceIsAnEnglishAuction, PTL

LEMMA OneSystemNeverLate == OneActivation /\ SystemSpec => []NeverLate
<1>1. SystemInit => NeverLate BY DEF SystemInit, LifecycleInit, NeverLate
<1>2. ASSUME OneActivation, SystemInv, NeverLate, [SystemNext]_systemVars PROVE NeverLate'
  <2>1. CASE UNCHANGED lifecycleVars
    BY <1>2, <2>1 DEF NeverLate, lifecycleVars, activationVars, pastVars
  <2>2. CASE LifecycleStep
    BY <1>2, <2>2, OneIsNeverLate DEF SystemInv, NeverLate
  <2> QED BY <1>2, <2>1, <2>2 DEF SystemNext, systemVars, Elsewhere
<1>3. CASE OneActivation
  BY <1>1, <1>2, <1>3, SystemInvariant, PTL DEF SystemSpec
<1> QED BY <1>3

\* With one activation that is always.
THEOREM OneActivationIsEnough == OneActivation /\ SystemSpec => ImplementsEnglishAuction
<1>1. NeverLate => ~reopened BY DEF NeverLate
<1> QED BY <1>1, OneSystemNeverLate, SystemIsAnEnglishAuction, PTL

\* Bids placed statement by statement, an auction that ends between any two of
\* them, and any number of activations: until one opens the ended auction again only
\* the highest bid wins.
THEOREM SystemHighestBidWins == SystemSpec => []WinnerIsHighest
<1>1. SystemInv => WinnerIsHighest
  BY HighestWins DEF SystemInv, LInv, LifecycleTypeOK, RowInv, WinnerIsHighest
<1> QED BY <1>1, SystemInvariant, PTL

\* What the winner and the watchers hear of the end is what the rows say, with bids
\* placed statement by statement.
THEOREM SystemNewsAreTrue == SystemSpec => []NewsIsTrue
<1>1. SystemInv => NewsIsTrue BY DEF SystemInv, LInv, RowInv, NewsIsTrue
<1> QED BY <1>1, SystemInvariant, PTL
=============================================================================
