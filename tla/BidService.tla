----------------------------- MODULE BidService -----------------------------
(***************************************************************************)
(* placeBid of services/bid.service.ts: one request is one call, possibly  *)
(* each in an API instance of its own.  Every awaited statement is an      *)
(* action, so calls interleave wherever the code awaits.                   *)
(*                                                                         *)
(* A transaction's writes stay in tx[r] until COMMIT.  PostgreSQL aborts a *)
(* transaction at the first statement that fails: code that catches the    *)
(* error and goes on leaves tx[r].doomed, and COMMIT then rolls back       *)
(* without an error.  Faults names the failures a run allows.              *)
(***************************************************************************)
EXTENDS AuctionStore

CONSTANTS
  Faults,         \* the kinds of failure that may happen
  EndTimeIsDate   \* does the driver hand end_time over as a Date?

FaultKinds == {"statement", "swallowed", "commit", "store", "queue", "crash"}

ASSUME FaultsAssumption == Faults \subseteq FaultKinds
ASSUME EndTimeAssumption == EndTimeIsDate \in BOOLEAN

VARIABLES
  keyStatus,   \* bid_requests.status of each key, "absent" without a row
  events,      \* bid_events, append only
  advLock,     \* holder of pg_advisory_xact_lock(hashtext(auctionId))
  pc,          \* the statement each call awaits
  tx,          \* uncommitted writes of each call's transaction
  displaced,   \* the bid read as currentHighest
  result,      \* what the call answers, once known
  broadcasts,  \* bids announced as bid_placed
  queue        \* outbid jobs in the notifications queue

callVars == <<pc, tx, displaced, result>>
sideVars == <<broadcasts, queue>>
vars == <<storeVars, keyStatus, events, advLock, callVars, sideVars>>

Rejections == {"AUCTION_NOT_FOUND", "AUCTION_NOT_ACTIVE", "AUCTION_ENDED",
               "CANNOT_BID_OWN_AUCTION", "BID_TOO_LOW", "INTERNAL"}
Refusals == {"INVALID_AMOUNT", "INVALID_IDEMPOTENCY_KEY", "REQUEST_IN_PROGRESS"}
Results == {"none", "accepted"} \cup Rejections \cup Refusals

Outcomes == {"accepted", "rejected_too_low", "rejected_ended", "rejected_own_auction",
             "rejected_not_active", "rejected_invalid_amount",
             "rejected_cas_failed", "error_internal"}

OutcomeOf(code) ==
  CASE code = "BID_TOO_LOW" -> "rejected_too_low"
    [] code = "AUCTION_ENDED" -> "rejected_ended"
    [] code = "AUCTION_NOT_ACTIVE" -> "rejected_not_active"
    [] code = "CANNOT_BID_OWN_AUCTION" -> "rejected_own_auction"
    [] OTHER -> "error_internal"

\* Before the transaction, inside it, after it failed, after it committed.
GatePcs == {"claim", "conflict", "reclaim"}
TxPcs == {"dup", "advisory", "cas", "sweep", "insert", "resweep", "audit", "commit"}
FailPcs == {"rollback", "markFailed", "auditRejection"}
SidePcs == {"broadcast", "notify", "complete"}
Stopped == {"done", "crashed"}
Pcs == {"idle", "lock"} \cup GatePcs \cup TxPcs \cup FailPcs \cup SidePcs \cup Stopped

WriteKinds == {"ended", "price", "bid", "accepted", "cas_failed"}
NoTx == [doomed |-> FALSE, wrote |-> {}, swept |-> {}]
TxRecords == [doomed : BOOLEAN, wrote : SUBSET WriteKinds, swept : SUBSET Requests]
OutbidJobs == [to : Users, bid : Requests]
AuditRows == [bid : Requests, outcome : Outcomes]

TypeOK ==
  /\ StoreTypeOK
  /\ keyStatus \in [Keys -> {"absent", "pending", "completed", "failed"}]
  /\ events \subseteq AuditRows
  /\ advLock \in Requests \cup {NoOne}
  /\ pc \in [Requests -> Pcs]
  /\ tx \in [Requests -> TxRecords]
  /\ displaced \in [Requests -> Requests \cup {NoOne}]
  /\ result \in [Requests -> Results]
  /\ broadcasts \subseteq Requests
  /\ queue \subseteq OutbidJobs
  /\ \A r \in Requests : pc[r] = "notify" => displaced[r] # NoOne

Init ==
  /\ StoreInit
  /\ keyStatus = [k \in Keys |-> "absent"]
  /\ events = {}
  /\ advLock = NoOne
  /\ pc = [r \in Requests |-> "idle"]
  /\ tx = [r \in Requests |-> NoTx]
  /\ displaced = [r \in Requests |-> NoOne]
  /\ result = [r \in Requests |-> "none"]
  /\ broadcasts = {}
  /\ queue = {}

-----------------------------------------------------------------------------
(* What a transaction sees: the committed rows under its own writes.        *)

KeyOf(r) == offer[r].key
Keyed(r) == KeyOf(r) \in Keys
SameKey(q, r) == Keyed(r) /\ KeyOf(q) = KeyOf(r)

SeenPrice(r) == IF "price" \in tx[r].wrote THEN Amount(r) ELSE price

SeenBid(r, q) ==
  IF q \in tx[r].swept THEN "outbid"
  ELSE IF q = r /\ "bid" \in tx[r].wrote THEN "winning"
  ELSE bids[q]

LiveBids(r) == {q \in Requests : SeenBid(r, q) \in Live}

Row(r, outcome) == [bid |-> r, outcome |-> outcome]

\* The audit rows a transaction inserted.
TxEvents(r) ==
  (IF "accepted" \in tx[r].wrote THEN {Row(r, "accepted")} ELSE {})
  \cup (IF "cas_failed" \in tx[r].wrote THEN {Row(r, "rejected_cas_failed")} ELSE {})

Goto(r, from, to) == pc[r] = from /\ pc' = [pc EXCEPT ![r] = to]

\* The call ends with an answer.
Answer(r, code) ==
  /\ pc' = [pc EXCEPT ![r] = "done"]
  /\ result' = [result EXCEPT ![r] = code]

\* throw inside the transaction callback: drizzle rolls back, then the catch.
Throw(r, code) ==
  /\ pc' = [pc EXCEPT ![r] = "rollback"]
  /\ result' = [result EXCEPT ![r] = code]

Write(r, kinds) == tx' = [tx EXCEPT ![r].wrote = @ \cup kinds]

\* COMMIT or ROLLBACK ends the transaction and frees what it locked.
EndTx(r) ==
  /\ tx' = [tx EXCEPT ![r] = NoTx]
  /\ rowLock' = IF rowLock = r THEN NoOne ELSE rowLock
  /\ advLock' = IF advLock = r THEN NoOne ELSE advLock

\* An autocommitted statement whose failure the code catches and logs.
MayBeLost == "store" \in Faults

-----------------------------------------------------------------------------
(* Before the transaction: input checks and the claim of the key.  The check *)
(* of the amount is on the number the caller sent, and a positive number     *)
(* below half a cent is 0 from then on: only zero may be refused, it need not. *)

RejectAmount(r) ==
  /\ pc[r] = "idle" /\ Amount(r) = 0
  /\ Answer(r, "INVALID_AMOUNT")
  /\ \/ events' = events \cup {Row(r, "rejected_invalid_amount")}
     \/ MayBeLost /\ UNCHANGED events
  /\ UNCHANGED <<storeVars, keyStatus, advLock, tx, displaced, sideVars>>

RejectKey(r) ==
  /\ pc[r] = "idle" /\ KeyOf(r) = BadKey
  /\ Answer(r, "INVALID_IDEMPOTENCY_KEY")
  /\ UNCHANGED <<storeVars, keyStatus, events, advLock, tx, displaced, sideVars>>

Admit(r) ==
  /\ KeyOf(r) # BadKey
  /\ Goto(r, "idle", IF Keyed(r) THEN "claim" ELSE "lock")
  /\ UNCHANGED <<storeVars, keyStatus, events, advLock, tx, displaced, result, sideVars>>

TakeKey(r) == keyStatus' = [keyStatus EXCEPT ![KeyOf(r)] = "pending"]

\* INSERT INTO bid_requests ... ON CONFLICT (idempotency_key) DO NOTHING.  The new
\* row refers to the auction (migration 0001): without one PostgreSQL refuses it,
\* and the error leaves placeBid from outside the try.  A row that conflicts is
\* never inserted, so its auction is not looked up.
RefusedByForeignKey(r) == keyStatus[KeyOf(r)] = "absent" /\ status = "absent"

ClaimKey(r) ==
  /\ pc[r] = "claim"
  /\ \/ /\ RefusedByForeignKey(r)
        /\ Answer(r, "INTERNAL")
        /\ UNCHANGED keyStatus
     \/ /\ keyStatus[KeyOf(r)] = "absent" /\ status # "absent"
        /\ TakeKey(r)
        /\ Goto(r, "claim", "lock")
        /\ UNCHANGED result
     \/ /\ keyStatus[KeyOf(r)] # "absent"
        /\ Goto(r, "claim", "conflict")
        /\ UNCHANGED <<keyStatus, result>>
  /\ UNCHANGED <<storeVars, events, advLock, tx, displaced, sideVars>>

ReadKey(r) ==
  /\ pc[r] = "conflict"
  /\ \/ /\ keyStatus[KeyOf(r)] = "failed"
        /\ Goto(r, "conflict", "reclaim")
        /\ UNCHANGED result
     \/ /\ keyStatus[KeyOf(r)] # "failed"
        /\ Answer(r, "REQUEST_IN_PROGRESS")
  /\ UNCHANGED <<storeVars, keyStatus, events, advLock, tx, displaced, sideVars>>

\* Mutant: the UPDATE does not ask for status = 'failed'.
ReclaimAnyKey(r) ==
  /\ Goto(r, "reclaim", "lock")
  /\ TakeKey(r)
  /\ UNCHANGED <<storeVars, events, advLock, tx, displaced, result, sideVars>>

\* UPDATE ... SET status = 'pending' WHERE ... AND status = 'failed'.
ReclaimKey(r) ==
  /\ pc[r] = "reclaim"
  /\ \/ /\ keyStatus[KeyOf(r)] = "failed"
        /\ TakeKey(r)
        /\ Goto(r, "reclaim", "lock")
        /\ UNCHANGED result
     \/ /\ keyStatus[KeyOf(r)] # "failed"
        /\ Answer(r, "REQUEST_IN_PROGRESS")
        /\ UNCHANGED keyStatus
  /\ UNCHANGED <<storeVars, events, advLock, tx, displaced, sideVars>>

\* These statements are outside the try: the error is the answer, and when the
\* connection is lost after the statement was done, the key stays 'pending'.
GateFails(r) ==
  /\ pc[r] \in GatePcs
  /\ Answer(r, "INTERNAL")
  /\ \/ "statement" \in Faults /\ UNCHANGED keyStatus
     \/ /\ "commit" \in Faults
        /\ \/ pc[r] = "claim" /\ keyStatus[KeyOf(r)] = "absent" /\ status # "absent"
           \/ pc[r] = "reclaim" /\ keyStatus[KeyOf(r)] = "failed"
        /\ TakeKey(r)
  /\ UNCHANGED <<storeVars, events, advLock, tx, displaced, sideVars>>

-----------------------------------------------------------------------------
(* The transaction.                                                         *)

\* Steps 2 and 3 of the transaction, on the row the lock returned.
Verdict(r) ==
  IF status = "absent" THEN "AUCTION_NOT_FOUND"
  ELSE IF status # "active" THEN "AUCTION_NOT_ACTIVE"
  ELSE IF endPassed /\ EndTimeIsDate THEN "AUCTION_ENDED"
  ELSE IF Bidder(r) = Seller THEN "CANNOT_BID_OWN_AUCTION"
  ELSE IF Amount(r) <= price THEN "BID_TOO_LOW"
  ELSE "ok"

\* Mutant: a plain SELECT, without FOR UPDATE.
ReadRow(r) ==
  /\ pc[r] = "lock"
  /\ \/ Verdict(r) = "ok" /\ Goto(r, "lock", "dup") /\ UNCHANGED result
     \/ Verdict(r) # "ok" /\ Throw(r, Verdict(r))
  /\ UNCHANGED <<storeVars, keyStatus, events, advLock, tx, displaced, sideVars>>

\* SELECT ... FOR UPDATE, and the checks that follow without an await.
LockRow(r) ==
  /\ pc[r] = "lock"
  /\ RowFreeFor(r)
  /\ rowLock' = IF status = "absent" THEN rowLock ELSE r
  /\ \/ Verdict(r) = "ok" /\ Goto(r, "lock", "dup") /\ UNCHANGED <<result, tx>>
     \/ /\ Verdict(r) # "ok"
        /\ Throw(r, Verdict(r))
        /\ Write(r, IF Verdict(r) = "AUCTION_ENDED" THEN {"ended"} ELSE {})
  /\ UNCHANGED <<status, endPassed, price, bids, offer, keyStatus, events, advLock,
                 displaced, sideVars>>

\* Step 3b: the same bidder's same amount is returned as it stands.
Duplicates(r) ==
  {q \in Requests : /\ SeenBid(r, q) = "winning"
                    /\ Bidder(q) = Bidder(r) /\ Amount(q) = Amount(r)}

CheckDuplicate(r) ==
  /\ Goto(r, "dup", IF Duplicates(r) = {} THEN "advisory" ELSE "commit")
  /\ UNCHANGED <<storeVars, keyStatus, events, advLock, tx, displaced, result, sideVars>>

AdvisoryLock(r) ==
  /\ Goto(r, "advisory", "cas")
  /\ advLock \in {NoOne, r}
  /\ advLock' = r
  /\ UNCHANGED <<storeVars, keyStatus, events, tx, displaced, result, sideVars>>

\* Step 5: UPDATE auctions ... WHERE status = 'active' AND current_price < amount.
CasMatches(r) == status = "active" /\ SeenPrice(r) < Amount(r)

Cas(r) ==
  /\ pc[r] = "cas"
  /\ RowFreeFor(r)
  /\ rowLock' = r
  /\ pc' = [pc EXCEPT ![r] = IF CasMatches(r) THEN "sweep" ELSE "rollback"]
  /\ result' = IF CasMatches(r) THEN result ELSE [result EXCEPT ![r] = "BID_TOO_LOW"]
  /\ Write(r, IF CasMatches(r) THEN {"price"} ELSE {"cas_failed"})
  /\ UNCHANGED <<status, endPassed, price, bids, offer, keyStatus, events, advLock,
                 displaced, sideVars>>

\* Mutant: steps 6 and 7 swapped, so that the read finds no live bid.
SweepFirst(r) ==
  /\ Goto(r, "sweep", "insert")
  /\ tx' = [tx EXCEPT ![r].swept = @ \cup LiveBids(r)]
  /\ UNCHANGED <<storeVars, keyStatus, events, advLock, displaced, result, sideVars>>

\* Steps 6 and 7: read the current highest, then mark every live bid outbid.
Sweep(r) ==
  /\ Goto(r, "sweep", "insert")
  /\ \E q \in IF LiveBids(r) = {} THEN {NoOne} ELSE Top(LiveBids(r)) :
       displaced' = [displaced EXCEPT ![r] = q]
  /\ tx' = [tx EXCEPT ![r].swept = @ \cup LiveBids(r)]
  /\ UNCHANGED <<storeVars, keyStatus, events, advLock, result, sideVars>>

\* The unique index one_winner_per_auction refuses a second winning row.
IndexRefuses(r) == \E q \in Requests : SeenBid(r, q) = "winning"

\* Step 8.  After a 23505 the retry runs in an aborted transaction and throws.
Insert(r) ==
  /\ pc[r] = "insert"
  /\ pc' = [pc EXCEPT ![r] = IF IndexRefuses(r) THEN "rollback" ELSE "resweep"]
  /\ result' = IF IndexRefuses(r) THEN [result EXCEPT ![r] = "INTERNAL"] ELSE result
  /\ Write(r, IF IndexRefuses(r) THEN {} ELSE {"bid"})
  /\ UNCHANGED <<storeVars, keyStatus, events, advLock, displaced, sideVars>>

\* Mutant: the second sweep forgets AND id != newBid.id.
ResweepAll(r) ==
  /\ Goto(r, "resweep", "audit")
  /\ tx' = [tx EXCEPT ![r].swept = @ \cup LiveBids(r)]
  /\ UNCHANGED <<storeVars, keyStatus, events, advLock, displaced, result, sideVars>>

\* Step 9: a failure is caught, but the transaction is aborted.
Resweep(r) ==
  /\ Goto(r, "resweep", "audit")
  /\ \/ tx' = [tx EXCEPT ![r].swept = @ \cup (LiveBids(r) \ {r})]
     \/ "swallowed" \in Faults /\ tx' = [tx EXCEPT ![r].doomed = TRUE]
  /\ UNCHANGED <<storeVars, keyStatus, events, advLock, displaced, result, sideVars>>

\* Mutant: writeBidAudit is not given tx and writes through the global client.
AuditOutside(r) ==
  /\ Goto(r, "audit", "commit")
  /\ events' = events \cup {Row(r, "accepted")}
  /\ UNCHANGED <<storeVars, keyStatus, advLock, tx, displaced, result, sideVars>>

\* Step 10: writeBidAudit catches its own failure.
AuditAccepted(r) ==
  /\ Goto(r, "audit", "commit")
  /\ \/ ~tx[r].doomed /\ Write(r, {"accepted"})
     \/ /\ tx[r].doomed \/ "swallowed" \in Faults
        /\ tx' = [tx EXCEPT ![r].doomed = TRUE]
  /\ UNCHANGED <<storeVars, keyStatus, events, advLock, displaced, result, sideVars>>

\* The transaction's writes become the rows everybody sees.
Apply(r) ==
  /\ status' = IF "ended" \in tx[r].wrote THEN "ended" ELSE status
  /\ price' = SeenPrice(r)
  /\ bids' = [q \in Requests |-> SeenBid(r, q)]
  /\ events' = events \cup TxEvents(r)
  /\ UNCHANGED <<endPassed, offer>>

Discard == UNCHANGED <<status, endPassed, price, bids, offer, events>>

AfterSideEffects(r) == IF Keyed(r) THEN "complete" ELSE "done"

\* COMMIT of an aborted transaction answers ROLLBACK, which is not an error.
Commit(r) ==
  /\ Goto(r, "commit", IF "bid" \in tx[r].wrote THEN "broadcast" ELSE AfterSideEffects(r))
  /\ result' = [result EXCEPT ![r] = "accepted"]
  /\ IF tx[r].doomed THEN Discard ELSE Apply(r)
  /\ EndTx(r)
  /\ UNCHANGED <<keyStatus, displaced, sideVars>>

\* Mutant: the catch block does not mark the key failed.
ForgetKey(r) == "auditRejection"

\* Mutant: the key is completed in a finally block.
AlwaysComplete(r) == IF Keyed(r) THEN "complete" ELSE "auditRejection"

AfterFailure(r) == IF Keyed(r) THEN "markFailed" ELSE "auditRejection"

\* Mutant: an error of COMMIT is taken for success.
CommitAssumed(r) ==
  /\ "commit" \in Faults
  /\ Goto(r, "commit", "broadcast")
  /\ result' = [result EXCEPT ![r] = "accepted"]
  /\ Discard \/ (~tx[r].doomed /\ Apply(r))
  /\ EndTx(r)
  /\ UNCHANGED <<keyStatus, displaced, sideVars>>

\* The connection is lost at COMMIT: before the server did it, or after.
CommitFails(r) ==
  /\ "commit" \in Faults
  /\ Goto(r, "commit", AfterFailure(r))
  /\ result' = [result EXCEPT ![r] = "INTERNAL"]
  /\ Discard \/ (~tx[r].doomed /\ Apply(r))
  /\ EndTx(r)
  /\ UNCHANGED <<keyStatus, displaced, sideVars>>

\* A statement that the callback does not guard fails: drizzle rolls back.
StatementFails(r) ==
  /\ "statement" \in Faults
  /\ pc[r] \in {"lock", "dup", "advisory", "cas", "sweep", "insert"}
  /\ Throw(r, "INTERNAL")
  /\ UNCHANGED <<storeVars, keyStatus, events, advLock, tx, displaced, sideVars>>

\* Mutant: the statements run on client, not on tx, and nothing rolls back.
NoRollback(r) ==
  /\ Goto(r, "rollback", AfterFailure(r))
  /\ Apply(r)
  /\ EndTx(r)
  /\ UNCHANGED <<keyStatus, displaced, result, sideVars>>

Rollback(r) ==
  /\ Goto(r, "rollback", AfterFailure(r))
  /\ EndTx(r)
  /\ UNCHANGED <<status, endPassed, price, bids, offer, keyStatus, events, displaced,
                 result, sideVars>>

-----------------------------------------------------------------------------
(* After the transaction: the catch block, or the side effects.             *)

MarkKeyFailed(r) ==
  /\ Goto(r, "markFailed", "auditRejection")
  /\ \/ keyStatus' = [keyStatus EXCEPT ![KeyOf(r)] = "failed"]
     \/ MayBeLost /\ UNCHANGED keyStatus
  /\ UNCHANGED <<storeVars, events, advLock, tx, displaced, result, sideVars>>

\* Mutant: the rejection is audited through the transaction that rolled back.
AuditRolledBack(r) ==
  /\ Goto(r, "auditRejection", "done")
  /\ UNCHANGED <<storeVars, keyStatus, events, advLock, tx, displaced, result, sideVars>>

AuditRejection(r) ==
  /\ Goto(r, "auditRejection", "done")
  /\ \/ events' = events \cup {Row(r, OutcomeOf(result[r]))}
     \/ MayBeLost /\ UNCHANGED events
  /\ UNCHANGED <<storeVars, keyStatus, advLock, tx, displaced, result, sideVars>>

\* Mutant: nobody asks whether there was a highest bid at all.
DisplacesAnyone(r) == displaced[r] = NoOne \/ Bidder(displaced[r]) # Bidder(r)

Displaces(r) == displaced[r] # NoOne /\ Bidder(displaced[r]) # Bidder(r)

Broadcast(r) ==
  /\ Goto(r, "broadcast", IF Displaces(r) THEN "notify" ELSE AfterSideEffects(r))
  /\ broadcasts' = broadcasts \cup {r}
  /\ UNCHANGED <<storeVars, keyStatus, events, advLock, tx, displaced, result, queue>>

OutbidJob(r) == [to |-> Bidder(displaced[r]), bid |-> r]

Notify(r) ==
  /\ Goto(r, "notify", AfterSideEffects(r))
  /\ queue' = queue \cup {OutbidJob(r)}
  /\ UNCHANGED <<storeVars, keyStatus, events, advLock, tx, displaced, result, broadcasts>>

\* Mutant: the side effects are inside the try, whose catch releases the key.
NotifyInTry(r) ==
  /\ "queue" \in Faults
  /\ Goto(r, "notify", AfterFailure(r))
  /\ result' = [result EXCEPT ![r] = "INTERNAL"]
  /\ UNCHANGED <<storeVars, keyStatus, events, advLock, tx, displaced, sideVars>>

\* Neither the read of the email nor queue.add is guarded: placeBid throws.
NotifyFails(r) ==
  /\ "queue" \in Faults
  /\ pc[r] = "notify"
  /\ Answer(r, "INTERNAL")
  /\ queue' \in {queue, queue \cup {OutbidJob(r)}}
  /\ UNCHANGED <<storeVars, keyStatus, events, advLock, tx, displaced, broadcasts>>

CompleteKey(r) ==
  /\ Goto(r, "complete", "done")
  /\ \/ keyStatus' = [keyStatus EXCEPT ![KeyOf(r)] = "completed"]
     \/ MayBeLost /\ UNCHANGED keyStatus
  /\ UNCHANGED <<storeVars, events, advLock, tx, displaced, result, sideVars>>

\* The API process dies; PostgreSQL rolls back what its connection had open.
Crash(r) ==
  /\ "crash" \in Faults
  /\ pc[r] \notin Stopped \cup {"idle"}
  /\ pc' = [pc EXCEPT ![r] = "crashed"]
  /\ EndTx(r)
  /\ UNCHANGED <<status, endPassed, price, bids, offer, keyStatus, events, displaced,
                 result, sideVars>>

-----------------------------------------------------------------------------
Gate(r) == \/ RejectAmount(r) \/ RejectKey(r) \/ Admit(r)
           \/ ClaimKey(r) \/ ReadKey(r) \/ ReclaimKey(r)

Transaction(r) ==
  \/ LockRow(r) \/ CheckDuplicate(r) \/ AdvisoryLock(r) \/ Cas(r) \/ Sweep(r)
  \/ Insert(r) \/ Resweep(r) \/ AuditAccepted(r) \/ Commit(r) \/ Rollback(r)

Aftermath(r) == \/ MarkKeyFailed(r) \/ AuditRejection(r)
                \/ Broadcast(r) \/ Notify(r) \/ CompleteKey(r)

\* What the code does of itself, and what may go wrong around it.
CallStep(r) == Gate(r) \/ Transaction(r) \/ Aftermath(r)
FaultStep(r) == GateFails(r) \/ StatementFails(r) \/ CommitFails(r) \/ NotifyFails(r) \/ Crash(r)

\* The other routes and the worker act on the same rows.  An activation whose UPDATE
\* comes too late, and opens an ended auction again, is left to AuctionLifecycle.
Environment ==
  /\ \/ CreateRow \/ OpenDraft \/ EndTimePasses \/ EndRow
     \/ \E r \in Requests : AwardRow(r)
  /\ UNCHANGED <<keyStatus, events, advLock, callVars, sideVars>>

Next == Environment \/ \E r \in Requests : CallStep(r) \/ FaultStep(r)

Spec == Init /\ [][Next]_vars

\* The event loop and PostgreSQL keep serving a call that can move.
\* Nothing obliges a client to send an idle request.
Fairness == \A r \in Requests : WF_vars(pc[r] # "idle" /\ CallStep(r))
FairSpec == Spec /\ Fairness
=============================================================================
