---------------------------- MODULE BidProperties ----------------------------
(***************************************************************************)
(* What placeBid promises, over the rows of PostgreSQL and what the        *)
(* callers and the other bidders are told.                                 *)
(***************************************************************************)
EXTENDS BidService

\* The price belongs to the leading bid: without bids it is the starting
\* price, and otherwise exactly one bid leads, at the auction's price, and every
\* other bid was outbid at a lower amount of its own.  This is what the
\* FOR UPDATE lock, the CAS and the two sweeps of placeBid are for.
Leads(r) == bids[r] \in {"winning", "won"} /\ Amount(r) = price

PriceMatchesLeader ==
  /\ Placed = {} => price = StartingPrice
  /\ Placed # {} => \E r \in Placed :
       /\ Leads(r)
       /\ \A q \in Placed \ {r} : bids[q] = "outbid" /\ Amount(q) < Amount(r)
  /\ \A q, r \in Placed : q # r => Amount(q) # Amount(r)
  /\ \A r \in Placed : Amount(r) > StartingPrice /\ Bidder(r) # Seller

\* A bid row and its 'accepted' audit row are committed together or not at
\* all, whatever fails and wherever the process dies (step 10 of placeBid).
AuditAtomic ==
  \A r \in Requests : bids[r] # "none" <=> Row(r, "accepted") \in events

\* The gates behind the row lock never close: once FOR UPDATE has returned, the
\* 30 second duplicate check finds nothing, the CAS always matches and the
\* unique index never refuses.  The lock alone decides who bids.
SecondGatesIdle ==
  \A r \in Requests :
    /\ pc[r] = "dup" => Duplicates(r) = {}
    /\ pc[r] = "cas" => CasMatches(r)
    /\ pc[r] = "insert" => ~IndexRefuses(r)

\* Nobody hears of a bid that PostgreSQL does not hold: an answer 201, a
\* bid_placed event and an outbid job all stand on a committed row.
Announced(r) ==
  \/ pc[r] = "done" /\ result[r] = "accepted"
  \/ r \in broadcasts
  \/ \E job \in queue : job.bid = r

AcceptedIsDurable == \A r \in Requests : Announced(r) => bids[r] # "none"

\* Bids climb, step by step: the price never falls, a bid row appears only
\* while the auction is active and above the price of that moment, and a bid
\* that was outbid never leads again.
BidsOnlyClimb ==
  [][ /\ price' >= price
      /\ price' # price => \E r \in Placed' \ Placed : price' = Amount(r)
      /\ \A r \in Placed' \ Placed : status = "active" /\ price < Amount(r)
      /\ \A r \in Placed : bids[r] = "outbid" => bids'[r] = "outbid" ]_vars

-----------------------------------------------------------------------------
(* Idempotency keys.                                                        *)

\* The calls between the claim of a key and its release.
Owns(r) ==
  /\ Keyed(r)
  /\ pc[r] \in {"lock"} \cup TxPcs \cup SidePcs \cup {"rollback", "markFailed"}

\* A key admits one call at a time, also when several retries read 'failed' and
\* reclaim it at once, and its row says 'pending' for as long.
KeyHasOneOwner ==
  \A r \in Requests : Owns(r) =>
    /\ keyStatus[KeyOf(r)] = "pending"
    /\ \A q \in Requests : Owns(q) /\ SameKey(q, r) => q = r

\* One key, one bid: unless a COMMIT was lost on the way, the calls that
\* share a key place at most one bid, whatever their payloads.
OneBidPerKey ==
  \A q, r \in Placed : SameKey(q, r) => q = r

\* The key's row tells what became of it: 'completed' when a call placed the
\* bid, 'failed' only when none did.
KeyTellsOutcome ==
  \A k \in Keys :
    LET placed == {r \in Placed : KeyOf(r) = k} IN
    /\ keyStatus[k] = "completed" => placed # {}
    /\ keyStatus[k] \in {"failed", "absent"} => placed = {}

-----------------------------------------------------------------------------
(* When nothing fails.                                                      *)

\* An attempt that got past the key is answered with exactly one audit row,
\* of the outcome it was answered with.  One with a key that was answered INTERNAL
\* is one whose key the foreign key refused, before there was anything to audit;
\* inside the transaction, and without a key, an INTERNAL would need its row.
AnsweredIsAudited ==
  \A r \in Requests : pc[r] = "done" =>
    {e \in events : e.bid = r} =
      IF result[r] \in {"REQUEST_IN_PROGRESS", "INVALID_IDEMPOTENCY_KEY"} THEN {}
      ELSE IF Keyed(r) /\ result[r] = "INTERNAL" THEN {}
      ELSE IF result[r] = "accepted" THEN {Row(r, "accepted")}
      ELSE IF result[r] = "INVALID_AMOUNT" THEN {Row(r, "rejected_invalid_amount")}
      ELSE {Row(r, OutcomeOf(result[r]))}

\* Whoever lost the lead to another bidder is told, once the call that took the
\* lead is answered.
Lower(r) == {q \in Placed : Amount(q) < Amount(r)}

DisplacedAreTold ==
  \A r \in Placed : pc[r] = "done" =>
    \A q \in Top(Lower(r)) :
      Bidder(q) # Bidder(r) => [to |-> Bidder(q), bid |-> r] \in queue

\* No key stays 'pending': the next retry is admitted or knows the outcome.
KeysAreReleased ==
  \A k \in Keys : keyStatus[k] = "pending" ~> keyStatus[k] \in {"completed", "failed"}

-----------------------------------------------------------------------------
(* The inductive invariant behind PriceMatchesLeader and AuditAtomic.       *)

LiveRows == {q \in Requests : bids[q] \in Live}

\* A call inside its transaction holds the row lock, so what it checked when it
\* took the lock still holds.
LockHeld ==
  \A r \in Requests : pc[r] \in TxPcs =>
    rowLock = r /\ status = "active" /\ price < Amount(r) /\ Bidder(r) # Seller

\* What each transaction has written when it awaits a statement.
Written(r, kinds) == tx[r].wrote = kinds /\ tx[r].swept = LiveRows

TxWrites ==
  \A r \in Requests :
    /\ pc[r] \notin TxPcs \cup {"rollback"} => tx[r] = NoTx
    /\ pc[r] \in {"dup", "advisory", "cas"} => tx[r] = NoTx
    /\ pc[r] = "sweep" => tx[r].wrote = {"price"} /\ tx[r].swept = {} /\ ~tx[r].doomed
    /\ pc[r] = "insert" => Written(r, {"price"}) /\ ~tx[r].doomed
    /\ pc[r] = "resweep" => Written(r, {"price", "bid"}) /\ ~tx[r].doomed
    /\ pc[r] = "audit" => Written(r, {"price", "bid"})
    /\ pc[r] = "commit" => \/ Written(r, {"price", "bid", "accepted"})
                           \/ Written(r, {"price", "bid"}) /\ tx[r].doomed

\* No row of a call is visible before its COMMIT.
NothingYet ==
  \A r \in Requests : pc[r] \in {"idle", "lock", "rollback"} \cup GatePcs \cup TxPcs =>
    bids[r] = "none" /\ Row(r, "accepted") \notin events

WonOnlyAtEnd == \A r \in Requests : bids[r] = "won" => status = "ended"

IInv ==
  /\ TypeOK
  /\ LockHeld
  /\ TxWrites
  /\ NothingYet
  /\ WonOnlyAtEnd
  /\ PriceMatchesLeader
  /\ AuditAtomic
=============================================================================
