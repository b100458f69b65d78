---------------------------- MODULE AuctionStore ----------------------------
(***************************************************************************)
(* The rows of PostgreSQL that the API process and the worker process      *)
(* share: one auctions row, the bids rows that refer to it, and the lock   *)
(* PostgreSQL keeps on the auctions row (db/schema.ts, migrations).        *)
(* Auctions do not interact, so one row stands for each of them.           *)
(*                                                                         *)
(* A bid request is a member of Requests; it inserts at most one bids row, *)
(* so the request also names its row.  What a request asks for is a record *)
(* of Offers.  Amounts are whole cents: numeric(12,2) compares exactly.    *)
(***************************************************************************)
EXTENDS Naturals, FiniteSets

CONSTANTS
  Requests,       \* calls of placeBid
  Users,          \* rows of the users table
  Seller,         \* the user who owns the auction
  Keys,           \* well-formed idempotency keys
  NoKey,          \* the caller passed no key
  BadKey,         \* a key that is blank, has white space or is too long
  Offers,         \* what a caller may ask for
  StartingPrice,  \* auctions.starting_price
  NoOne           \* "nobody": a free lock, an absent bid

ASSUME UsersAssumption == Seller \in Users
ASSUME KeysAssumption == NoKey \notin Keys /\ BadKey \notin Keys /\ NoKey # BadKey
ASSUME OffersAssumption ==
  Offers \subseteq [bidder : Users, amount : Nat, key : Keys \cup {NoKey, BadKey}]
ASSUME PriceAssumption == StartingPrice \in Nat \ {0}
ASSUME NoOneAssumption == NoOne \notin Requests

VARIABLES
  status,     \* auctions.status, "absent" before the row is inserted
  endPassed,  \* auctions.end_time <= now
  price,      \* auctions.current_price
  bids,       \* bids.status of each request's row, "none" before the insert
  offer,      \* what each request asks for; fixed
  rowLock     \* the transaction that holds the lock on the auctions row

storeVars == <<status, endPassed, price, bids, offer, rowLock>>

AuctionStatus == {"absent", "draft", "active", "ended", "cancelled"}
BidStatus == {"active", "outbid", "winning", "won", "invalid"}
Live == {"active", "winning"}

StoreTypeOK ==
  /\ status \in AuctionStatus
  /\ endPassed \in BOOLEAN
  /\ price \in Nat
  /\ bids \in [Requests -> BidStatus \cup {"none"}]
  /\ offer \in [Requests -> Offers]
  /\ rowLock \in Requests \cup {NoOne}

StoreInit ==
  /\ status \in {"absent", "draft", "active"}
  /\ endPassed = FALSE
  /\ price = StartingPrice
  /\ bids = [r \in Requests |-> "none"]
  /\ offer \in [Requests -> Offers]
  /\ rowLock = NoOne

Amount(r) == offer[r].amount
Bidder(r) == offer[r].bidder

Placed == {r \in Requests : bids[r] # "none"}

\* ORDER BY amount DESC LIMIT 1 over a set of bids.
Top(B) == {r \in B : \A q \in B : Amount(q) <= Amount(r)}

\* A statement that locks or updates the auctions row waits for the holder.
RowFreeFor(r) == rowLock \in {NoOne, r}

-----------------------------------------------------------------------------
(* Autocommitted statements of the other parts of the system on these rows. *)

CreateRow ==
  /\ status = "absent"
  /\ status' = "draft"
  /\ UNCHANGED <<endPassed, price, bids, offer, rowLock>>

\* The UPDATE of activateAuction asks for the id alone: the status, read by an
\* earlier statement, may be another by now, and end_time may have passed.
ActivateRow ==
  /\ status # "absent"
  /\ rowLock = NoOne
  /\ status' = "active"
  /\ UNCHANGED <<endPassed, price, bids, offer, rowLock>>

\* That UPDATE when the auction still is the draft that was read.
OpenDraft == status = "draft" /\ ActivateRow

EndTimePasses ==
  /\ status # "absent" /\ ~endPassed
  /\ endPassed' = TRUE
  /\ UNCHANGED <<status, price, bids, offer, rowLock>>

\* The worker does not look at end_time: the delay of its job stands for it.
EndRow ==
  /\ status = "active"
  /\ rowLock = NoOne
  /\ status' = "ended"
  /\ UNCHANGED <<endPassed, price, bids, offer, rowLock>>

\* Mutant: no ORDER BY amount DESC, so any bid of the auction may win.
AwardAny(r) ==
  /\ status = "ended"
  /\ r \in Placed
  /\ bids' = [bids EXCEPT ![r] = "won"]
  /\ UNCHANGED <<status, endPassed, price, offer, rowLock>>

AwardRow(r) ==
  /\ status = "ended"
  /\ r \in Top(Placed)
  /\ bids' = [bids EXCEPT ![r] = "won"]
  /\ UNCHANGED <<status, endPassed, price, offer, rowLock>>
=============================================================================
