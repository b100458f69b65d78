-------------------------------- MODULE Seed --------------------------------
(***************************************************************************)
(* db/seed.ts fills a deployment with demo auctions, statement by          *)
(* statement and without a transaction, while visitors may already bid on  *)
(* what is there.  It may die at every statement and be run again.         *)
(*                                                                         *)
(* A bid of a visitor is one step, as in AuctionLifecycle.  The auctions   *)
(* of the seed get no expiry job, so no worker ends them.                  *)
(***************************************************************************)
EXTENDS Naturals, Sequences

CONSTANTS
  Items,      \* CATALOGUE with BID_WARS: starting price, war, and whether it is over
  MaxAmount,  \* bound: the highest amount a visitor bids
  MaxVisits   \* bound: the number of bids of visitors

ASSUME SeedAssumption ==
  /\ Items # <<>> /\ Items \in Seq([starting : Nat, war : Seq(Nat), over : BOOLEAN])
  /\ \A i \in DOMAIN Items : \A k \in DOMAIN Items[i].war :
       /\ Items[i].war[k] > Items[i].starting
       /\ \A j \in DOMAIN Items[i].war : j < k => Items[i].war[j] < Items[i].war[k]
  /\ MaxAmount \in Nat /\ MaxVisits \in Nat

VARIABLES
  statement,  \* the statement the script awaits: its kind, the item and the bid
  catalogue,  \* the auctions rows it inserted, NoRow before
  placed,     \* the bids rows of each item, in the order of created_at
  visits,     \* bids of visitors so far
  struck      \* history: items a visitor bid on between their last two UPDATEs

seedVars == <<statement, catalogue, placed, visits, struck>>

Indices == DOMAIN Items
NoRow == [status |-> "none", price |-> 0]
Kinds == {"idle", "seller", "bidders", "auction", "bid", "mark", "price", "complete", "failed"}

BidRows == [amount : Nat, status : {"outbid", "winning", "won"}]

SeedTypeOK ==
  /\ statement \in [kind : Kinds, item : Indices, bid : Nat]
  /\ catalogue \in [Indices -> [status : {"none", "active", "ended"}, price : Nat]]
  /\ placed \in [Indices -> Seq(BidRows)]
  /\ visits \in Nat /\ struck \subseteq Indices

Awaits(kind, i, k) == statement' = [kind |-> kind, item |-> i, bid |-> k]

SeedInit ==
  /\ statement = [kind |-> "idle", item |-> 1, bid |-> 1]
  /\ catalogue = [i \in Indices |-> NoRow]
  /\ placed = [i \in Indices |-> <<>>]
  /\ visits = 0 /\ struck = {}

-----------------------------------------------------------------------------
(* The script.                                                              *)

\* The three DELETEs go to PostgreSQL as one query, which is one transaction, and the
\* bids of visitors on the demo auctions go with these.
CleanSlate ==
  /\ statement.kind \in {"idle", "complete", "failed"}
  /\ Awaits("seller", 1, 1)
  /\ catalogue' = [i \in Indices |-> NoRow]
  /\ placed' = [i \in Indices |-> <<>>]
  /\ struck' = {}
  /\ UNCHANGED visits

InsertUsers ==
  /\ \/ statement.kind = "seller" /\ Awaits("bidders", 1, 1)
     \/ statement.kind = "bidders" /\ Awaits("auction", 1, 1)
  /\ UNCHANGED <<catalogue, placed, visits, struck>>

\* The next item of BID_WARS that has one, or the summary.
NextWar(i) ==
  LET wars == {j \in Indices : j > i /\ Items[j].war # <<>>}
  IN IF wars = {} THEN Awaits("complete", 1, 1)
     ELSE \E j \in wars : (\A k \in wars : j <= k) /\ Awaits("bid", j, 1)

\* embedText may fail, which costs the row its vector only.
InsertAuction(i) ==
  /\ statement.kind = "auction" /\ statement.item = i
  /\ catalogue' = [catalogue EXCEPT ![i] =
       [status |-> IF Items[i].over THEN "ended" ELSE "active", price |-> Items[i].starting]]
  /\ IF i < Len(Items) THEN Awaits("auction", i + 1, 1) ELSE NextWar(0)
  /\ UNCHANGED <<placed, visits, struck>>

InsertBid(i) ==
  /\ statement.kind = "bid" /\ statement.item = i
  /\ placed' = [placed EXCEPT ![i] =
       Append(@, [amount |-> Items[i].war[statement.bid], status |-> "outbid"])]
  /\ IF statement.bid < Len(Items[i].war) THEN Awaits("bid", i, statement.bid + 1)
     ELSE Awaits("mark", i, 1)
  /\ UNCHANGED <<catalogue, visits, struck>>

\* Math.max of a war.
Highest(i) == Items[i].war[Len(Items[i].war)]

Leading(i) == {n \in DOMAIN placed[i] : placed[i][n].status \in {"winning", "won"}}

\* Mutant: the migration with the index was not run.
NoIndex(i) == FALSE

\* one_winner_per_auction, a unique index on the bids that are 'winning'.
IndexRefuses(i) == catalogue[i].status = "active" /\ Leading(i) # {}

\* The UPDATE that makes the latest 'outbid' bid of the highest amount the leader; the
\* index refuses it when a visitor leads, and the script dies.
MarkLeader(i) ==
  LET losing == {n \in DOMAIN placed[i] :
                   placed[i][n] = [amount |-> Highest(i), status |-> "outbid"]}
      to == IF catalogue[i].status = "ended" THEN "won" ELSE "winning"
  IN /\ statement.kind = "mark" /\ statement.item = i
     /\ IF IndexRefuses(i) THEN Awaits("failed", i, 1) /\ UNCHANGED placed
        ELSE /\ \E n \in losing :
                  /\ \A m \in losing : m <= n
                  /\ placed' = [placed EXCEPT ![i][n].status = to]
             /\ Awaits("price", i, 1)
     /\ UNCHANGED <<catalogue, visits, struck>>

SetPrice(i) ==
  /\ statement.kind = "price" /\ statement.item = i
  /\ catalogue' = [catalogue EXCEPT ![i].price = Highest(i)]
  /\ NextWar(i)
  /\ UNCHANGED <<placed, visits, struck>>

\* A statement fails, or somebody stops the script.
Fails ==
  /\ statement.kind \notin {"idle", "complete", "failed"}
  /\ Awaits("failed", statement.item, 1)
  /\ UNCHANGED <<catalogue, placed, visits, struck>>

-----------------------------------------------------------------------------
(* Visitors.                                                                *)

PlaceBid(i, x) ==
  /\ visits < MaxVisits /\ visits' = visits + 1
  /\ catalogue[i].status = "active" /\ x > catalogue[i].price
  /\ catalogue' = [catalogue EXCEPT ![i].price = x]
  /\ placed' = [placed EXCEPT ![i] =
       Append([n \in DOMAIN @ |-> [@[n] EXCEPT !.status = "outbid"]],
              [amount |-> x, status |-> "winning"])]
  /\ struck' = struck \cup (IF statement.kind = "price" /\ statement.item = i THEN {i} ELSE {})
  /\ UNCHANGED statement

SeedNext ==
  \/ CleanSlate \/ InsertUsers \/ Fails
  \/ \E i \in Indices :
       \/ InsertAuction(i) \/ InsertBid(i) \/ MarkLeader(i) \/ SetPrice(i)
       \/ \E x \in 1 .. MaxAmount : PlaceBid(i, x)

SeedSpec == SeedInit /\ [][SeedNext]_seedVars

-----------------------------------------------------------------------------
(* What a deployment looks like when the script reports success.            *)

\* However often the script died before and whoever bid meanwhile, each of its auctions
\* has one leader, at its price, whom nobody outbids, or no bid and its starting price:
\* a leader of the visitors makes the script die rather than become one of two.
\* Only a bid between the last two UPDATEs of an auction escapes this: the second
\* sets a price the new leader did not bid.
SeedIsSound ==
  statement.kind = "complete" =>
    \A i \in Indices \ struck :
      IF placed[i] = <<>> THEN catalogue[i].price = Items[i].starting
      ELSE \E n \in DOMAIN placed[i] :
             /\ Leading(i) = {n} /\ placed[i][n].amount = catalogue[i].price
             /\ \A m \in DOMAIN placed[i] : placed[i][m].amount <= catalogue[i].price
=============================================================================
