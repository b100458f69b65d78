---------------------------- MODULE EnglishAuction ----------------------------
(***************************************************************************)
(* What an auction promises to bidders, with no word of transactions: an   *)
(* ascending auction that opens once, takes bids one at a time, each above *)
(* the price, closes once and gives the lot to the bid that leads.         *)
(***************************************************************************)
EXTENDS Naturals

CONSTANTS Bids, Reserve, Nobody

VARIABLES
  phase,   \* "new", "open" or "closed"
  ask,     \* the amount each bid offers; fixed
  price,   \* the price the next bid must exceed
  leader,  \* the bid that leads
  taken,   \* every bid accepted so far
  winner   \* the bid that won

auctionVars == <<phase, ask, price, leader, taken, winner>>

Start ==
  /\ phase \in {"new", "open"}
  /\ ask \in [Bids -> Nat]
  /\ price = Reserve
  /\ leader = Nobody
  /\ taken = {}
  /\ winner = Nobody

Open ==
  /\ phase = "new"
  /\ phase' = "open"
  /\ UNCHANGED <<ask, price, leader, taken, winner>>

Take(b) ==
  /\ phase = "open"
  /\ b \in Bids \ taken
  /\ ask[b] > price
  /\ price' = ask[b]
  /\ leader' = b
  /\ taken' = taken \cup {b}
  /\ UNCHANGED <<phase, ask, winner>>

Close ==
  /\ phase = "open"
  /\ phase' = "closed"
  /\ UNCHANGED <<ask, price, leader, taken, winner>>

Award ==
  /\ phase = "closed"
  /\ leader # Nobody
  /\ winner' = leader
  /\ UNCHANGED <<phase, ask, price, leader, taken>>

AuctionNext == Open \/ Close \/ Award \/ \E b \in Bids : Take(b)

AuctionSpec == Start /\ [][AuctionNext]_auctionVars
===============================================================================
