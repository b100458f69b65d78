----------------------------- MODULE BidRefinement -----------------------------
(***************************************************************************)
(* placeBid, with its locks, sweeps, keys and failures, implements an      *)
(* ascending auction.  The auction is read off the committed rows alone.   *)
(***************************************************************************)
EXTENDS BidProperties

Phase == CASE status \in {"absent", "draft"} -> "new"
           [] status = "active" -> "open"
           [] OTHER -> "closed"

Leader == IF Placed = {} THEN NoOne
          ELSE CHOOSE r \in Placed : bids[r] \in {"winning", "won"}

Winner == IF \E r \in Placed : bids[r] = "won"
          THEN CHOOSE r \in Placed : bids[r] = "won"
          ELSE NoOne

Ascending == INSTANCE EnglishAuction WITH
  Bids <- Requests, Reserve <- StartingPrice, Nobody <- NoOne,
  phase <- Phase, ask <- [r \in Requests |-> Amount(r)], price <- price,
  leader <- Leader, taken <- Placed, winner <- Winner

\* Every step of every call, and of the other parts on the same rows, is a step
\* of the ascending auction or leaves it alone: COMMIT is the only point at
\* which a bid takes the lead, whichever statements fail around it.
ImplementsEnglishAuction == Ascending!AuctionSpec
=================================================================================
