------------------------------ MODULE BidReads ------------------------------
(***************************************************************************)
(* What is read of one auction and its bids while others bid on it:        *)
(* getAuctionById and fetchAuctionContext, which read the auction first    *)
(* and its bids afterwards, and the walk of a bidder through the pages of  *)
(* her own bids (getMyBids), which are ordered by the time their           *)
(* transactions began.  Readers only read, so there is one.                *)
(***************************************************************************)
EXTENDS Naturals, FiniteSets, Sequences

CONSTANTS
  Bidders,  \* callers of placeBid
  Me,       \* the one who reads
  PerPage,    \* the page size she asks for
  MaxBids   \* bound: transactions of placeBid

ASSUME BidReadsAssumption ==
  /\ Me \in Bidders /\ PerPage \in Nat \ {0} /\ MaxBids \in Nat \ {0}

VARIABLES
  state,  \* auctions.status; "awarded" is 'ended' with a winner
  bids,   \* the transactions in the order they began: bidder and amount, 0 before COMMIT
  reads,  \* the request under way: "none", "auction", "mine", or "answered"
  detail, \* the auction as it was read, then with the statistics of its bids
  filter, \* the status filter of the walk
  at,     \* the page it asks for
  shown,  \* the rows of that page once read
  many,   \* the count beside them once read
  met,    \* the bids it was shown so far
  had,    \* the bids she had, listed under the filter, when the walk began
  split   \* she got a bid between the rows and the count of a page

Missing == [read |-> FALSE]
Result(x) == [read |-> TRUE, is |-> x]

\* The starting price is 0.
PriceOf == LET amounts == {bids[n].amount : n \in DOMAIN bids}
           IN IF amounts = {} THEN 0 ELSE CHOOSE x \in amounts : \A y \in amounts : y <= x

Committed == {n \in DOMAIN bids : bids[n].amount # 0}

mineVars == <<filter, at, shown, many, met, had, split>>
readsVars == <<state, bids, reads, detail, mineVars>>

ReadsTypeOK ==
  /\ state \in {"draft", "active", "ended", "awarded"}
  /\ bids \in Seq([bidder : Bidders, amount : 0 .. MaxBids]) /\ Len(bids) <= MaxBids
  /\ reads \in {"none", "auction", "mine", "answered"}
  /\ ~detail.read \/ detail.is.price \in 0 .. MaxBids
  /\ filter \in {"all", "winning"} /\ at \in 1 .. MaxBids
  /\ ~shown.read \/ shown.is \subseteq 1 .. MaxBids
  /\ ~many.read \/ many.is \in 0 .. MaxBids
  /\ met \subseteq 1 .. MaxBids /\ had \subseteq 1 .. MaxBids /\ split \in BOOLEAN

ReadsInit ==
  /\ state = "draft" /\ bids = <<>>
  /\ reads = "none" /\ detail = Missing
  /\ filter = "all" /\ at = 1 /\ shown = Missing /\ many = Missing
  /\ met = {} /\ had = {} /\ split = FALSE

-----------------------------------------------------------------------------
(* The auction and its bids.                                                *)

Activate ==
  /\ state = "draft" /\ state' = "active"
  /\ UNCHANGED <<bids, reads, detail, mineVars>>

\* bids.created_at is now(), the time the transaction began.
BeginBid(b) ==
  /\ state # "draft" /\ Len(bids) < MaxBids
  /\ bids' = Append(bids, [bidder |-> b, amount |-> 0])
  /\ UNCHANGED <<state, reads, detail, mineVars>>

\* The row lock orders the transactions anew; one that is refused never gets here.
CommitBid(n) ==
  /\ state = "active" /\ bids[n].amount = 0
  /\ bids' = [bids EXCEPT ![n].amount = PriceOf + 1]
  /\ split' = (split \/ (bids[n].bidder = Me /\ shown.read # many.read))
  /\ UNCHANGED <<state, reads, detail, filter, at, shown, many, met, had>>

\* The worker ends the auction, then turns 'winning' into 'won'.
EndAndAward ==
  /\ \/ state = "active" /\ state' = "ended"
     \/ state = "ended" /\ state' = "awarded"
  /\ UNCHANGED <<bids, reads, detail, mineVars>>

-----------------------------------------------------------------------------
(* The auction and the statistics of its bids.                              *)

\* The order of the two queries.
Order == <<"row", "stats">>

Query(what, d) ==
  IF what = "row" THEN [d EXCEPT !.status = state, !.price = PriceOf]
  ELSE [d EXCEPT !.count = Cardinality(Committed), !.highest = PriceOf]

ReadAuction ==
  /\ reads = "none" /\ reads' = "auction"
  /\ detail' = Result(Query(Order[1], [status |-> state, price |-> 0, count |-> 0, highest |-> 0]))
  /\ UNCHANGED <<state, bids, mineVars>>

ReadStats ==
  /\ reads = "auction" /\ reads' = "answered"
  /\ detail' = Result(Query(Order[2], detail.is))
  /\ UNCHANGED <<state, bids, mineVars>>

-----------------------------------------------------------------------------
(* Her own bids.                                                            *)

\* The last bid is 'winning', the others are 'outbid'.
Matches(n) ==
  /\ n \in Committed /\ bids[n].bidder = Me
  /\ filter = "winning" => state # "awarded" /\ bids[n].amount = PriceOf

Mine == {n \in DOMAIN bids : Matches(n)}

StartMine(f) ==
  /\ reads = "none"
  /\ reads' = "mine" /\ filter' = f
  /\ had' = {n \in Committed : bids[n].bidder = Me}
  /\ UNCHANGED <<state, bids, detail, at, shown, many, met, split>>

Newer(n) == {m \in Mine : m > n}

\* Mutant: pages count from 0.
OnPageFromZero(n) == Cardinality(Newer(n)) \div PerPage = at

\* ORDER BY created_at DESC LIMIT OFFSET.
OnPage(n) == Cardinality(Newer(n)) \div PerPage = at - 1

ReadMine ==
  /\ reads = "mine" /\ ~shown.read
  /\ shown' = Result({n \in Mine : OnPage(n)})
  /\ UNCHANGED <<state, bids, reads, detail, filter, at, many, met, had, split>>

CountMine ==
  /\ reads = "mine" /\ ~many.read
  /\ many' = Result(Cardinality(Mine))
  /\ UNCHANGED <<state, bids, reads, detail, filter, at, shown, met, had, split>>

\* Math.ceil(total / limit).
Pages == (many.is + PerPage - 1) \div PerPage

\* The page is answered, and she asks for the next one, until there is none.
AnswerMine ==
  /\ reads = "mine" /\ shown.read /\ many.read
  /\ met' = met \cup shown.is
  /\ shown' = Missing /\ many' = Missing
  /\ IF at < Pages THEN at' = at + 1 /\ UNCHANGED reads
     ELSE reads' = "answered" /\ UNCHANGED at
  /\ UNCHANGED <<state, bids, detail, filter, had, split>>

ReadsNext ==
  \/ Activate \/ EndAndAward
  \/ \E b \in Bidders : BeginBid(b)
  \/ \E n \in DOMAIN bids : CommitBid(n)
  \/ ReadAuction \/ ReadStats
  \/ \E f \in {"all", "winning"} : StartMine(f)
  \/ ReadMine \/ CountMine \/ AnswerMine

ReadsSpec == ReadsInit /\ [][ReadsNext]_readsVars

-----------------------------------------------------------------------------
(* What the answers promise.                                                *)

\* The price and the statistics of an answer belong to two moments, but the bids are
\* never older than the price, so the answer never shows a price that its bids do not
\* reach, and for an auction that has ended the two agree.
\* A walk through all her bids shows every bid she had when it began: bids that commit
\* meanwhile push rows to later pages, never to earlier ones, wherever their
\* time puts them; unless one came between the rows and the count of a page.
AnswersHold ==
  /\ reads = "answered" /\ detail.read =>
       LET d == detail.is IN
       /\ d.price <= d.highest
       /\ d.count = 0 => d.price = 0
       /\ d.status \in {"ended", "awarded"} => d.price = d.highest
       /\ d.status = "draft" => d.price = 0
  /\ reads = "answered" /\ ~detail.read /\ filter = "all" /\ ~split => had \subseteq met
=============================================================================
