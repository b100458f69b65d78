-------------------------- MODULE CatalogueProofs --------------------------
(***************************************************************************)
(* What a deployment shows of its auctions, for any number of auctions,    *)
(* bids and visitors: an auction and its bids (AnswersHold), the demo      *)
(* auctions (SeedIsSound), and the types of these and of the listing,      *)
(* whose own properties are in ListingProofs.                              *)
(***************************************************************************)
EXTENDS Catalogue, ListingProofs, SequenceTheorems, TLAPS

-----------------------------------------------------------------------------
(* One auction, its bids and who reads them.                                *)

BidRecord == [bidder : Bidders, amount : 0 .. MaxBids]

\* Some bid is as high as any, so there is a price to choose.
HasHighest ==
  bids # <<>> => \E n \in DOMAIN bids : \A m \in DOMAIN bids : bids[m].amount <= bids[n].amount

\* Each bid raises the price by one, so no price is above the number of bids.
BidsInv ==
  /\ state \in {"draft", "active", "ended", "awarded"}
  /\ bids \in Seq(BidRecord) /\ Len(bids) <= MaxBids
  /\ state = "draft" => bids = <<>>
  /\ HasHighest
  /\ PriceOf = Cardinality(Committed) /\ PriceOf \in Nat

\* The price that was read is one the auction had, and the one it has once it is over.
DetailInv ==
  /\ detail = Missing \/
       /\ detail = Result(detail.is)
       /\ detail.is \in [status : {"draft", "active", "ended", "awarded"},
                         price : 0 .. MaxBids, count : Nat, highest : Nat]
  /\ detail.read => reads \in {"auction", "answered"}
  /\ reads = "auction" =>
       /\ detail.read /\ detail.is.price <= PriceOf
       /\ detail.is.status \in {"ended", "awarded"} =>
            state \in {"ended", "awarded"} /\ detail.is.price = PriceOf
       /\ detail.is.status = "draft" => detail.is.price = 0
  /\ reads = "answered" /\ detail.read =>
       LET d == detail.is IN
       /\ d.price <= d.highest
       /\ d.count = 0 => d.price = 0
       /\ d.status \in {"ended", "awarded"} => d.price = d.highest
       /\ d.status = "draft" => d.price = 0

\* All her bids, and how many of these began after the n-th of the auction.
Hers == {n \in Committed : bids[n].bidder = Me}
Later(n) == Cardinality({m \in Hers : m > n})

WalkTypes ==
  /\ reads \in {"none", "auction", "mine", "answered"}
  /\ filter \in {"all", "winning"} /\ at \in 1 .. MaxBids
  /\ shown = Missing \/ (shown = Result(shown.is) /\ shown.is \subseteq 1 .. MaxBids)
  /\ many = Missing \/ (many = Result(many.is) /\ many.is \in 0 .. MaxBids)
  /\ met \subseteq 1 .. MaxBids /\ had \subseteq 1 .. MaxBids /\ split \in BOOLEAN
  /\ reads # "mine" => shown = Missing /\ many = Missing
  /\ reads = "none" => at = 1

\* What she had and has not met lies on the page she asks for or after it; after the
\* page once it was read, and then the count tells her to go on.
WalkInv ==
  /\ reads = "mine" /\ filter = "all" =>
       /\ had \subseteq Hers
       /\ \A n \in had : n \in met \/ Later(n) >= (at - 1) * PerPage
       /\ shown.read => \A n \in had : n \in met \cup shown.is \/ Later(n) >= at * PerPage
       /\ ~split /\ many.read /\ ~shown.read => many.is = Cardinality(Hers)
       /\ ~split /\ many.read /\ shown.read =>
            \A n \in had : n \in met \cup shown.is \/ many.is > at * PerPage
  /\ reads = "answered" /\ ~detail.read /\ filter = "all" /\ ~split => had \subseteq met

ReadsInv == BidsInv /\ DetailInv /\ WalkTypes /\ WalkInv

LEMMA DivBounds ==
  ASSUME NEW m \in Nat, NEW p \in Nat \ {0}
  PROVE  m \div p \in Nat /\ (m \div p) * p <= m /\ m < (m \div p) * p + p
OBVIOUS

LEMMA Times ==
  ASSUME NEW m \in Nat, NEW n \in Nat, NEW p \in Nat \ {0}
  PROVE  /\ m * p \in Nat /\ (m + 1) * p = m * p + p
         /\ m < n => m * p + p <= n * p
         /\ m <= n => m * p <= n * p
OBVIOUS

\* What is on a page.
LEMMA DivIs ==
  ASSUME NEW m \in Nat, NEW n \in Nat, NEW p \in Nat \ {0}, n * p <= m, m < n * p + p
  PROVE  m \div p = n
OBVIOUS

\* There are enough pages, and no more pages than rows.
LEMMA Ceiling ==
  ASSUME NEW m \in Nat, NEW p \in Nat \ {0}
  PROVE  LET q == (m + p - 1) \div p
         IN q \in Nat /\ m <= q * p /\ q <= m
<1> DEFINE q == (m + p - 1) \div p
<1>1. m + p - 1 \in Nat
  OBVIOUS
<1>2. q \in Nat /\ q * p <= m + p - 1 /\ m + p - 1 < q * p + p
  BY <1>1, DivBounds
<1>3. q * p \in Nat
  BY <1>2, Times
<1>4. m <= q * p
  BY <1>2, <1>3
<1>5. ASSUME m < q PROVE FALSE
  <2>1. m * p + p <= q * p /\ m * p \in Nat
    BY <1>2, <1>5, Times
  <2>2. m * p >= m
    <3>1. m * 1 <= m * p
      OBVIOUS
    <3> QED BY <3>1
  <2> QED BY <1>2, <1>3, <2>1, <2>2
<1> QED BY <1>2, <1>4, <1>5

LEMMA BidType ==
  ASSUME BidsInv
  PROVE  /\ DOMAIN bids = 1 .. Len(bids) /\ Len(bids) \in Nat /\ MaxBids \in Nat /\ Me \in Bidders
         /\ PerPage \in Nat \ {0}
         /\ \A n \in DOMAIN bids : /\ bids[n] \in BidRecord
                                  /\ bids[n].amount \in Nat /\ bids[n].amount <= MaxBids
                                  /\ bids[n] = [bidder |-> bids[n].bidder, amount |-> bids[n].amount]
<1>1. DOMAIN bids = 1 .. Len(bids) /\ Len(bids) \in Nat
  BY LenProperties DEF BidsInv
<1>2. \A n \in DOMAIN bids : bids[n] \in BidRecord
  BY <1>1, ElementOfSeq DEF BidsInv
<1>3. \A r \in BidRecord : /\ r.amount \in Nat /\ r.amount <= MaxBids
                           /\ r = [bidder |-> r.bidder, amount |-> r.amount]
  BY BidReadsAssumption DEF BidRecord
<1> QED BY <1>1, <1>2, <1>3, BidReadsAssumption

\* The price is the amount of any highest bid.
LEMMA HighestIs ==
  ASSUME NEW bs, NEW n \in DOMAIN bs, \A m \in DOMAIN bs : bs[m].amount \in Nat,
         \A m \in DOMAIN bs : bs[m].amount <= bs[n].amount
  PROVE  LET amounts == {bs[m].amount : m \in DOMAIN bs}
         IN (IF amounts = {} THEN 0 ELSE CHOOSE x \in amounts : \A y \in amounts : y <= x)
            = bs[n].amount
<1> DEFINE amounts == {bs[m].amount : m \in DOMAIN bs}
           chosen == CHOOSE x \in amounts : \A y \in amounts : y <= x
<1>1. bs[n].amount \in amounts /\ \A y \in amounts : y <= bs[n].amount /\ y \in Nat
  OBVIOUS
<1>2. chosen \in amounts /\ \A y \in amounts : y <= chosen
  <2> HIDE DEF amounts
  <2> QED BY <1>1
<1>3. chosen = bs[n].amount
  <2> HIDE DEF amounts, chosen
  <2> QED BY <1>1, <1>2
<1>4. amounts # {}
  BY <1>1
<1> QED BY <1>3, <1>4

LEMMA PriceIs ==
  ASSUME NEW n \in DOMAIN bids, \A m \in DOMAIN bids : bids[m].amount \in Nat,
         \A m \in DOMAIN bids : bids[m].amount <= bids[n].amount
  PROVE  PriceOf = bids[n].amount
BY HighestIs DEF PriceOf

LEMMA NextPriceIs ==
  ASSUME NEW n \in DOMAIN bids', \A m \in DOMAIN bids' : bids'[m].amount \in Nat,
         \A m \in DOMAIN bids' : bids'[m].amount <= bids'[n].amount
  PROVE  PriceOf' = bids'[n].amount
BY HighestIs DEF PriceOf

LEMMA PriceOfNone ==
  ASSUME bids = <<>>
  PROVE  PriceOf = 0 /\ Committed = {}
<1>1. DOMAIN bids = {}
  OBVIOUS
<1> QED BY <1>1 DEF PriceOf, Committed

LEMMA CommittedFinite ==
  ASSUME BidsInv
  PROVE  /\ IsFiniteSet(Committed) /\ Cardinality(Committed) \in Nat
         /\ Cardinality(Committed) <= Len(bids)
         /\ PriceOf \in Nat /\ PriceOf <= MaxBids
<1>1. DOMAIN bids = 1 .. Len(bids) /\ Len(bids) \in Nat /\ MaxBids \in Nat /\ Len(bids) <= MaxBids
  BY BidType DEF BidsInv
<1>2. IsFiniteSet(DOMAIN bids) /\ Cardinality(DOMAIN bids) = Len(bids)
  <2>1. IsFiniteSet(1 .. Len(bids))
        /\ Cardinality(1 .. Len(bids)) = IF 1 > Len(bids) THEN 0 ELSE Len(bids) - 1 + 1
    <3>1. 1 \in Int /\ Len(bids) \in Int
      BY <1>1
    <3> QED BY <3>1, FS_Interval
  <2> QED BY <1>1, <2>1
<1>3. Committed \subseteq DOMAIN bids
  BY DEF Committed
<1>4. IsFiniteSet(Committed) /\ Cardinality(Committed) <= Len(bids)
  BY <1>2, <1>3, FS_Subset
<1>5. Cardinality(Committed) \in Nat
  BY <1>4, FS_CardinalityType
<1> QED BY <1>1, <1>4, <1>5 DEF BidsInv

\* What BeginBid does to the bids.
LEMMA BeginBidInv ==
  ASSUME BidsInv, NEW b \in Bidders, BeginBid(b)
  PROVE  /\ BidsInv' /\ PriceOf' = PriceOf /\ Committed' = Committed /\ Hers' = Hers
         /\ state' = state
<1> DEFINE r == [bidder |-> b, amount |-> 0]
<1>1. /\ DOMAIN bids = 1 .. Len(bids) /\ Len(bids) \in Nat /\ Len(bids) < MaxBids
      /\ bids' = Append(bids, r) /\ state' = state /\ state # "draft"
      /\ \A n \in DOMAIN bids : bids[n] \in BidRecord /\ bids[n].amount \in Nat
  BY BidType DEF BeginBid
<1>2. r \in BidRecord /\ r.amount = 0
  BY BidReadsAssumption DEF BidRecord
<1>3. bids' \in Seq(BidRecord) /\ Len(bids') = Len(bids) + 1
  <2> HIDE DEF r
  <2> QED BY <1>1, <1>2, AppendProperties DEF BidsInv
<1>4. /\ DOMAIN bids' = 1 .. (Len(bids) + 1)
      /\ \A n \in DOMAIN bids : bids'[n] = bids[n]
      /\ bids'[Len(bids) + 1] = r
  <2> HIDE DEF r
  <2> QED BY <1>1, <1>2, <1>3, AppendProperties, LenProperties DEF BidsInv
<1>5. \A m \in DOMAIN bids' : m \in DOMAIN bids \/ (m = Len(bids) + 1 /\ bids'[m].amount = 0)
  BY <1>1, <1>2, <1>4
<1>6. DOMAIN bids \subseteq DOMAIN bids'
  BY <1>1, <1>4
<1>7. Committed' = Committed
  BY <1>4, <1>5, <1>6 DEF Committed
<1>8. Hers' = Hers
  BY <1>4, <1>7 DEF Hers, Committed
<1>9. HasHighest' /\ PriceOf' = PriceOf
  <2>1. \A m \in DOMAIN bids' : bids'[m].amount \in Nat
    BY <1>1, <1>4, <1>5
  <2>2. CASE bids = <<>>
    <3>1. DOMAIN bids = {} /\ Len(bids) = 0
      BY <2>2
    <3>2. 1 \in DOMAIN bids' /\ \A m \in DOMAIN bids' : bids'[m].amount <= bids'[1].amount /\ bids'[1].amount = 0
      BY <1>1, <1>2, <1>4, <3>1
    <3>3. PriceOf' = 0
      BY <2>1, <3>2, NextPriceIs
    <3>4. PriceOf = 0
      BY <2>2, PriceOfNone
    <3> QED BY <3>2, <3>3, <3>4 DEF HasHighest
  <2>3. CASE bids # <<>>
    <3>1. PICK n \in DOMAIN bids : \A m \in DOMAIN bids : bids[m].amount <= bids[n].amount
      BY <2>3 DEF BidsInv, HasHighest
    <3>2. n \in DOMAIN bids' /\ \A m \in DOMAIN bids' : bids'[m].amount <= bids'[n].amount
      BY <1>1, <1>4, <1>5, <1>6, <3>1
    <3>3. PriceOf' = bids'[n].amount
      BY <2>1, <3>2, NextPriceIs
    <3>4. PriceOf = bids[n].amount
      BY <1>1, <3>1, PriceIs
    <3> QED BY <1>4, <3>1, <3>2, <3>3, <3>4 DEF HasHighest
  <2> QED BY <2>2, <2>3
<1> QED
  <2>1. Len(bids') <= MaxBids
    BY <1>1, <1>3, BidReadsAssumption
  <2> QED BY <1>1, <1>3, <1>7, <1>8, <1>9, <2>1 DEF BidsInv

\* What CommitBid does to the bids.
LEMMA CommitBidInv ==
  ASSUME BidsInv, NEW n \in DOMAIN bids, CommitBid(n)
  PROVE  /\ BidsInv' /\ state = "active" /\ state' = state
         /\ PriceOf <= PriceOf' /\ Hers \subseteq Hers'
         /\ bids[n].bidder # Me => Hers' = Hers
<1>1. /\ DOMAIN bids = 1 .. Len(bids) /\ Len(bids) \in Nat
      /\ state = "active" /\ state' = state /\ bids[n].amount = 0
      /\ bids' = [bids EXCEPT ![n].amount = PriceOf + 1]
      /\ \A m \in DOMAIN bids : /\ bids[m] \in BidRecord /\ bids[m].amount \in Nat
                                 /\ bids[m] = [bidder |-> bids[m].bidder, amount |-> bids[m].amount]
  BY BidType DEF CommitBid
<1>2. /\ IsFiniteSet(Committed) /\ Cardinality(Committed) \in Nat
      /\ PriceOf \in Nat /\ PriceOf = Cardinality(Committed)
  BY CommittedFinite DEF BidsInv
<1>3. /\ DOMAIN bids' = DOMAIN bids
      /\ bids'[n] = [bidder |-> bids[n].bidder, amount |-> PriceOf + 1]
      /\ \A m \in DOMAIN bids \ {n} : bids'[m] = bids[m]
  <2>1. bids = [m \in DOMAIN bids |-> bids[m]]
    BY <1>1 DEF BidsInv
  <2> QED BY <1>1, <2>1
<1>4. Committed' = Committed \cup {n} /\ n \notin Committed
  <2>1. bids'[n].amount = PriceOf + 1 /\ bids'[n].amount # 0
    BY <1>2, <1>3
  <2>2. \A m \in DOMAIN bids \ {n} : bids'[m].amount = bids[m].amount
    BY <1>3
  <2> QED BY <1>1, <1>3, <2>1, <2>2 DEF Committed
<1>5. Cardinality(Committed') = PriceOf + 1 /\ IsFiniteSet(Committed')
  BY <1>2, <1>4, FS_AddElement
<1>6. Len(bids) <= MaxBids /\ MaxBids \in Nat
  BY BidReadsAssumption DEF BidsInv
<1>7. PriceOf + 1 <= MaxBids
  <2>1. IsFiniteSet(1 .. Len(bids))
        /\ Cardinality(1 .. Len(bids)) = IF 1 > Len(bids) THEN 0 ELSE Len(bids) - 1 + 1
    <3>1. 1 \in Int /\ Len(bids) \in Int
      BY <1>1
    <3> QED BY <3>1, FS_Interval
  <2>2. Committed' \subseteq 1 .. Len(bids)
    BY <1>1, <1>4 DEF Committed
  <2>3. Cardinality(Committed') <= Cardinality(1 .. Len(bids))
    BY <2>1, <2>2, FS_Subset
  <2>4. PriceOf + 1 <= Len(bids)
    BY <1>1, <1>5, <2>1, <2>3
  <2> QED BY <1>1, <1>2, <1>6, <2>4
<1>8. bids'[n] \in BidRecord /\ bids'[n].amount = PriceOf + 1 /\ bids'[n].bidder = bids[n].bidder
  <2>1. bids[n].bidder \in Bidders
    BY <1>1 DEF BidRecord
  <2> QED BY <1>2, <1>3, <1>6, <1>7, <2>1 DEF BidRecord
<1>9. bids' \in Seq(BidRecord) /\ Len(bids') = Len(bids)
  <2> DEFINE r == bids'[n]
  <2>1. bids' = [bids EXCEPT ![n] = r]
    BY <1>1, <1>3
  <2>2. r \in BidRecord /\ n \in 1 .. Len(bids) /\ bids \in Seq(BidRecord)
    BY <1>1, <1>8 DEF BidsInv
  <2> HIDE DEF r
  <2>3. [bids EXCEPT ![n] = r] \in Seq(BidRecord) /\ Len([bids EXCEPT ![n] = r]) = Len(bids)
    BY <2>2, ExceptSeq
  <2> QED BY <2>1, <2>3
<1>10. \A m \in DOMAIN bids : bids[m].amount <= PriceOf
  <2>1. PICK h \in DOMAIN bids : \A m \in DOMAIN bids : bids[m].amount <= bids[h].amount
    BY DEF BidsInv, HasHighest
  <2>2. PriceOf = bids[h].amount
    BY <1>1, <2>1, PriceIs
  <2> QED BY <2>1, <2>2
<1>11. \A m \in DOMAIN bids' : bids'[m].amount \in Nat /\ bids'[m].amount <= bids'[n].amount
  BY <1>1, <1>2, <1>3, <1>8, <1>10
<1>12. PriceOf' = PriceOf + 1
  <2>1. n \in DOMAIN bids'
    BY <1>3
  <2> QED BY <1>8, <1>11, <2>1, NextPriceIs
<1>13. HasHighest'
  BY <1>3, <1>11 DEF HasHighest
<1>14. Hers \subseteq Hers' /\ (bids[n].bidder # Me => Hers' = Hers)
  <2>1. \A m \in DOMAIN bids : bids'[m].bidder = bids[m].bidder
    BY <1>3, <1>8
  <2>2. \A m \in Committed' : m \in DOMAIN bids
    BY <1>3 DEF Committed
  <2> QED BY <1>4, <2>1, <2>2 DEF Hers
<1>15. BidsInv'
  BY <1>1, <1>5, <1>6, <1>9, <1>12, <1>13 DEF BidsInv
<1> QED BY <1>1, <1>2, <1>12, <1>14, <1>15

\* Two moments of the page, the count and the rows she has.
LEMMA HersFacts ==
  ASSUME BidsInv
  PROVE  /\ IsFiniteSet(Hers) /\ Cardinality(Hers) \in Nat /\ Hers \subseteq 1 .. MaxBids
         /\ \A n \in Hers : Later(n) \in Nat /\ Later(n) < Cardinality(Hers)
<1>1. /\ DOMAIN bids = 1 .. Len(bids) /\ Len(bids) \in Nat /\ MaxBids \in Nat /\ Len(bids) <= MaxBids
      /\ IsFiniteSet(Committed)
  BY BidType, CommittedFinite DEF BidsInv
<1>2. Hers \subseteq Committed /\ Committed \subseteq DOMAIN bids
  BY DEF Hers, Committed
<1>3. IsFiniteSet(Hers)
  BY <1>1, <1>2, FS_Subset
<1>4. ASSUME NEW n \in Hers
      PROVE  Later(n) \in Nat /\ Later(n) < Cardinality(Hers)
  <2> DEFINE more == {m \in Hers : m > n}
  <2>1. more \subseteq Hers /\ more # Hers
    <3>1. ~(n > n)
      BY <1>1, <1>2
    <3> QED BY <3>1
  <2> HIDE DEF more
  <2>2. IsFiniteSet(more) /\ Cardinality(more) <= Cardinality(Hers) /\ Cardinality(more) # Cardinality(Hers)
    BY <1>3, <2>1, FS_Subset
  <2>3. Cardinality(more) \in Nat /\ Cardinality(Hers) \in Nat
    BY <1>3, <2>2, FS_CardinalityType
  <2>4. Later(n) = Cardinality(more)
    BY DEF Later, more
  <2> QED BY <2>2, <2>3, <2>4
<1>5. Cardinality(Hers) \in Nat
  BY <1>3, FS_CardinalityType
<1>6. Hers \subseteq 1 .. MaxBids
  BY <1>1, <1>2
<1> QED BY <1>3, <1>4, <1>5, <1>6

\* Bids that commit meanwhile push rows to later pages, never to earlier ones.
LEMMA LaterGrows ==
  ASSUME BidsInv, BidsInv', Hers \subseteq Hers', NEW n \in Hers
  PROVE  Later(n) \in Nat /\ Later(n)' \in Nat /\ Later(n) <= Later(n)'
<1> DEFINE more == {m \in Hers : m > n}
           then == {m \in Hers' : m > n}
<1>1. more \subseteq then /\ then \subseteq Hers'
  OBVIOUS
<1>2. IsFiniteSet(Hers')
  <2>1. bids' \in Seq(BidRecord)
    BY DEF BidsInv, BidRecord
  <2>2. DOMAIN bids' = 1 .. Len(bids') /\ Len(bids') \in Nat
    BY <2>1, LenProperties
  <2>3. IsFiniteSet(1 .. Len(bids'))
    <3>1. 1 \in Int /\ Len(bids') \in Int
      BY <2>2
    <3> QED BY <3>1, FS_Interval
  <2>4. Hers' \subseteq 1 .. Len(bids')
    BY <2>2 DEF Hers, Committed
  <2> QED BY <2>3, <2>4, FS_Subset
<1>3. Later(n) = Cardinality(more) /\ Later(n)' = Cardinality(then)
  BY DEF Later
<1> HIDE DEF more, then
<1>4. IsFiniteSet(then)
  BY <1>1, <1>2, FS_Subset
<1>5. Cardinality(more) <= Cardinality(then)
  BY <1>1, <1>4, FS_Subset
<1>6. Cardinality(more) \in Nat /\ Cardinality(then) \in Nat
  BY <1>1, <1>4, FS_Subset, FS_CardinalityType
<1> QED BY <1>3, <1>5, <1>6

LEMMA SameBids ==
  ASSUME BidsInv, bids' = bids, state' \in {"draft", "active", "ended", "awarded"},
         state' = "draft" => state = "draft"
  PROVE  /\ BidsInv' /\ PriceOf' = PriceOf /\ Committed' = Committed /\ Hers' = Hers
         /\ \A n : Later(n)' = Later(n)
<1>1. PriceOf' = PriceOf
  BY DEF PriceOf
<1>2. Committed' = Committed
  BY DEF Committed
<1>3. Hers' = Hers
  BY <1>2 DEF Hers
<1>4. HasHighest'
  BY DEF BidsInv, HasHighest
<1>5. \A n : Later(n)' = Later(n)
  BY <1>3 DEF Later
<1>6. BidsInv'
  BY <1>1, <1>2, <1>4 DEF BidsInv, BidRecord
<1> QED BY <1>1, <1>2, <1>3, <1>5, <1>6

LEMMA InitReadsInv == ReadsInit => ReadsInv
<1> SUFFICES ASSUME ReadsInit PROVE ReadsInv
  OBVIOUS
<1> USE DEF ReadsInit, Missing
<1>1. BidsInv
  <2>1. bids \in Seq(BidRecord) /\ Len(bids) = 0
    BY EmptySeq
  <2>2. PriceOf = 0 /\ Committed = {}
    BY PriceOfNone
  <2> QED BY <2>1, <2>2, BidReadsAssumption, FS_EmptySet DEF BidsInv, HasHighest
<1>2. DetailInv
  BY DEF DetailInv
<1>3. WalkTypes
  <2>1. 1 \in 1 .. MaxBids
    BY BidReadsAssumption
  <2> QED BY <2>1 DEF WalkTypes
<1>4. WalkInv
  BY DEF WalkInv
<1> QED BY <1>1, <1>2, <1>3, <1>4 DEF ReadsInv

\* Nobody but the reader touches what was read; the walk goes on where it was as long as
\* her bids only grow in number, and not between the rows of a page and their count.
LEMMA ElsewhereInv ==
  ASSUME ReadsInv, BidsInv', UNCHANGED <<reads, detail, filter, at, shown, many, met, had>>,
         split' \in BOOLEAN, split => split',
         PriceOf <= PriceOf', Hers \subseteq Hers',
         state \in {"ended", "awarded"} => state' \in {"ended", "awarded"} /\ PriceOf' = PriceOf,
         Hers' = Hers \/ split' \/ shown.read = many.read
  PROVE  ReadsInv'
<1>1. PriceOf \in Nat /\ PriceOf' \in Nat
  BY DEF ReadsInv, BidsInv
<1>2. DetailInv'
  <2>1. detail.is.price \in 0 .. MaxBids => detail.is.price \in Nat
    OBVIOUS
  <2>2. reads = "auction" => detail.is.price \in 0 .. MaxBids
    BY DEF ReadsInv, DetailInv, Missing
  <2>3. reads = "auction" /\ detail.is.status \in {"ended", "awarded"} =>
          state' \in {"ended", "awarded"} /\ detail.is.price = PriceOf'
    BY DEF ReadsInv, DetailInv
  <2>4. reads = "auction" => detail.is.price <= PriceOf'
    <3>1. reads = "auction" => detail.is.price <= PriceOf
      BY DEF ReadsInv, DetailInv
    <3> QED BY <1>1, <2>1, <2>2, <3>1
  <2> QED BY <2>3, <2>4 DEF ReadsInv, DetailInv, Missing, Result
<1>3. WalkTypes'
  BY DEF ReadsInv, WalkTypes, Missing, Result
<1>4. WalkInv'
  <2>1. \A n \in Hers : /\ Later(n) \in Nat /\ Later(n)' \in Nat /\ Later(n) <= Later(n)'
    BY LaterGrows DEF ReadsInv
  <2>2. /\ at \in Nat /\ at * PerPage \in Nat /\ (at - 1) * PerPage \in Nat
    BY BidReadsAssumption, Times DEF ReadsInv, WalkTypes
  <2>3. ASSUME reads = "mine", filter = "all"
        PROVE  /\ had \subseteq Hers'
               /\ \A n \in had : n \in met \/ Later(n)' >= (at - 1) * PerPage
               /\ shown.read => \A n \in had : n \in met \cup shown.is \/ Later(n)' >= at * PerPage
    BY <2>1, <2>2, <2>3 DEF ReadsInv, WalkInv
  <2>4. ASSUME reads = "mine", filter = "all", ~split', many.read, ~shown.read
        PROVE  many.is = Cardinality(Hers')
    <3>1. many.is = Cardinality(Hers) /\ Hers' = Hers
      BY <2>4 DEF ReadsInv, WalkInv
    <3> QED BY <3>1
  <2>5. ASSUME reads = "mine", filter = "all", ~split', many.read, shown.read
        PROVE  \A n \in had : n \in met \cup shown.is \/ many.is > at * PerPage
    BY <2>5 DEF ReadsInv, WalkInv
  <2>6. reads = "answered" /\ ~detail.read /\ filter = "all" /\ ~split' => had \subseteq met
    BY DEF ReadsInv, WalkInv
  <2> QED BY <2>3, <2>4, <2>5, <2>6 DEF WalkInv
<1> QED BY <1>2, <1>3, <1>4 DEF ReadsInv

LEMMA MineFacts ==
  ASSUME ReadsInv
  PROVE  /\ Mine \subseteq 1 .. MaxBids /\ Cardinality(Mine) \in 0 .. MaxBids
         /\ filter = "all" => Mine = Hers
<1>1. /\ DOMAIN bids = 1 .. Len(bids) /\ Len(bids) \in Nat /\ MaxBids \in Nat /\ Len(bids) <= MaxBids
  BY BidType DEF ReadsInv, BidsInv
<1>2. Mine \subseteq DOMAIN bids
  BY DEF Mine
<1>3. Mine \subseteq 1 .. MaxBids
  BY <1>1, <1>2
<1>4. IsFiniteSet(1 .. MaxBids) /\ Cardinality(1 .. MaxBids) = MaxBids
  <2>1. IsFiniteSet(1 .. MaxBids)
        /\ Cardinality(1 .. MaxBids) = IF 1 > MaxBids THEN 0 ELSE MaxBids - 1 + 1
    <3>1. 1 \in Int /\ MaxBids \in Int
      BY <1>1
    <3> QED BY <3>1, FS_Interval
  <2> QED BY <1>1, <2>1
<1>5. Cardinality(Mine) \in Nat /\ Cardinality(Mine) <= MaxBids
  BY <1>3, <1>4, FS_Subset, FS_CardinalityType
<1>6. filter = "all" => Mine = Hers
  BY DEF Mine, Matches, Hers, Committed
<1> QED BY <1>1, <1>3, <1>5, <1>6

LEMMA ReadAuctionInv == ReadsInv /\ (ReadAuction \/ ReadStats) => ReadsInv'
<1> SUFFICES ASSUME ReadsInv, ReadAuction \/ ReadStats PROVE ReadsInv'
  OBVIOUS
<1>1. UNCHANGED <<state, bids, mineVars>>
  BY DEF ReadAuction, ReadStats
<1>2. /\ BidsInv' /\ PriceOf' = PriceOf /\ Committed' = Committed
      /\ PriceOf \in Nat /\ PriceOf <= MaxBids /\ PriceOf = Cardinality(Committed)
  <2>1. BidsInv /\ state' = state /\ state \in {"draft", "active", "ended", "awarded"}
    BY <1>1 DEF ReadsInv, BidsInv
  <2>2. BidsInv' /\ PriceOf' = PriceOf /\ Committed' = Committed
    BY <1>1, <2>1, SameBids
  <2> QED BY <2>1, <2>2, CommittedFinite DEF BidsInv
<1>3. CASE ReadAuction
  <2> DEFINE e == [status |-> state, price |-> 0, count |-> 0, highest |-> 0]
             d == [e EXCEPT !.status = state, !.price = PriceOf]
  <2>1. detail' = Result(d) /\ reads = "none" /\ reads' = "auction"
    BY <1>3 DEF ReadAuction, Query, Order
  <2>2. /\ d \in [status : {"draft", "active", "ended", "awarded"},
                  price : 0 .. MaxBids, count : Nat, highest : Nat]
        /\ d.status = state /\ d.price = PriceOf
    <3>1. state \in {"draft", "active", "ended", "awarded"} /\ 0 \in 0 .. MaxBids /\ PriceOf \in 0 .. MaxBids
      BY <1>2, BidReadsAssumption DEF ReadsInv, BidsInv
    <3>2. e \in [status : {"draft", "active", "ended", "awarded"},
                price : 0 .. MaxBids, count : Nat, highest : Nat]
      BY <3>1
    <3> HIDE DEF e
    <3> QED BY <3>1, <3>2
  <2>3. detail'.read /\ detail'.is = d
    BY <2>1 DEF Result
  <2>4. state = "draft" => PriceOf = 0
    BY PriceOfNone DEF ReadsInv, BidsInv
  <2> HIDE DEF d
  <2>5. detail' = Result(detail'.is)
    BY <2>1, <2>3
  <2>6. DetailInv'
    BY <1>1, <1>2, <2>1, <2>2, <2>3, <2>4, <2>5 DEF DetailInv
  <2>7. WalkTypes' /\ WalkInv'
    BY <1>1, <2>1 DEF mineVars, ReadsInv, WalkTypes, WalkInv, Missing, Result
  <2> QED BY <1>2, <2>6, <2>7 DEF ReadsInv
<1>4. CASE ReadStats
  <2> DEFINE d == [detail.is EXCEPT !.count = Cardinality(Committed), !.highest = PriceOf]
  <2>1. detail' = Result(d) /\ reads = "auction" /\ reads' = "answered"
    BY <1>4 DEF ReadStats, Query, Order
  <2>2. /\ detail.is \in [status : {"draft", "active", "ended", "awarded"},
                          price : 0 .. MaxBids, count : Nat, highest : Nat]
        /\ detail.is.price <= PriceOf
        /\ detail.is.status \in {"ended", "awarded"} => detail.is.price = PriceOf
        /\ detail.is.status = "draft" => detail.is.price = 0
    BY <2>1 DEF ReadsInv, DetailInv, Missing
  <2>3. /\ d \in [status : {"draft", "active", "ended", "awarded"},
                  price : 0 .. MaxBids, count : Nat, highest : Nat]
        /\ d.status = detail.is.status /\ d.price = detail.is.price
        /\ d.count = PriceOf /\ d.highest = PriceOf
    BY <1>2, <2>2
  <2>4. detail'.read /\ detail'.is = d
    BY <2>1 DEF Result
  <2>5. detail'.is.price \in Nat /\ (PriceOf = 0 => detail'.is.price = 0)
    <3>1. d.price \in Nat /\ d.price <= PriceOf
      BY <1>2, <2>2, <2>3
    <3> QED BY <1>2, <2>4, <3>1
  <2> HIDE DEF d
  <2>6. detail' = Result(detail'.is)
    BY <2>1, <2>4
  <2>7. DetailInv'
    BY <2>1, <2>2, <2>3, <2>4, <2>5, <2>6 DEF DetailInv
  <2>8. WalkTypes' /\ WalkInv'
    BY <1>1, <2>1, <2>4 DEF mineVars, ReadsInv, WalkTypes, WalkInv, Missing, Result
  <2> QED BY <1>2, <2>7, <2>8 DEF ReadsInv
<1> QED BY <1>3, <1>4

LEMMA StartMineInv ==
  ASSUME ReadsInv, NEW f \in {"all", "winning"}, StartMine(f)
  PROVE  ReadsInv'
<1>1. UNCHANGED <<state, bids, detail, at, shown, many, met, split>>
      /\ reads = "none" /\ reads' = "mine" /\ filter' = f /\ had' = Hers
  BY DEF StartMine, Hers
<1>2. BidsInv' /\ Hers' = Hers
  <2>1. BidsInv /\ state' = state /\ state \in {"draft", "active", "ended", "awarded"}
    BY <1>1 DEF ReadsInv, BidsInv
  <2> QED BY <1>1, <2>1, SameBids
<1>3. at = 1 /\ shown = Missing /\ many = Missing
  BY <1>1 DEF ReadsInv, WalkTypes
<1>4. Hers \subseteq 1 .. MaxBids /\ \A n \in Hers : Later(n) \in Nat /\ Later(n)' = Later(n)
  BY <1>2, HersFacts DEF ReadsInv, Later
<1>5. DetailInv'
  BY <1>1 DEF ReadsInv, DetailInv, Missing, Result
<1>6. WalkTypes'
  BY <1>1, <1>3, <1>4 DEF ReadsInv, WalkTypes, Missing, Result
<1>7. WalkInv'
  <2>1. (at' - 1) * PerPage = 0
    BY <1>1, <1>3, BidReadsAssumption
  <2>2. ~shown'.read /\ ~many'.read
    BY <1>1, <1>3 DEF Missing
  <2>3. ASSUME NEW n \in had'
        PROVE  Later(n)' >= (at' - 1) * PerPage
    <3>1. n \in Hers /\ Later(n)' \in Nat
      BY <1>1, <1>4, <2>3
    <3> QED BY <2>1, <3>1
  <2> QED BY <1>1, <1>2, <2>2, <2>3 DEF WalkInv
<1> QED BY <1>2, <1>5, <1>6, <1>7 DEF ReadsInv

LEMMA ReadMineInv == ReadsInv /\ (ReadMine \/ CountMine) => ReadsInv'
<1> SUFFICES ASSUME ReadsInv, ReadMine \/ CountMine PROVE ReadsInv'
  OBVIOUS
<1>1. UNCHANGED <<state, bids, reads, detail, filter, at, met, had, split>> /\ reads = "mine"
  BY DEF ReadMine, CountMine
<1>2. BidsInv' /\ Hers' = Hers
  <2>1. BidsInv /\ state' = state /\ state \in {"draft", "active", "ended", "awarded"}
    BY <1>1 DEF ReadsInv, BidsInv
  <2> QED BY <1>1, <2>1, SameBids
<1>3. /\ Mine \subseteq 1 .. MaxBids /\ Cardinality(Mine) \in 0 .. MaxBids
      /\ filter = "all" => Mine = Hers
  BY MineFacts
<1>4. \A n \in Hers : /\ Later(n) \in Nat /\ Later(n) < Cardinality(Hers)
                      /\ Later(n)' = Later(n)
  BY <1>2, HersFacts DEF ReadsInv, Later
<1>5. Cardinality(Hers) \in Nat
  BY HersFacts DEF ReadsInv
<1>6. DetailInv'
  BY <1>1 DEF ReadsInv, DetailInv, Missing, Result
<1>7. /\ PerPage \in Nat \ {0} /\ at \in Nat /\ at - 1 \in Nat
      /\ at * PerPage \in Nat /\ (at - 1) * PerPage \in Nat
      /\ at * PerPage = (at - 1) * PerPage + PerPage
  <2>1. PerPage \in Nat \ {0} /\ at \in Nat /\ at - 1 \in Nat /\ (at - 1) + 1 = at
    BY BidReadsAssumption DEF ReadsInv, WalkTypes
  <2>2. /\ at * PerPage \in Nat /\ (at - 1) * PerPage \in Nat
        /\ ((at - 1) + 1) * PerPage = (at - 1) * PerPage + PerPage
    BY <2>1, Times
  <2> QED BY <2>1, <2>2
<1>8. CASE ReadMine
  <2> DEFINE rs == {n \in Mine : OnPage(n)}
  <2>1. shown' = Result(rs) /\ ~shown.read /\ UNCHANGED many
    BY <1>8 DEF ReadMine
  <2>2. shown'.read /\ shown'.is = rs /\ shown' = Result(shown'.is)
    BY <2>1 DEF Result
  <2>3. rs \subseteq 1 .. MaxBids
    BY <1>3
  <2>4. ASSUME filter = "all", NEW n \in Hers, Later(n) >= (at - 1) * PerPage,
               ~(Later(n) >= at * PerPage)
        PROVE  n \in rs
    <3>1. Later(n) < (at - 1) * PerPage + PerPage
      BY <1>4, <1>7, <2>4
    <3>2. Later(n) \div PerPage = at - 1
      BY <1>4, <1>7, <2>4, <3>1, DivIs
    <3>3. Cardinality(Newer(n)) = Later(n)
      BY <1>3, <2>4 DEF Newer, Later
    <3> QED BY <1>3, <2>4, <3>2, <3>3 DEF OnPage
  <2> HIDE DEF rs
  <2>5. WalkTypes'
    BY <1>1, <2>1, <2>2, <2>3 DEF ReadsInv, WalkTypes, Missing, Result
  <2>6. ASSUME filter = "all"
        PROVE  /\ had \subseteq Hers
               /\ \A n \in had : n \in met \/ Later(n) >= (at - 1) * PerPage
               /\ \A n \in had : n \in met \cup rs \/ Later(n) >= at * PerPage
    BY <1>1, <2>4, <2>6 DEF ReadsInv, WalkInv
  <2>7. ASSUME filter = "all", ~split, many.read
        PROVE  \A n \in had : n \in met \cup rs \/ many.is > at * PerPage
    <3>1. many.is = Cardinality(Hers)
      BY <1>1, <2>1, <2>7 DEF ReadsInv, WalkInv
    <3> QED BY <1>4, <1>5, <1>7, <2>6, <2>7, <3>1
  <2>8. WalkInv'
    BY <1>1, <1>2, <1>4, <2>1, <2>2, <2>6, <2>7 DEF WalkInv
  <2> QED BY <1>2, <1>6, <2>5, <2>8 DEF ReadsInv
<1>9. CASE CountMine
  <2>1. many' = Result(Cardinality(Mine)) /\ ~many.read /\ UNCHANGED shown
    BY <1>9 DEF CountMine
  <2>2. many'.read /\ many'.is = Cardinality(Mine) /\ many' = Result(many'.is)
    BY <2>1 DEF Result
  <2>3. WalkTypes'
    BY <1>1, <1>3, <2>1, <2>2 DEF ReadsInv, WalkTypes, Missing, Result
  <2>4. ASSUME filter = "all"
        PROVE  /\ had \subseteq Hers /\ Mine = Hers
               /\ \A n \in had : n \in met \/ Later(n) >= (at - 1) * PerPage
               /\ shown.read => \A n \in had : n \in met \cup shown.is \/ Later(n) >= at * PerPage
    BY <1>1, <1>3, <2>4 DEF ReadsInv, WalkInv
  <2>5. ASSUME filter = "all", shown.read
        PROVE  \A n \in had : n \in met \cup shown.is \/ Cardinality(Hers) > at * PerPage
    BY <1>4, <1>5, <1>7, <2>4, <2>5
  <2>6. WalkInv'
    BY <1>1, <1>2, <1>4, <2>1, <2>2, <2>4, <2>5 DEF WalkInv
  <2> QED BY <1>2, <1>6, <2>3, <2>6 DEF ReadsInv
<1> QED BY <1>8, <1>9

LEMMA AnswerMineInv == ReadsInv /\ AnswerMine => ReadsInv'
<1> SUFFICES ASSUME ReadsInv, AnswerMine PROVE ReadsInv'
  OBVIOUS
<1>1. /\ UNCHANGED <<state, bids, detail, filter, had, split>> /\ reads = "mine"
      /\ shown.read /\ many.read /\ met' = met \cup shown.is
      /\ shown' = Missing /\ many' = Missing
      /\ \/ at < Pages /\ at' = at + 1 /\ reads' = reads
         \/ ~(at < Pages) /\ at' = at /\ reads' = "answered"
  BY DEF AnswerMine
<1>2. BidsInv' /\ Hers' = Hers
  <2>1. BidsInv /\ state' = state /\ state \in {"draft", "active", "ended", "awarded"}
    BY <1>1 DEF ReadsInv, BidsInv
  <2> QED BY <1>1, <2>1, SameBids
<1>3. \A n \in Hers : Later(n) \in Nat /\ Later(n)' = Later(n)
  BY <1>2, HersFacts DEF ReadsInv, Later
<1>4. ~detail.read
  BY <1>1 DEF ReadsInv, DetailInv
<1>5. DetailInv'
  BY <1>1, <1>4 DEF ReadsInv, DetailInv, Missing, Result
<1>6. /\ many.is \in Nat /\ many.is <= MaxBids /\ shown.is \subseteq 1 .. MaxBids
      /\ at \in Nat /\ at > 0 /\ at <= MaxBids /\ MaxBids \in Nat /\ PerPage \in Nat \ {0}
  BY <1>1, BidReadsAssumption DEF ReadsInv, WalkTypes, Missing
<1>7. Pages \in Nat /\ many.is <= Pages * PerPage /\ Pages <= many.is
  BY <1>6, Ceiling DEF Pages
<1>8. at' \in 1 .. MaxBids /\ at' \in Nat
  BY <1>1, <1>6, <1>7
<1>9. WalkTypes'
  BY <1>1, <1>6, <1>8 DEF ReadsInv, WalkTypes
<1>10. ASSUME filter = "all"
       PROVE  /\ had \subseteq Hers
              /\ \A n \in had : n \in met \cup shown.is \/ Later(n) >= at * PerPage
              /\ ~split => \A n \in had : n \in met \cup shown.is \/ many.is > at * PerPage
  BY <1>1, <1>10 DEF ReadsInv, WalkInv
<1>11. CASE reads' = reads
  <2>1. at' = at + 1 /\ at' - 1 = at
    BY <1>1, <1>6, <1>11
  <2>2. ~shown'.read /\ ~many'.read /\ reads' = "mine"
    BY <1>1, <1>11 DEF Missing
  <2>3. WalkInv'
    BY <1>1, <1>2, <1>3, <1>10, <2>1, <2>2 DEF WalkInv
  <2> QED BY <1>2, <1>5, <1>9, <2>3 DEF ReadsInv
<1>12. CASE reads' = "answered"
  <2>1. ASSUME filter = "all", ~split
        PROVE  had \subseteq met'
    <3>1. many.is <= at * PerPage
      <4>1. Pages <= at
        BY <1>1, <1>6, <1>7, <1>12
      <4>2. Pages * PerPage <= at * PerPage /\ Pages * PerPage \in Nat /\ at * PerPage \in Nat
        BY <1>6, <1>7, <4>1, Times
      <4> QED BY <1>6, <1>7, <4>2
    <3>2. at * PerPage \in Nat
      BY <1>6, Times
    <3> QED BY <1>1, <1>6, <1>10, <2>1, <3>1, <3>2
  <2>2. WalkInv'
    BY <1>1, <1>12, <2>1 DEF WalkInv
  <2> QED BY <1>2, <1>5, <1>9, <2>2 DEF ReadsInv
<1> QED BY <1>1, <1>11, <1>12

LEMMA StoreReadsInv ==
  ReadsInv /\ (Activate \/ EndAndAward \/ (\E b \in Bidders : BeginBid(b))
               \/ \E n \in DOMAIN bids : CommitBid(n)) => ReadsInv'
<1> SUFFICES ASSUME ReadsInv, Activate \/ EndAndAward \/ (\E b \in Bidders : BeginBid(b))
                              \/ \E n \in DOMAIN bids : CommitBid(n)
             PROVE  ReadsInv'
  OBVIOUS
<1>1. PriceOf \in Nat /\ split \in BOOLEAN /\ BidsInv
  BY DEF ReadsInv, BidsInv, WalkTypes
<1>2. CASE Activate \/ EndAndAward
  <2>1. /\ UNCHANGED <<bids, reads, detail, mineVars>> /\ PriceOf' = PriceOf /\ Hers' = Hers
        /\ state \in {"ended", "awarded"} => state' \in {"ended", "awarded"}
        /\ state' \in {"active", "ended", "awarded"}
    <3>1. /\ UNCHANGED <<bids, reads, detail, mineVars>>
          /\ state \in {"ended", "awarded"} => state' \in {"ended", "awarded"}
          /\ state' \in {"active", "ended", "awarded"}
      BY <1>2 DEF Activate, EndAndAward
    <3> QED BY <1>1, <3>1, SameBids
  <2>2. BidsInv'
    BY <1>1, <2>1, SameBids
  <2> QED BY <1>1, <2>1, <2>2, ElsewhereInv DEF mineVars
<1>3. ASSUME NEW b \in Bidders, BeginBid(b)
      PROVE  ReadsInv'
  <2>1. /\ UNCHANGED <<reads, detail, mineVars>>
        /\ BidsInv' /\ PriceOf' = PriceOf /\ Hers' = Hers /\ state' = state
    BY <1>1, <1>3, BeginBidInv DEF BeginBid
  <2> QED BY <1>1, <2>1, ElsewhereInv DEF mineVars
<1>4. ASSUME NEW n \in DOMAIN bids, CommitBid(n)
      PROVE  ReadsInv'
  <2>1. /\ UNCHANGED <<reads, detail, filter, at, shown, many, met, had>>
        /\ split' = (split \/ (bids[n].bidder = Me /\ shown.read # many.read))
    BY <1>4 DEF CommitBid
  <2>2. /\ BidsInv' /\ PriceOf <= PriceOf' /\ Hers \subseteq Hers'
        /\ state = "active" /\ (bids[n].bidder # Me => Hers' = Hers)
    BY <1>1, <1>4, CommitBidInv
  <2> QED BY <1>1, <2>1, <2>2, ElsewhereInv
<1> QED BY <1>2, <1>3, <1>4

LEMMA NextReadsInv == ReadsInv /\ [ReadsNext]_readsVars => ReadsInv'
<1> SUFFICES ASSUME ReadsInv, [ReadsNext]_readsVars PROVE ReadsInv'
  OBVIOUS
<1>1. CASE ReadsNext
  BY <1>1, StoreReadsInv, ReadAuctionInv, StartMineInv, ReadMineInv, AnswerMineInv DEF ReadsNext
<1>2. CASE UNCHANGED readsVars
  <2>1. UNCHANGED <<state, bids, reads, detail, filter, at, shown, many, met, had, split>>
    BY <1>2 DEF readsVars, mineVars
  <2>2. BidsInv /\ state \in {"draft", "active", "ended", "awarded"} /\ split \in BOOLEAN
    BY DEF ReadsInv, BidsInv, WalkTypes
  <2>3. BidsInv' /\ PriceOf' = PriceOf /\ PriceOf \in Nat /\ Hers' = Hers
    BY <2>1, <2>2, SameBids DEF BidsInv
  <2> QED BY <2>1, <2>2, <2>3, ElsewhereInv
<1> QED BY <1>1, <1>2

THEOREM ReadsInvariant == ReadsSpec => []ReadsInv
<1> QED BY InitReadsInv, NextReadsInv, PTL DEF ReadsSpec

\* The answers of the auction and of her bids, for any number of bids and page size.
THEOREM AnswersHoldAlways == ReadsSpec => []AnswersHold
<1>1. ReadsInv => AnswersHold
  BY DEF ReadsInv, DetailInv, WalkInv, AnswersHold
<1> QED BY <1>1, ReadsInvariant, PTL

LEMMA ReadsTyped == ReadsInv => ReadsTypeOK
<1>1. ASSUME ReadsInv, detail.read
      PROVE  detail.is.price \in 0 .. MaxBids
  BY <1>1 DEF ReadsInv, DetailInv, Missing
<1> QED BY <1>1 DEF ReadsInv, BidsInv, BidRecord, WalkTypes, Missing, ReadsTypeOK

-----------------------------------------------------------------------------
(* The demo auctions.                                                       *)

\* What SeedIsSound asks of an auction.
Sound(i) ==
  IF placed[i] = <<>> THEN catalogue[i].price = Items[i].starting
  ELSE \E n \in DOMAIN placed[i] :
         /\ Leading(i) = {n} /\ placed[i][n].amount = catalogue[i].price
         /\ \A m \in DOMAIN placed[i] : placed[i][m].amount <= catalogue[i].price

\* Before the script inserts an auction, and from then on to its war: visitors may have
\* bid on it, if it runs.
Untouched(i) == catalogue[i] = NoRow /\ placed[i] = <<>>

Waiting(i) ==
  /\ Sound(i)
  /\ \/ catalogue[i].status = "active"
     \/ catalogue[i].status = "ended" /\ placed[i] = <<>>

\* When k bids of its war are in, a visitor leads, or nobody else has bid.
InWar(i, k) ==
  \/ IndexRefuses(i)
  \/ /\ Len(placed[i]) = k
     /\ \A n \in 1 .. k : placed[i][n] = [amount |-> Items[i].war[n], status |-> "outbid"]

\* Its leader is marked and the price not yet set.
Marked(i) ==
  \E n \in DOMAIN placed[i] :
    /\ Leading(i) = {n} /\ placed[i][n].amount = Highest(i)
    /\ \A m \in DOMAIN placed[i] : placed[i][m].amount <= Highest(i)

WarLength(i) == Len(Items[i].war)
Warring == statement.kind \in {"bid", "mark", "price"}

\* The script is at one item; those before it are sound and those after it wait.
Progress ==
  /\ statement.kind \in {"seller", "bidders"} => \A i \in Indices : Untouched(i)
  /\ statement.kind = "auction" =>
       \A i \in Indices : IF i < statement.item THEN Waiting(i) ELSE Untouched(i)
  /\ Warring => \A i \in Indices :
       /\ i < statement.item => i \in struck \/ Sound(i)
       /\ i > statement.item => Waiting(i)
  /\ statement.kind = "bid" =>
       statement.bid \in 1 .. WarLength(statement.item) /\ InWar(statement.item, statement.bid - 1)
  /\ statement.kind = "mark" =>
       WarLength(statement.item) > 0 /\ InWar(statement.item, WarLength(statement.item))
  /\ statement.kind = "price" =>
       WarLength(statement.item) > 0 /\ (statement.item \in struck \/ Marked(statement.item))
  /\ statement.kind = "complete" => \A i \in Indices : i \in struck \/ Sound(i)

SeedInv == SeedTypeOK /\ Progress

-----------------------------------------------------------------------------
(* The catalogue.                                                           *)

LEMMA ItemType ==
  ASSUME NEW i \in Indices
  PROVE  /\ Items[i].starting \in Nat /\ Items[i].over \in BOOLEAN
         /\ Items[i].war \in Seq(Nat) /\ WarLength(i) \in Nat
         /\ Items[i].war # <<>> <=> WarLength(i) > 0
         /\ \A n \in 1 .. WarLength(i) :
              /\ Items[i].war[n] \in Nat
              /\ Items[i].war[n] <= Highest(i)
<1>1. Items[i] \in [starting : Nat, war : Seq(Nat), over : BOOLEAN]
  <2>1. DOMAIN Items = 1 .. Len(Items) BY SeedAssumption
  <2> QED BY <2>1, SeedAssumption, ElementOfSeq DEF Indices
<1>2. Items[i].war \in Seq(Nat) BY <1>1
<1>3. /\ WarLength(i) \in Nat /\ DOMAIN Items[i].war = 1 .. WarLength(i)
      /\ \A n \in 1 .. WarLength(i) : Items[i].war[n] \in Nat
      /\ Items[i].war # <<>> <=> WarLength(i) > 0
  BY <1>2 DEF WarLength
<1>4. \A n \in 1 .. WarLength(i) : Items[i].war[n] <= Highest(i)
  <2> SUFFICES ASSUME NEW n \in 1 .. WarLength(i) PROVE Items[i].war[n] <= Highest(i)
    OBVIOUS
  <2>1. WarLength(i) \in DOMAIN Items[i].war BY <1>3
  <2>2. CASE n = WarLength(i) BY <1>3, <2>1, <2>2 DEF Highest, WarLength
  <2>3. CASE n < WarLength(i)
    <3>1. n \in DOMAIN Items[i].war BY <1>3
    <3>2. Items[i].war[n] < Items[i].war[WarLength(i)]
      BY <2>1, <2>3, <3>1, SeedAssumption DEF Indices
    <3> QED BY <1>3, <2>1, <3>2 DEF Highest, WarLength
  <2> QED BY <1>3, <2>2, <2>3
<1> QED BY <1>1, <1>3, <1>4

LEMMA IndexType == Indices = 1 .. Len(Items) /\ Len(Items) \in Nat /\ 1 \in Indices
BY SeedAssumption DEF Indices

LEMMA PlacedType ==
  ASSUME SeedTypeOK, NEW i \in Indices
  PROVE  /\ placed[i] \in Seq(BidRows) /\ Len(placed[i]) \in Nat
         /\ DOMAIN placed[i] = 1 .. Len(placed[i])
         /\ \A n \in 1 .. Len(placed[i]) : placed[i][n] \in BidRows
         /\ placed[i] = <<>> <=> Len(placed[i]) = 0
         /\ catalogue[i].price \in Nat
BY DEF SeedTypeOK

\* A bid of a visitor marks every other bid.
LEMMA AllOutbid ==
  ASSUME NEW s \in Seq(BidRows)
  PROVE  LET t == [n \in DOMAIN s |-> [s[n] EXCEPT !.status = "outbid"]]
         IN /\ t \in Seq(BidRows) /\ Len(t) = Len(s)
            /\ \A n \in 1 .. Len(s) : t[n] = [amount |-> s[n].amount, status |-> "outbid"]
<1> DEFINE t == [n \in DOMAIN s |-> [s[n] EXCEPT !.status = "outbid"]]
<1>1. DOMAIN s = 1 .. Len(s) /\ Len(s) \in Nat OBVIOUS
<1>2. \A n \in 1 .. Len(s) : s[n] \in BidRows OBVIOUS
<1>3. \A n \in 1 .. Len(s) : [s[n] EXCEPT !.status = "outbid"]
                             = [amount |-> s[n].amount, status |-> "outbid"]
  BY <1>2 DEF BidRows
<1>4. \A n \in 1 .. Len(s) : [amount |-> s[n].amount, status |-> "outbid"] \in BidRows
  BY <1>2 DEF BidRows
<1>5. t = [n \in 1 .. Len(s) |-> [amount |-> s[n].amount, status |-> "outbid"]]
  BY <1>1, <1>3
<1>6. t \in [1 .. Len(s) -> BidRows]
  BY <1>4, <1>5
<1>7. t \in Seq(BidRows) /\ Len(t) = Len(s)
  BY <1>1, <1>6
<1> QED BY <1>5, <1>7

\* What is said of an auction depends on its rows alone.
LEMMA SameRows ==
  ASSUME NEW i \in Indices, catalogue'[i] = catalogue[i], placed'[i] = placed[i]
  PROVE  /\ Untouched(i)' <=> Untouched(i)
         /\ Sound(i)' <=> Sound(i)
         /\ Waiting(i)' <=> Waiting(i)
         /\ Marked(i)' <=> Marked(i)
         /\ \A k : InWar(i, k)' <=> InWar(i, k)
BY DEF Untouched, Sound, Waiting, Marked, InWar, IndexRefuses, Leading

-----------------------------------------------------------------------------
(* Visitors.                                                                *)

LEMMA VisitShape ==
  ASSUME SeedTypeOK, NEW i \in Indices, NEW x \in 1 .. MaxAmount, PlaceBid(i, x)
  PROVE  /\ SeedTypeOK'
         /\ catalogue[i].status = "active" /\ catalogue'[i].status = "active"
         /\ catalogue'[i].price = x /\ catalogue[i].price < x
         /\ Len(placed'[i]) = Len(placed[i]) + 1
         /\ \A n \in 1 .. Len(placed[i]) :
              placed'[i][n] = [amount |-> placed[i][n].amount, status |-> "outbid"]
         /\ placed'[i][Len(placed'[i])] = [amount |-> x, status |-> "winning"]
         /\ \A j \in Indices \ {i} : catalogue'[j] = catalogue[j] /\ placed'[j] = placed[j]
<1> DEFINE t == [n \in DOMAIN placed[i] |-> [placed[i][n] EXCEPT !.status = "outbid"]]
           b == [amount |-> x, status |-> "winning"]
<1>0. placed[i] \in Seq(BidRows) /\ x \in Nat /\ MaxAmount \in Nat
  BY PlacedType, SeedAssumption
<1>1. /\ t \in Seq(BidRows) /\ Len(t) = Len(placed[i])
      /\ \A n \in 1 .. Len(placed[i]) :
           t[n] = [amount |-> placed[i][n].amount, status |-> "outbid"]
  BY <1>0, AllOutbid
<1>2. b \in BidRows BY <1>0 DEF BidRows
<1>3. placed' = [placed EXCEPT ![i] = Append(t, b)]
  BY DEF PlaceBid
<1>4. placed'[i] = Append(t, b) /\ \A j \in Indices \ {i} : placed'[j] = placed[j]
  BY <1>3 DEF SeedTypeOK
<1> HIDE DEF t, b
<1>5. /\ Append(t, b) \in Seq(BidRows) /\ Len(Append(t, b)) = Len(t) + 1
      /\ \A n \in 1 .. Len(t) : Append(t, b)[n] = t[n]
      /\ Append(t, b)[Len(t) + 1] = b
  BY <1>1, <1>2, AppendProperties
<1>6. /\ catalogue[i].status = "active" /\ catalogue[i].price < x
      /\ catalogue' = [catalogue EXCEPT ![i] = [status |-> "active", price |-> x]]
  <2>1. catalogue[i] \in [status : {"none", "active", "ended"}, price : Nat]
    BY DEF SeedTypeOK
  <2>2. catalogue[i].status = "active" /\ catalogue[i].price < x
        /\ catalogue' = [catalogue EXCEPT ![i] = [catalogue[i] EXCEPT !.price = x]]
    BY <1>0, <2>1 DEF PlaceBid
  <2>3. [catalogue[i] EXCEPT !.price = x] = [status |-> "active", price |-> x]
    BY <2>1, <2>2
  <2> QED BY <2>2, <2>3
<1>7. SeedTypeOK'
  <2>1. placed' \in [Indices -> Seq(BidRows)] BY <1>3, <1>5 DEF SeedTypeOK
  <2>2. catalogue' \in [Indices -> [status : {"none", "active", "ended"}, price : Nat]]
    BY <1>0, <1>6 DEF SeedTypeOK
  <2> QED BY <2>1, <2>2 DEF SeedTypeOK, PlaceBid
<1> QED BY <1>1, <1>4, <1>5, <1>6, <1>7 DEF b, SeedTypeOK

LEMMA VisitLeads ==
  ASSUME SeedTypeOK, NEW i \in Indices, NEW x \in 1 .. MaxAmount, PlaceBid(i, x)
  PROVE  /\ IndexRefuses(i)'
         /\ ~Untouched(i)
         /\ Sound(i) => Sound(i)'
         /\ Waiting(i) => Waiting(i)'
<1> DEFINE last == Len(placed'[i])
<1>0. /\ SeedTypeOK'
      /\ catalogue[i].status = "active" /\ catalogue'[i].status = "active"
      /\ catalogue'[i].price = x /\ catalogue[i].price < x
      /\ last = Len(placed[i]) + 1
      /\ placed'[i][last] = [amount |-> x, status |-> "winning"]
  BY VisitShape
<1>1. /\ last \in Nat /\ DOMAIN placed'[i] = 1 .. last
      /\ Len(placed[i]) \in Nat /\ DOMAIN placed[i] = 1 .. Len(placed[i])
      /\ \A n \in 1 .. Len(placed[i]) : placed[i][n].amount \in Nat
      /\ catalogue[i].price \in Nat /\ x \in Nat
  <2>1. placed'[i] \in Seq(BidRows) BY <1>0 DEF SeedTypeOK
  <2>2. last \in Nat /\ DOMAIN placed'[i] = 1 .. last BY <2>1
  <2>3. \A n \in 1 .. Len(placed[i]) : placed[i][n].amount \in Nat
    BY PlacedType DEF BidRows
  <2> QED BY <2>2, <2>3, PlacedType, SeedAssumption
<1>2. \A n \in 1 .. Len(placed[i]) :
        placed'[i][n].status = "outbid" /\ placed'[i][n].amount = placed[i][n].amount
  <2>1. \A n \in 1 .. Len(placed[i]) :
          placed'[i][n] = [amount |-> placed[i][n].amount, status |-> "outbid"]
    BY VisitShape
  <2> SUFFICES ASSUME NEW n \in 1 .. Len(placed[i])
               PROVE  placed'[i][n].status = "outbid"
                      /\ placed'[i][n].amount = placed[i][n].amount
    OBVIOUS
  <2>2. placed'[i][n] = [amount |-> placed[i][n].amount, status |-> "outbid"]
    BY <2>1
  <2> QED BY <2>2
<1> HIDE DEF last
<1>3. Leading(i)' = {last}
  BY <1>0, <1>1, <1>2 DEF Leading
<1>4. IndexRefuses(i)' /\ ~Untouched(i)
  BY <1>0, <1>3 DEF IndexRefuses, Untouched, NoRow
<1>5. ASSUME Sound(i) PROVE Sound(i)'
  <2>1. \A n \in 1 .. Len(placed[i]) : placed[i][n].amount <= catalogue[i].price
    <3>1. CASE placed[i] = <<>> BY <3>1
    <3>2. CASE placed[i] # <<>> BY <1>1, <1>5, <3>2 DEF Sound
    <3> QED BY <3>1, <3>2
  <2>2. \A n \in DOMAIN placed'[i] : placed'[i][n].amount <= x
    BY <1>0, <1>1, <1>2, <2>1
  <2>3. last \in DOMAIN placed'[i] /\ placed'[i] # <<>>
    BY <1>0, <1>1
  <2> QED BY <1>0, <1>3, <2>2, <2>3 DEF Sound
<1>6. ASSUME Waiting(i) PROVE Waiting(i)'
  <2>1. Sound(i)' BY <1>5, <1>6 DEF Waiting
  <2>2. (catalogue[i].status = "active")' BY <1>0
  <2> QED BY <2>1, <2>2 DEF Waiting
<1> QED BY <1>4, <1>5, <1>6

LEMMA VisitInv ==
  ASSUME SeedInv, NEW i \in Indices, NEW x \in 1 .. MaxAmount, PlaceBid(i, x)
  PROVE  SeedInv'
<1>1. SeedTypeOK /\ SeedTypeOK' BY VisitShape DEF SeedInv
<1>2. \A j \in Indices \ {i} : catalogue'[j] = catalogue[j] /\ placed'[j] = placed[j]
  BY <1>1, VisitShape
<1>3. /\ ~Untouched(i) /\ (Sound(i) => Sound(i)') /\ (Waiting(i) => Waiting(i)')
      /\ \A k : InWar(i, k)'
  BY <1>1, VisitLeads DEF InWar
<1>4. /\ statement' = statement /\ struck \subseteq struck'
      /\ statement.kind = "price" /\ statement.item = i => i \in struck'
  BY DEF PlaceBid
<1>5. \A j \in Indices : /\ Untouched(j) => Untouched(j)'
                         /\ Sound(j) => Sound(j)'
                         /\ Waiting(j) => Waiting(j)'
                         /\ j # i /\ Marked(j) => Marked(j)'
                         /\ \A k : InWar(j, k) => InWar(j, k)'
  BY <1>2, <1>3, SameRows
<1>6. statement.item \in Indices BY <1>1 DEF SeedTypeOK
<1>7. Progress'
  BY <1>4, <1>5, <1>6 DEF SeedInv, Progress, Warring
<1> QED BY <1>1, <1>7 DEF SeedInv

-----------------------------------------------------------------------------
(* The script.                                                              *)

LEMMA NextWarType ==
  ASSUME NEW i \in Nat, NextWar(i)
  PROVE  statement' \in [kind : Kinds, item : Indices, bid : Nat]
BY IndexType DEF NextWar, Awaits, Kinds

LEMMA NextWarInv ==
  ASSUME SeedTypeOK', NEW i \in Nat, NextWar(i),
         \A j \in Indices : j <= i => (j \in struck \/ Sound(j))',
         \A j \in Indices : j > i => Waiting(j)'
  PROVE  Progress'
<1> DEFINE wars == {j \in Indices : j > i /\ Items[j].war # <<>>}
<1>0. \A j \in Indices : j \in Nat /\ (j \in struck \/ Sound(j))'
  BY IndexType DEF Waiting
<1>1. CASE wars = {}
  <2>1. statement' = [kind |-> "complete", item |-> 1, bid |-> 1]
    BY <1>1 DEF NextWar, Awaits
  <2> QED BY <1>0, <2>1 DEF Progress, Warring
<1>2. ASSUME NEW j \in wars, Awaits("bid", j, 1) PROVE Progress'
  <2>0. j \in Indices /\ j > i /\ j \in Nat BY <1>0
  <2>1. statement' = [kind |-> "bid", item |-> j, bid |-> 1]
    BY <1>2 DEF Awaits
  <2>2. WarLength(j) \in Nat /\ WarLength(j) > 0 BY <2>0, ItemType
  <2>3. InWar(j, 0)'
    <3>1. Waiting(j)' BY <2>0
    <3>2. placed'[j] \in Seq(BidRows) BY <2>0 DEF SeedTypeOK
    <3>3. CASE placed'[j] = <<>>
      BY <3>2, <3>3 DEF InWar
    <3>4. CASE placed'[j] # <<>>
      <4>1. Leading(j)' # {} BY <3>1, <3>4 DEF Waiting, Sound
      <4>2. catalogue'[j].status = "active" BY <3>1, <3>4 DEF Waiting
      <4> QED BY <4>1, <4>2 DEF InWar, IndexRefuses
    <3> QED BY <3>3, <3>4
  <2>4. \A k \in Indices : /\ k < j => (k \in struck \/ Sound(k))'
                           /\ k > j => Waiting(k)'
    BY <1>0, <2>0
  <2> QED BY <2>0, <2>1, <2>2, <2>3, <2>4 DEF Progress, Warring
<1> QED BY <1>1, <1>2 DEF NextWar

LEMMA StartInv ==
  ASSUME SeedInv, CleanSlate \/ InsertUsers \/ Fails
  PROVE  SeedInv'
<1>0. SeedTypeOK /\ statement.item \in Indices BY DEF SeedInv, SeedTypeOK
<1>1. CASE CleanSlate
  <2>1. /\ statement' = [kind |-> "seller", item |-> 1, bid |-> 1]
        /\ \A i \in Indices : Untouched(i)'
    BY <1>1 DEF CleanSlate, Awaits, Untouched
  <2>2. SeedTypeOK'
    BY <1>0, <1>1, <2>1, IndexType DEF CleanSlate, SeedTypeOK, Kinds, NoRow
  <2> QED BY <2>1, <2>2 DEF SeedInv, Progress, Warring
<1>2. CASE InsertUsers
  <2>1. /\ statement.kind \in {"seller", "bidders"}
        /\ statement' \in {[kind |-> "bidders", item |-> 1, bid |-> 1],
                           [kind |-> "auction", item |-> 1, bid |-> 1]}
        /\ UNCHANGED <<catalogue, placed, visits, struck>>
    BY <1>2 DEF InsertUsers, Awaits
  <2>2. SeedTypeOK'
    BY <1>0, <2>1, IndexType DEF SeedTypeOK, Kinds
  <2>3. \A i \in Indices : Untouched(i)' /\ ~(i < 1)
    BY <2>1, SameRows, IndexType DEF SeedInv, Progress
  <2> QED BY <2>1, <2>2, <2>3 DEF SeedInv, Progress, Warring
<1>3. CASE Fails
  <2>1. /\ statement' = [kind |-> "failed", item |-> statement.item, bid |-> 1]
        /\ UNCHANGED <<catalogue, placed, visits, struck>>
    BY <1>3 DEF Fails, Awaits
  <2>2. SeedTypeOK'
    BY <1>0, <2>1 DEF SeedTypeOK, Kinds
  <2> QED BY <2>1, <2>2 DEF SeedInv, Progress, Warring
<1> QED BY <1>1, <1>2, <1>3

LEMMA InsertAuctionInv ==
  ASSUME SeedInv, NEW i \in Indices, InsertAuction(i)
  PROVE  SeedInv'
<1>0. /\ SeedTypeOK /\ statement.kind = "auction" /\ statement.item = i
      /\ placed' = placed /\ UNCHANGED <<visits, struck>>
      /\ \A j \in Indices : IF j < i THEN Waiting(j) ELSE Untouched(j)
  BY DEF SeedInv, InsertAuction, Progress
<1>1. /\ i \in Nat /\ Len(Items) \in Nat /\ i <= Len(Items)
      /\ i < Len(Items) => i + 1 \in Indices
      /\ \A j \in Indices : j \in Nat /\ j > 0 /\ j <= Len(Items)
  BY IndexType
<1>2. /\ catalogue'[i].status = IF Items[i].over THEN "ended" ELSE "active"
      /\ catalogue'[i].price = Items[i].starting
      /\ \A j \in Indices \ {i} : catalogue'[j] = catalogue[j]
      /\ catalogue' \in [Indices -> [status : {"none", "active", "ended"}, price : Nat]]
  BY <1>0, ItemType DEF InsertAuction, SeedTypeOK
<1>3. placed'[i] = <<>> BY <1>0, <1>1 DEF Untouched
<1>4. Waiting(i)' BY <1>2, <1>3 DEF Waiting, Sound
<1>5. \A j \in Indices : /\ j <= i => Waiting(j)'
                         /\ j > i => Untouched(j)'
  <2> SUFFICES ASSUME NEW j \in Indices \ {i}
               PROVE  /\ j <= i => Waiting(j)'
                      /\ j > i => Untouched(j)'
    BY <1>1, <1>4
  <2> QED BY <1>0, <1>1, <1>2, SameRows
<1>6. CASE i < Len(Items)
  <2>1. statement' = [kind |-> "auction", item |-> i + 1, bid |-> 1]
    BY <1>6 DEF InsertAuction, Awaits
  <2>2. SeedTypeOK' BY <1>0, <1>1, <1>2, <1>6, <2>1 DEF SeedTypeOK, Kinds
  <2>3. \A j \in Indices : IF j < i + 1 THEN Waiting(j)' ELSE Untouched(j)'
    BY <1>1, <1>5
  <2> QED BY <2>1, <2>2, <2>3 DEF SeedInv, Progress, Warring
<1>7. CASE ~(i < Len(Items))
  <2>1. NextWar(0) BY <1>7 DEF InsertAuction
  <2>2. SeedTypeOK' BY <1>0, <1>2, <2>1, NextWarType DEF SeedTypeOK
  <2>3. \A j \in Indices : ~(j <= 0) /\ Waiting(j)' BY <1>1, <1>5, <1>7
  <2>4. Progress' BY <2>1, <2>2, <2>3, NextWarInv
  <2> QED BY <2>2, <2>4 DEF SeedInv
<1> QED BY <1>6, <1>7

\* The other auctions stay as they are while the script is at one.
LEMMA OthersWait ==
  ASSUME SeedInv, Warring, struck' = struck,
         \A j \in Indices \ {statement.item} : catalogue'[j] = catalogue[j] /\ placed'[j] = placed[j]
  PROVE  \A j \in Indices : /\ j < statement.item => (j \in struck \/ Sound(j))'
                            /\ j > statement.item => Waiting(j)'
<1>1. statement.item \in Nat BY IndexType DEF SeedInv, SeedTypeOK
<1> SUFFICES ASSUME NEW j \in Indices \ {statement.item}
             PROVE  /\ j < statement.item => (j \in struck \/ Sound(j))'
                    /\ j > statement.item => Waiting(j)'
  BY <1>1, IndexType
<1> QED BY SameRows DEF SeedInv, Progress

LEMMA InsertBidInv ==
  ASSUME SeedInv, NEW i \in Indices, InsertBid(i), NEW k, k = statement.bid
  PROVE  SeedInv'
<1> DEFINE b == [amount |-> Items[i].war[k], status |-> "outbid"]
<1>0. /\ SeedTypeOK /\ statement.kind = "bid" /\ statement.item = i /\ Warring
      /\ k \in 1 .. WarLength(i) /\ InWar(i, k - 1)
      /\ catalogue' = catalogue /\ UNCHANGED <<visits, struck>>
      /\ placed' = [placed EXCEPT ![i] = Append(placed[i], b)]
  BY DEF SeedInv, InsertBid, Progress, Warring
<1>1. k \in Nat /\ WarLength(i) \in Nat /\ b \in BidRows
  BY <1>0, ItemType DEF BidRows
<1> HIDE DEF b
<1>2. /\ placed[i] \in Seq(BidRows) /\ Len(placed[i]) \in Nat
      /\ DOMAIN placed[i] = 1 .. Len(placed[i])
  BY <1>0, PlacedType
<1>3. /\ placed'[i] \in Seq(BidRows) /\ Len(placed'[i]) = Len(placed[i]) + 1
      /\ \A n \in 1 .. Len(placed[i]) : placed'[i][n] = placed[i][n]
      /\ placed'[i][Len(placed[i]) + 1] = b
      /\ \A j \in Indices \ {i} : placed'[j] = placed[j]
  <2>1. placed'[i] = Append(placed[i], b) /\ \A j \in Indices \ {i} : placed'[j] = placed[j]
    BY <1>0 DEF SeedTypeOK
  <2> QED BY <1>1, <1>2, <2>1, AppendProperties
<1>4. placed' \in [Indices -> Seq(BidRows)]
  BY <1>0, <1>1, <1>2, AppendProperties DEF SeedTypeOK
<1>5. InWar(i, k)'
  <2>1. CASE IndexRefuses(i)
    <3>1. PICK n \in 1 .. Len(placed[i]) : placed[i][n].status \in {"winning", "won"}
      BY <1>2, <2>1 DEF IndexRefuses, Leading
    <3>2. n \in DOMAIN placed'[i] /\ placed'[i][n] = placed[i][n]
      BY <1>2, <1>3
    <3>3. IndexRefuses(i)' BY <1>0, <2>1, <3>1, <3>2 DEF IndexRefuses, Leading
    <3> QED BY <3>3 DEF InWar
  <2>2. CASE /\ Len(placed[i]) = k - 1
             /\ \A n \in 1 .. k - 1 : placed[i][n] = [amount |-> Items[i].war[n], status |-> "outbid"]
    <3>1. Len(placed'[i]) = k /\ placed'[i][k] = [amount |-> Items[i].war[k], status |-> "outbid"]
      BY <1>1, <1>3, <2>2 DEF b
    <3>2. \A n \in 1 .. k : placed'[i][n] = [amount |-> Items[i].war[n], status |-> "outbid"]
      <4> SUFFICES ASSUME NEW n \in 1 .. k
                   PROVE  placed'[i][n] = [amount |-> Items[i].war[n], status |-> "outbid"]
        OBVIOUS
      <4>1. CASE n = k BY <3>1, <4>1
      <4>2. CASE n # k
        <5>1. n \in 1 .. k - 1 /\ n \in 1 .. Len(placed[i]) BY <1>0, <1>1, <2>2, <4>2
        <5>2. placed'[i][n] = placed[i][n] BY <1>3, <5>1
        <5> QED BY <2>2, <5>1, <5>2
      <4> QED BY <4>1, <4>2
    <3> QED BY <3>1, <3>2 DEF InWar
  <2> QED BY <1>0, <2>1, <2>2 DEF InWar
<1>6. \A j \in Indices : /\ j < i => (j \in struck \/ Sound(j))'
                         /\ j > i => Waiting(j)'
  BY <1>0, <1>3, OthersWait
<1>7. CASE k < WarLength(i)
  <2>1. statement' = [kind |-> "bid", item |-> i, bid |-> k + 1]
    BY <1>7 DEF InsertBid, Awaits, WarLength
  <2>2. SeedTypeOK' BY <1>0, <1>1, <1>4, <2>1 DEF SeedTypeOK, Kinds
  <2>3. k + 1 \in 1 .. WarLength(i) /\ (k + 1) - 1 = k BY <1>1, <1>7
  <2> QED BY <1>5, <1>6, <2>1, <2>2, <2>3 DEF SeedInv, Progress, Warring
<1>8. CASE ~(k < WarLength(i))
  <2>1. statement' = [kind |-> "mark", item |-> i, bid |-> 1]
    BY <1>8 DEF InsertBid, Awaits, WarLength
  <2>2. SeedTypeOK' BY <1>0, <1>4, <2>1 DEF SeedTypeOK, Kinds
  <2>3. WarLength(i) = k /\ WarLength(i) > 0 BY <1>0, <1>1, <1>8
  <2> QED BY <1>5, <1>6, <2>1, <2>2, <2>3 DEF SeedInv, Progress, Warring
<1> QED BY <1>7, <1>8

LEMMA MarkLeaderInv ==
  ASSUME SeedInv, NEW i \in Indices, MarkLeader(i)
  PROVE  SeedInv'
<1> DEFINE losing == {n \in DOMAIN placed[i] :
                        placed[i][n] = [amount |-> Highest(i), status |-> "outbid"]}
           to == IF catalogue[i].status = "ended" THEN "won" ELSE "winning"
           last == WarLength(i)
<1>0. /\ SeedTypeOK /\ statement.kind = "mark" /\ statement.item = i /\ Warring
      /\ last > 0 /\ InWar(i, last)
      /\ catalogue' = catalogue /\ UNCHANGED <<visits, struck>>
  BY DEF SeedInv, MarkLeader, Progress, Warring
<1>1. CASE IndexRefuses(i)
  <2>1. statement' = [kind |-> "failed", item |-> i, bid |-> 1] /\ placed' = placed
    BY <1>1 DEF MarkLeader, Awaits
  <2>2. SeedTypeOK' BY <1>0, <2>1 DEF SeedTypeOK, Kinds
  <2> QED BY <2>1, <2>2 DEF SeedInv, Progress, Warring
<1>2. CASE ~IndexRefuses(i)
  <2>1. /\ last \in Nat /\ Highest(i) = Items[i].war[last]
        /\ \A n \in 1 .. last : Items[i].war[n] \in Nat /\ Items[i].war[n] <= Highest(i)
    BY ItemType DEF Highest, WarLength
  <2> HIDE DEF last
  <2>2. /\ placed[i] \in Seq(BidRows) /\ Len(placed[i]) = last /\ DOMAIN placed[i] = 1 .. last
        /\ \A n \in 1 .. last : placed[i][n] = [amount |-> Items[i].war[n], status |-> "outbid"]
    BY <1>0, <1>2, PlacedType DEF InWar
  <2>3. last \in losing BY <1>0, <2>1, <2>2
  <2>4. PICK n \in losing : /\ \A m \in losing : m <= n
                            /\ placed' = [placed EXCEPT ![i][n].status = to]
    BY <1>2 DEF MarkLeader
  <2>5. n = last BY <2>1, <2>2, <2>3, <2>4
  <2>6. /\ statement' = [kind |-> "price", item |-> i, bid |-> 1]
        /\ placed' = [placed EXCEPT ![i] = [placed[i] EXCEPT ![last] =
                       [placed[i][last] EXCEPT !.status = to]]]
    BY <1>2, <2>4, <2>5 DEF MarkLeader, Awaits
  <2>7. /\ [placed[i][last] EXCEPT !.status = to] = [amount |-> Highest(i), status |-> to]
        /\ [amount |-> Highest(i), status |-> to] \in BidRows
    BY <1>0, <2>1, <2>2 DEF BidRows
  <2>8. /\ placed'[i] \in Seq(BidRows) /\ Len(placed'[i]) = last
        /\ \A m \in 1 .. last : placed'[i][m] =
             IF m = last THEN [amount |-> Highest(i), status |-> to] ELSE placed[i][m]
        /\ \A j \in Indices \ {i} : placed'[j] = placed[j]
        /\ placed' \in [Indices -> Seq(BidRows)]
    <3>1. last \in 1 .. Len(placed[i]) BY <1>0, <2>1, <2>2
    <3>2. ASSUME NEW e \in BidRows
          PROVE  /\ [placed[i] EXCEPT ![last] = e] \in Seq(BidRows)
                 /\ Len([placed[i] EXCEPT ![last] = e]) = last
      <4>1. placed[i] \in Seq(BidRows) /\ Len(placed[i]) = last BY <2>2
      <4>2. /\ [placed[i] EXCEPT ![last] = e] \in Seq(BidRows)
            /\ Len([placed[i] EXCEPT ![last] = e]) = Len(placed[i])
        BY <3>1, <3>2, <4>1, ExceptSeq
      <4> QED BY <4>1, <4>2
    <3> QED BY <1>0, <2>2, <2>6, <2>7, <3>1, <3>2 DEF SeedTypeOK
  <2>9. Marked(i)'
    <3>1. DOMAIN placed'[i] = 1 .. last /\ last \in 1 .. last
      BY <1>0, <2>1, <2>8
    <3>2. placed'[i][last].amount = Highest(i) /\ placed'[i][last].status \in {"winning", "won"}
      BY <2>8, <3>1
    <3>3. ASSUME NEW m \in 1 .. last, m # last
          PROVE  placed'[i][m].status = "outbid" /\ placed'[i][m].amount <= Highest(i)
      <4>1. placed'[i][m] = [amount |-> Items[i].war[m], status |-> "outbid"]
        BY <2>2, <2>8, <3>3
      <4> QED BY <2>1, <4>1
    <3>4. Leading(i)' = {last} BY <3>1, <3>2, <3>3 DEF Leading
    <3>5. Highest(i) <= Highest(i) BY <1>0, <2>1
    <3>6. \A m \in DOMAIN placed'[i] : placed'[i][m].amount <= Highest(i)
      BY <3>1, <3>2, <3>3, <3>5
    <3> QED BY <3>1, <3>2, <3>4, <3>6 DEF Marked, Highest
  <2>10. \A j \in Indices : /\ j < i => (j \in struck \/ Sound(j))'
                            /\ j > i => Waiting(j)'
    BY <1>0, <2>8, OthersWait
  <2>11. SeedTypeOK' BY <1>0, <2>6, <2>8 DEF SeedTypeOK, Kinds
  <2> QED BY <1>0, <2>6, <2>9, <2>10, <2>11 DEF SeedInv, Progress, Warring, last
<1> QED BY <1>1, <1>2

LEMMA SetPriceInv ==
  ASSUME SeedInv, NEW i \in Indices, SetPrice(i)
  PROVE  SeedInv'
<1>0. /\ SeedTypeOK /\ statement.kind = "price" /\ statement.item = i /\ Warring
      /\ WarLength(i) > 0 /\ (i \in struck \/ Marked(i))
      /\ placed' = placed /\ UNCHANGED <<visits, struck>> /\ NextWar(i)
      /\ catalogue' = [catalogue EXCEPT ![i].price = Highest(i)]
  BY DEF SeedInv, SetPrice, Progress, Warring
<1>1. i \in Nat /\ Highest(i) \in Nat
  BY <1>0, ItemType, IndexType DEF Highest, WarLength
<1>2. /\ catalogue'[i].price = Highest(i)
      /\ \A j \in Indices \ {i} : catalogue'[j] = catalogue[j]
      /\ catalogue' \in [Indices -> [status : {"none", "active", "ended"}, price : Nat]]
  BY <1>0, <1>1 DEF SeedTypeOK
<1>3. SeedTypeOK' BY <1>0, <1>1, <1>2, NextWarType DEF SeedTypeOK
<1>4. (i \in struck \/ Sound(i))'
  <2>1. CASE i \in struck BY <1>0, <2>1
  <2>2. CASE Marked(i)
    <3>1. placed[i] # <<>> BY <1>0, <2>2, PlacedType DEF Marked
    <3>2. Leading(i)' = Leading(i) BY <1>0 DEF Leading
    <3> QED BY <1>0, <1>2, <2>2, <3>1, <3>2 DEF Marked, Sound
  <2> QED BY <1>0, <2>1, <2>2
<1>5. \A j \in Indices : /\ j < i => (j \in struck \/ Sound(j))'
                         /\ j > i => Waiting(j)'
  BY <1>0, <1>2, OthersWait
<1>6. \A j \in Indices : j <= i => (j \in struck \/ Sound(j))'
  BY <1>1, <1>4, <1>5, IndexType
<1>7. Progress' BY <1>0, <1>1, <1>3, <1>5, <1>6, NextWarInv
<1> QED BY <1>3, <1>7 DEF SeedInv

LEMMA SeedStep == SeedInv /\ [SeedNext]_seedVars => SeedInv'
<1> SUFFICES ASSUME SeedInv, [SeedNext]_seedVars PROVE SeedInv'
  OBVIOUS
<1>1. CASE UNCHANGED seedVars
  <2>1. UNCHANGED <<statement, catalogue, placed, visits, struck>> BY <1>1 DEF seedVars
  <2>2. SeedTypeOK' BY <2>1 DEF SeedInv, SeedTypeOK
  <2>3. \A i \in Indices :
          /\ Untouched(i)' <=> Untouched(i)
          /\ Sound(i)' <=> Sound(i)
          /\ Waiting(i)' <=> Waiting(i)
          /\ Marked(i)' <=> Marked(i)
          /\ \A k : InWar(i, k)' <=> InWar(i, k)
    BY <2>1, SameRows
  <2>4. statement.item \in Indices BY DEF SeedInv, SeedTypeOK
  <2>5. Progress' BY <2>1, <2>3, <2>4 DEF SeedInv, Progress, Warring
  <2> QED BY <2>2, <2>5 DEF SeedInv
<1>2. CASE CleanSlate \/ InsertUsers \/ Fails BY <1>2, StartInv
<1>3. ASSUME NEW i \in Indices, InsertAuction(i) \/ InsertBid(i) \/ MarkLeader(i) \/ SetPrice(i)
      PROVE  SeedInv'
  BY <1>3, InsertAuctionInv, InsertBidInv, MarkLeaderInv, SetPriceInv
<1>4. ASSUME NEW i \in Indices, NEW x \in 1 .. MaxAmount, PlaceBid(i, x) PROVE SeedInv'
  BY <1>4, VisitInv
<1> QED BY <1>1, <1>2, <1>3, <1>4 DEF SeedNext

THEOREM SeedInvariant == SeedSpec => []SeedInv
<1>1. SeedInit => SeedInv
  <2> SUFFICES ASSUME SeedInit PROVE SeedInv
    OBVIOUS
  <2>1. SeedTypeOK BY IndexType DEF SeedInit, SeedTypeOK, Kinds, NoRow
  <2>2. Progress BY DEF SeedInit, Progress, Warring
  <2> QED BY <2>1, <2>2 DEF SeedInv
<1> QED BY <1>1, SeedStep, PTL DEF SeedSpec

\* What the seed script reports complete has one leader at each price, however often it
\* died before and whoever bid on its auctions, except those it set a price over.
THEOREM SeedIsSoundAlways == SeedSpec => []SeedIsSound
<1>1. SeedInv => SeedIsSound
  BY DEF SeedInv, Progress, SeedIsSound, Sound
<1> QED BY <1>1, SeedInvariant, PTL

-----------------------------------------------------------------------------
(* The types of all.                                                        *)

LEMMA TypesStep == LInv /\ TypeOK /\ [Next]_vars => TypeOK'
<1> SUFFICES ASSUME LInv, TypeOK, [Next]_vars PROVE TypeOK'
  OBVIOUS
<1> USE DEF TypeOK
<1>1. /\ IsFiniteSet(Auctions) /\ Cardinality(Auctions) \in Nat
      /\ Listed \subseteq Auctions /\ Cardinality(Listed) \in 0 .. Cardinality(Auctions)
  <2>1. IsFiniteSet(Auctions) /\ Cardinality(Auctions) \in Nat /\ Listed \subseteq Auctions
    BY ListingAssumption, FS_CardinalityType DEF Listed
  <2>2. IsFiniteSet(Listed) /\ Cardinality(Listed) <= Cardinality(Auctions)
    BY <2>1, FS_Subset
  <2>3. Cardinality(Listed) \in Nat
    BY <2>2, FS_CardinalityType
  <2> QED BY <2>1, <2>2, <2>3
<1>2. ASSUME NEW a \in Auctions, NEW e \in EndTimes, CreateAuction(a, e)
      PROVE  TypeOK'
  BY <1>2 DEF CreateAuction, pageVars, walkVars
<1>3. ASSUME NEW a \in Auctions, ActivateAuction(a) \/ EndAuction(a)
      PROVE  TypeOK'
  BY <1>3 DEF ActivateAuction, EndAuction, Changes, pageVars, walkVars
<1>4. ASSUME NEW p \in 1 .. MaxPage, StartWalk(p)
      PROVE  TypeOK'
  BY <1>1, <1>4 DEF StartWalk, dbVars, walkVars
<1>5. CASE ReadRows
  <2>1. PICK rs \in OffsetPages : rows' = Read(rs)
    BY <1>5 DEF ReadRows
  <2>2. rs \subseteq Auctions
    BY <1>1, <2>1 DEF OffsetPages
  <2>3. rows'.is \subseteq Auctions
    BY <2>1, <2>2 DEF Read
  <2> QED BY <1>5, <2>3 DEF ReadRows, dbVars, walkVars
<1>6. CASE ReadTotal
  <2>1. total'.is = Cardinality(Listed)
    BY <1>6 DEF ReadTotal, Read
  <2> QED BY <1>1, <1>6, <2>1 DEF ReadTotal, dbVars, walkVars
<1>7. CASE AnswerPage
  <2>1. rows.is \subseteq Auctions /\ seen' = rows.is /\ again = {} /\ again' = again
    BY <1>7 DEF AnswerPage, LInv, Phases
  <2>2. \A a \in rows.is : end[a] \in EndTimes \cup {0} /\ CursorOf(a) \in (EndTimes \cup {0}) \X (Auctions \cup {0})
    BY <2>1 DEF CursorOf
  <2>3. /\ asks' \in {"nothing", "page", "cursor", "done"}
        /\ cursor' \in (EndTimes \cup {0}) \X (Auctions \cup {0}) /\ border' \in EndTimes \cup {0}
    BY <1>7, <2>2 DEF AnswerPage
  <2> QED BY <1>7, <2>1, <2>3 DEF AnswerPage, dbVars, Unread
<1>8. CASE NextPage
  <2>1. PICK items \in SUBSET {a \in Auctions : status[a] = "active" /\ After(cursor, a)} :
          /\ seen' = seen \cup items /\ again' = again \cup (seen \cap items)
          /\ \/ asks' = "done" /\ UNCHANGED cursor
             \/ \E last \in items : asks' = "cursor" /\ cursor' = CursorOf(last)
    BY <1>8 DEF NextPage
  <2>2. \A a \in items : CursorOf(a) \in (EndTimes \cup {0}) \X (Auctions \cup {0})
    BY DEF CursorOf
  <2>3. /\ asks' \in {"nothing", "page", "cursor", "done"}
        /\ cursor' \in (EndTimes \cup {0}) \X (Auctions \cup {0})
    BY <2>1, <2>2
  <2>4. seen' \subseteq Auctions /\ again' \subseteq seen'
    BY <2>1
  <2> QED BY <1>8, <2>3, <2>4 DEF NextPage, dbVars, pageVars
<1>9. CASE UNCHANGED vars
  BY <1>9 DEF vars, dbVars, pageVars, walkVars
<1> QED BY <1>2, <1>3, <1>4, <1>5, <1>6, <1>7, <1>8, <1>9 DEF Next

LEMMA InitTypes == Init => TypeOK
<1> SUFFICES ASSUME Init PROVE TypeOK
  OBVIOUS
<1>1. 1 \in 1 .. MaxPage
  BY ListingAssumption
<1>2. /\ status \in [Auctions -> {"none", "draft", "active", "ended"}]
      /\ end \in [Auctions -> EndTimes \cup {0}]
  BY DEF Init
<1>3. cursor \in (EndTimes \cup {0}) \X (Auctions \cup {0})
  BY DEF Init
<1>4. ~rows.read /\ ~total.read
  BY DEF Init, Unread
<1> QED BY <1>1, <1>2, <1>3, <1>4 DEF Init, TypeOK

\* Rows, readers and script are well formed.
THEOREM CatalogueTypes == CatalogueSpec => []CatalogueTypeOK
<1>1. Spec => []TypeOK
  BY InitTypes, TypesStep, ListingInvariant, PTL DEF Spec
<1>2. SeedInv => SeedTypeOK
  BY DEF SeedInv
<1> QED BY <1>1, <1>2, ReadsTyped, ReadsInvariant, SeedInvariant, PTL
        DEF CatalogueSpec, CatalogueTypeOK
=============================================================================
