-------------------------------- MODULE MCBid --------------------------------
(* Small instances of placeBid for TLC.                                      *)
EXTENDS BidRefinement, TLC

CONSTANTS r1, r2, r3, alice, bob, sam, k1

MCRequests == {r1, r2, r3}
MCUsers == {alice, bob, sam}

Offer(b, a, k) == [bidder |-> b, amount |-> a, key |-> k]

\* Nothing, raises, one's own raise, equal amounts of two bidders, the seller's
\* own, and two calls that may share a key.
MixedOffers ==
  {Offer(alice, 0, NoKey), Offer(alice, 2, k1), Offer(alice, 3, k1),
   Offer(bob, 3, NoKey), Offer(sam, 4, NoKey)}

\* Retries of one key, with the same payload and with others, that displace a
\* bid of another bidder or are too low.
KeyedOffers ==
  {Offer(alice, 3, k1), Offer(alice, 4, k1), Offer(bob, 2, NoKey), Offer(bob, 1, k1)}

\* A key whose calls may be retried with another payload, a bid without one, and
\* a call that is refused at once.
FairOffers ==
  {Offer(alice, 2, k1), Offer(bob, 1, k1), Offer(bob, 3, NoKey), Offer(alice, 0, BadKey)}

Symmetry == Permutations(MCRequests)
=============================================================================
