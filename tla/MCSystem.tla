------------------------------ MODULE MCSystem ------------------------------
(* Small instances of API and worker for TLC.                                *)
EXTENDS AuctionSystem, TLC

CONSTANTS r1, r2, alice, bob, sam, w1, w2

MCRequests == {r1, r2}
MCUsers == {alice, bob, sam}
MCWorkers == {w1, w2}

Offer(b, a) == [bidder |-> b, amount |-> a, key |-> NoKey]

\* Two bidders at one amount, and a raise.
MCOffers == {Offer(alice, 2), Offer(bob, 2), Offer(bob, 3)}

Symmetry == Permutations(MCRequests) \cup Permutations(MCWorkers)
=============================================================================
