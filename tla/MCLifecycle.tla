----------------------------- MODULE MCLifecycle -----------------------------
(* Small instances of the life of an auction for TLC.                        *)
EXTENDS LifecycleProperties

CONSTANTS r1, r2, alice, bob, sam, w1, w2

MCRequests == {r1, r2}
MCUsers == {alice, bob, sam}
MCWorkers == {w1, w2}

Offer(b, a) == [bidder |-> b, amount |-> a, key |-> NoKey]

\* A bid and a raise, in either order or the same bid twice; MCSystem adds a tie.
MCOffers == {Offer(alice, 2), Offer(bob, 3)}

\* The two bids differ by name only, so the first may be the lower one.
MCInit == LifecycleInit /\ offer[r1] = Offer(alice, 2)
MCFair == MCInit /\ [][LifecycleNext]_allVars /\ LifecycleFairness
==============================================================================
