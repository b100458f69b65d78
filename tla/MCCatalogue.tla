----------------------------- MODULE MCCatalogue -----------------------------
(* Small instances of Listing, BidReads and Seed in one state graph.  They    *)
(* share no variable, so a run in which only one of them moves shows each all *)
(* its behaviours, at the price of the sum of their states and not the        *)
(* product.                                                                   *)
EXTENDS Catalogue

\* An auction that runs, one that is over and one without bids.
MCItems ==
  << [starting |-> 1, war |-> <<2, 4>>, over |-> FALSE],
     [starting |-> 1, war |-> <<2, 3>>, over |-> TRUE],
     [starting |-> 2, war |-> <<>>, over |-> FALSE] >>

MCInit == Init /\ ReadsInit /\ SeedInit

MCNext ==
  \/ ReadsInit /\ SeedInit /\ Next /\ UNCHANGED <<readsVars, seedVars>>
  \/ Init /\ SeedInit /\ ReadsNext /\ UNCHANGED <<vars, seedVars>>
  \/ Init /\ ReadsInit /\ SeedNext /\ UNCHANGED <<vars, readsVars>>

MCSpec == MCInit /\ [][MCNext]_<<vars, readsVars, seedVars>>
=============================================================================
