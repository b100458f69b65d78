------------------------------ MODULE Catalogue ------------------------------
(***************************************************************************)
(* What a deployment shows of its auctions: the listing, one auction and   *)
(* its bids, and the demo auctions of the seed script.  Each stands for    *)
(* the rows as its own client or script finds them.                        *)
(***************************************************************************)
EXTENDS Listing, BidReads, Seed

CatalogueSpec == Spec /\ ReadsSpec /\ SeedSpec

\* The state of rows, readers and script is well formed.
CatalogueTypeOK == TypeOK /\ ReadsTypeOK /\ SeedTypeOK
=============================================================================
