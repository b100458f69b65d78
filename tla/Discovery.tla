------------------------------ MODULE Discovery ------------------------------
(***************************************************************************)
(* How an auction is found and judged: the search by vectors or words, and *)
(* the analysis of one auction.  Both read auctions.embedding, which the   *)
(* analysis takes as it finds it.                                          *)
(***************************************************************************)
EXTENDS EmbeddingSearch, AnalysisStream

DiscoverySpec == Spec /\ StreamSpec

\* The state of jobs, searches and streams is well formed.
DiscoveryTypeOK == TypeOK /\ StreamTypeOK
=============================================================================
