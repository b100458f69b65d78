----------------------------- MODULE MCDiscovery -----------------------------
(* Small instances of EmbeddingSearch and AnalysisStream in one state graph, as *)
(* in MCCatalogue: they share no variable, and one of them moves.             *)
EXTENDS Discovery

\* At the real limits of 20 rows a signal, whatever both signals found outweighs
\* whatever one of them found.
ASSUME \A r, t, i \in 1 .. 20 :
         RrfScore(r, t) > RrfScore(i, 0) /\ RrfScore(r, t) > RrfScore(0, i)

MCInit == Init /\ StreamInit

\* One of the initial states of each, while the other moves.
Quiet == Init /\ ~hasRealEmbeddings
StreamQuiet == StreamInit /\ subject = "none" /\ vectors = {} /\ matching = {}

MCNext ==
  \/ StreamQuiet /\ Next /\ UNCHANGED streamVars
  \/ Quiet /\ StreamNext /\ UNCHANGED vars

\* Nothing that fairness is about is enabled in the initial states.
MCSpec == MCInit /\ [][MCNext]_<<vars, streamVars>> /\ Fairness
=============================================================================
