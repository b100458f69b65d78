----------------------------- MODULE MCRealtime -----------------------------
(* Small instances of Realtime and Connections in one state graph, as in     *)
(* MCCatalogue: they share no variable, and one of them moves.               *)
EXTENDS LiveProcess

MCInit == Init /\ PoolInit

MCNext ==
  \/ PoolInit /\ Next /\ UNCHANGED connectionVars
  \/ Init /\ PoolNext /\ UNCHANGED vars

\* Nothing that fairness is about is enabled in the initial states.
MCSpec == MCInit /\ [][MCNext]_<<vars, connectionVars>> /\ Fairness /\ PoolFairness
=============================================================================
