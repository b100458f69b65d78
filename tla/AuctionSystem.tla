---------------------------- MODULE AuctionSystem ----------------------------
(***************************************************************************)
(* The API and the worker on the rows they share: placeBid,                *)
(* activateAuction and the handler of the expire-auction job, statement by *)
(* statement.  BidService has an environment in the place of the other     *)
(* two, and AuctionLifecycle takes a bid for one step.                     *)
(***************************************************************************)
EXTENDS BidRefinement, LifecycleProperties

bidVars == <<keyStatus, events, advLock, callVars, sideVars>>
systemVars == <<vars, lifecycleVars>>

\* The rows are one and the same; each part brings its own variables.
SystemInit == Init /\ LifecycleInit

\* createAuction, and the clock.
Elsewhere == (CreateRow \/ EndTimePasses) /\ UNCHANGED <<bidVars, lifecycleVars>>

SystemNext ==
  \/ Elsewhere
  \/ (\E r \in Requests : CallStep(r) \/ FaultStep(r)) /\ UNCHANGED lifecycleVars
  \/ LifecycleStep /\ UNCHANGED bidVars

SystemSpec == SystemInit /\ [][SystemNext]_systemVars
=============================================================================
