------------------------------ MODULE FrontDoor ------------------------------
(***************************************************************************)
(* What app.ts puts in front of every handler, and the accounts and tokens *)
(* behind it.  The two share no state: the limiters have keys of their own *)
(* in Redis, and an access token is all the gate sees of a session.        *)
(***************************************************************************)
EXTENDS Sessions, RequestGate

FrontDoorSpec == Spec /\ GateSpec

\* The state of sessions, tokens, limiters and requests is well formed.
FrontDoorTypeOK == TypeOK /\ GateTypeOK
=============================================================================
