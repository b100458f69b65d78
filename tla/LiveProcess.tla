----------------------------- MODULE LiveProcess -----------------------------
(***************************************************************************)
(* The long-lived parts of an API process: the rooms of its sockets with   *)
(* the channel between worker and API, and its connections.  Neither waits *)
(* for the other: the subscriber has a Redis client of its own, and a      *)
(* broadcast needs no connection.                                          *)
(***************************************************************************)
EXTENDS Realtime, Connections

LiveProcessSpec == Spec /\ PoolSpec

\* The state of rooms, channel, pool and clients is well formed.
RealtimeTypeOK == TypeOK /\ PoolTypeOK
=============================================================================
