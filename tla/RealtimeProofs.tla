--------------------------- MODULE RealtimeProofs ---------------------------
(***************************************************************************)
(* Watchers and shutdowns for any number of processes, sockets, bids and   *)
(* lost connections, and connections for any pool and number of requests:  *)
(* CountsAreTrue, FinalPriceIsFinal, CleanExitCutsNobody, NoHoldAndWait    *)
(* and the types of both.                                                  *)
(***************************************************************************)
EXTENDS LiveProcess, FiniteSetTheorems, SequenceTheorems, TLAPS

-----------------------------------------------------------------------------
(* Rooms, prices and shutdowns.                                             *)

\* The types these proofs need.
Types ==
  /\ price \in Nat /\ ended \in BOOLEAN
  /\ calls \in [Processes -> SUBSET Nat]
  /\ sock \in [Sockets -> {"none", "open", "closing", "refused"}]
  /\ home \in [Sockets -> Processes \cup {Nowhere}]
  /\ room \in [Processes -> SUBSET Sockets]
  /\ shown \in [Sockets -> Nat] /\ final \in [Sockets -> Nat]
  /\ link \in [Processes -> BOOLEAN] /\ wire \in [Processes -> BOOLEAN]
  /\ proc \in [Processes -> {"up", "draining", "closing", "exit0", "exit1"}]

\* Where sockets are: one has a process while it is connected, and a room holds
\* connected sockets of its process, all open ones among them.
Rooms ==
  /\ \A s \in Sockets : sock[s] = "none" <=> home[s] \notin Processes
  /\ \A s \in Sockets : sock[s] = "open" => s \in room[home[s]]
  /\ \A p \in Processes : \A s \in room[p] : home[s] = p /\ sock[s] \in {"open", "closing"}

\* What each watcher was told last, as long as no 'close' event is due.
Counts ==
  \A p \in Processes :
    (\A s \in Sockets : home[s] = p => sock[s] # "closing") =>
      \A s \in room[p] : count[s] = Cardinality(room[p])

\* Nothing under way is higher than the price, and the end is announced after it.
Prices ==
  /\ \A p \in Processes : \A b \in calls[p] : b <= price
  /\ \A p \in Processes : wire[p] => ended
  /\ job # "waiting" => ended
  /\ \A s \in Sockets : shown[s] <= price
  /\ \A s \in Sockets : final[s] # 0 => ended /\ final[s] = price + 1

\* A process that closes its subsystems has nothing left to do.
Idle ==
  \A p \in Processes :
    proc[p] = "closing" => calls[p] = {} /\ \A s \in Sockets : home[s] # p

RInv == Types /\ Rooms /\ Counts /\ Prices /\ Idle

-----------------------------------------------------------------------------
(* Every step preserves the invariant.                                      *)

LEMMA InitRInv == Init => RInv
<1> SUFFICES ASSUME Init PROVE RInv
  OBVIOUS
<1> USE RealtimeAssumption DEF Init
<1>1. Types BY DEF Types
<1>2. Rooms BY DEF Rooms
<1>3. Counts BY DEF Counts
<1>4. Prices BY DEF Prices
<1>5. Idle BY DEF Idle
<1> QED BY <1>1, <1>2, <1>3, <1>4, <1>5 DEF RInv

LEMMA JoinRInv ==
  ASSUME RInv, NEW p \in Processes, NEW s \in Sockets, Join(p, s)
  PROVE  RInv'
<1> DEFINE members == joinRoom(p, s)
<1>1. /\ proc[p] = "up" /\ sock[s] = "none" /\ home[s] \notin Processes
      /\ sock' = [sock EXCEPT ![s] = "open"] /\ home' = [home EXCEPT ![s] = p]
      /\ room' = [room EXCEPT ![p] = Opens(members)]
      /\ count' = [u \in Sockets |-> IF u \in Opens(members) THEN Cardinality(members) ELSE count[u]]
      /\ UNCHANGED <<price, ended, calls, shown, final, linkVars, proc, job>>
  BY DEF Join, Counted, roomSize, RInv, Rooms
<1>2. /\ members = room[p] \cup {s} /\ s \notin room[p]
      /\ Opens(members) \subseteq members
      /\ \A u \in members : u \in Opens(members) <=> sock'[u] = "open"
      /\ \A u \in room[p] : home[u] = p /\ u # s /\ sock'[u] = sock[u]
  BY <1>1 DEF joinRoom, Opens, RInv, Rooms, Types
<1>3. Types'
  BY <1>1, <1>2 DEF RInv, Types, linkVars
<1>a. /\ \A u \in Sockets : u # s => home'[u] = home[u] /\ sock'[u] = sock[u]
      /\ home'[s] = p /\ sock'[s] = "open" /\ s \in room'[p]
      /\ \A q \in Processes : q # p => room'[q] = room[q]
      /\ room'[p] = Opens(members)
      /\ \A u \in room[p] : u \in room'[p] <=> sock[u] = "open"
      /\ \A q \in Processes : room[q] \subseteq Sockets /\ s \notin room[q]
  <2>1. /\ \A u \in Sockets : u # s => home'[u] = home[u] /\ sock'[u] = sock[u]
        /\ home'[s] = p /\ sock'[s] = "open"
    BY <1>1 DEF RInv, Types
  <2>2. \A q \in Processes : room[q] \subseteq Sockets /\ s \notin room[q]
    BY <1>1 DEF RInv, Types, Rooms
  <2>3. room'[p] = Opens(members) /\ \A q \in Processes : q # p => room'[q] = room[q]
    BY <1>1 DEF RInv, Types
  <2>4. s \in Opens(members) /\ \A u \in room[p] : u \in Opens(members) <=> sock[u] = "open"
    BY <1>2, <2>1
  <2> QED BY <2>1, <2>2, <2>3, <2>4
<1>4. Rooms'
  <2>1. \A u \in Sockets : sock'[u] = "none" <=> home'[u] \notin Processes
    BY <1>a DEF RInv, Rooms
  <2>2. \A u \in Sockets : sock'[u] = "open" => u \in room'[home'[u]]
    BY <1>a DEF RInv, Rooms
  <2>3. \A q \in Processes : \A u \in room'[q] : home'[u] = q /\ sock'[u] \in {"open", "closing"}
    BY <1>2, <1>a DEF RInv, Rooms
  <2> QED BY <2>1, <2>2, <2>3 DEF Rooms
<1>5. Counts'
  <2> SUFFICES ASSUME NEW q \in Processes,
                      \A u \in Sockets : home'[u] = q => sock'[u] # "closing",
                      NEW v \in room'[q]
               PROVE  count'[v] = Cardinality(room'[q])
    BY DEF Counts
  <2>1. CASE q = p
    <3>0. \A u \in members : u \in Opens(members)
      BY <1>2, <1>a, <2>1 DEF RInv, Rooms
    <3>1. Opens(members) = members
      BY <1>2, <3>0
    <3> QED BY <1>1, <1>2, <1>a, <2>1, <3>1
  <2>2. CASE q # p
    <3>1. room'[q] = room[q] /\ v \in Sockets /\ v \notin members
      BY <1>2, <1>a, <2>2 DEF RInv, Rooms
    <3>2. count'[v] = count[v]
      BY <1>1, <1>2, <3>1
    <3>3. \A u \in Sockets : home[u] = q => sock[u] # "closing"
      BY <1>1, <1>a
    <3> QED BY <3>1, <3>2, <3>3 DEF RInv, Counts
  <2> QED BY <2>1, <2>2
<1>6. Prices' /\ Idle'
  BY <1>1 DEF RInv, Types, Prices, Idle, linkVars
<1> QED BY <1>3, <1>4, <1>5, <1>6 DEF RInv

LEMMA RefuseRInv ==
  ASSUME RInv, NEW p \in Processes, NEW s \in Sockets, RefuseSocket(p, s)
  PROVE  RInv'
<1>1. /\ proc[p] = "up" /\ sock[s] = "none" /\ home[s] \notin Processes
      /\ sock' = [sock EXCEPT ![s] = "refused"] /\ home' = [home EXCEPT ![s] = p]
      /\ UNCHANGED <<price, ended, calls, room, count, shown, final, link, wire, proc, job>>
  BY DEF RefuseSocket, RInv, Rooms, clientVars, linkVars
<1>2. Types' /\ Rooms'
  BY <1>1 DEF RInv, Types, Rooms
<1>3. Counts'
  BY <1>1 DEF RInv, Types, Rooms, Counts
<1>4. Prices' /\ Idle'
  BY <1>1 DEF RInv, Types, Prices, Idle
<1> QED BY <1>2, <1>3, <1>4 DEF RInv

\* From here on the socket's 'close' event is due, so its process's counts are not
\* spoken of.
LEMMA BreakRInv ==
  ASSUME RInv, NEW s \in Sockets, SocketBreaks(s)
  PROVE  RInv'
<1> DEFINE p == home[s]
<1>1. /\ sock[s] = "open" /\ p \in Processes
      /\ sock' = [sock EXCEPT ![s] = "closing"]
      /\ room' = room \/ room' = [room EXCEPT ![p] = room[p] \ {s}]
      /\ count' = [u \in Sockets |-> IF u \in {s} THEN 0 ELSE count[u]]
      /\ shown' = [u \in Sockets |-> IF u \in {s} THEN 0 ELSE shown[u]]
      /\ final' = [u \in Sockets |-> IF u \in {s} THEN 0 ELSE final[u]]
      /\ UNCHANGED <<price, ended, calls, home, link, wire, proc, job>>
  BY DEF SocketBreaks, Forget, leaveRoom, RInv, Rooms, linkVars
<1>2. Types'
  BY <1>1 DEF RInv, Types
<1>3. Rooms'
  BY <1>1 DEF RInv, Types, Rooms
<1>4. Counts'
  BY <1>1 DEF RInv, Types, Rooms, Counts
<1>5. Prices'
  BY <1>1 DEF RInv, Types, Prices
<1>6. Idle'
  BY <1>1 DEF RInv, Idle
<1> QED BY <1>2, <1>3, <1>4, <1>5, <1>6 DEF RInv

\* The last 'close' event due tells everybody who stays.
LEMMA CloseRInv ==
  ASSUME RInv, NEW s \in Sockets, SocketCloses(s)
  PROVE  RInv'
<1> DEFINE p == home[s]  remaining == room[p] \ {s}
<1>1. /\ sock[s] \in {"closing", "refused"} /\ p \in Processes
      /\ sock' = [sock EXCEPT ![s] = "none"] /\ home' = [home EXCEPT ![s] = Nowhere]
      /\ UNCHANGED <<price, ended, calls, shown, final, link, wire, proc, job>>
  BY DEF SocketCloses, RInv, Rooms, Types, linkVars
<1>2. /\ sock[s] = "refused" => UNCHANGED <<room, count>> /\ s \notin room[p]
      /\ sock[s] = "closing" =>
           /\ room' = [room EXCEPT ![p] = Opens(remaining)]
           /\ count' = [u \in Sockets |->
                          IF u \in Opens(remaining) THEN Cardinality(remaining) ELSE count[u]]
  BY <1>1 DEF SocketCloses, Counted, leaveRoom, roomSize, RInv, Rooms
<1>3. /\ Opens(remaining) \subseteq remaining /\ remaining \subseteq Sockets
      /\ \A u \in remaining : /\ home[u] = p /\ home'[u] = p /\ sock'[u] = sock[u]
                              /\ u \in Opens(remaining) <=> sock[u] = "open"
      /\ \A q \in Processes : q # p => s \notin room[q]
  BY <1>1 DEF Opens, RInv, Rooms, Types
<1>a. /\ \A u \in Sockets : u # s => home'[u] = home[u] /\ sock'[u] = sock[u]
      /\ home'[s] = Nowhere /\ sock'[s] = "none"
      /\ \A q \in Processes : q # p => room'[q] = room[q]
      /\ \A q \in Processes : room[q] \subseteq Sockets
      /\ sock[s] = "refused" => room'[p] = room[p] /\ room[p] = remaining
      /\ sock[s] = "closing" => room'[p] = Opens(remaining)
  <2>1. /\ \A u \in Sockets : u # s => home'[u] = home[u] /\ sock'[u] = sock[u]
        /\ home'[s] = Nowhere /\ sock'[s] = "none"
    BY <1>1 DEF RInv, Types
  <2>2. /\ \A q \in Processes : q # p => room'[q] = room[q]
        /\ \A q \in Processes : room[q] \subseteq Sockets
        /\ sock[s] = "closing" => room'[p] = Opens(remaining)
    BY <1>1, <1>2 DEF RInv, Types
  <2>3. sock[s] = "refused" => room'[p] = room[p] /\ room[p] = remaining
    BY <1>2
  <2> QED BY <2>1, <2>2, <2>3
<1>4. Types'
  <2>1. room' \in [Processes -> SUBSET Sockets]
    <3>1. CASE sock[s] = "refused"
      BY <1>2, <3>1 DEF RInv, Types
    <3>2. CASE sock[s] = "closing"
      BY <1>2, <1>3, <3>2 DEF RInv, Types
    <3> QED BY <1>1, <3>1, <3>2
  <2>2. sock' \in [Sockets -> {"none", "open", "closing", "refused"}]
        /\ home' \in [Sockets -> Processes \cup {Nowhere}]
    BY <1>1 DEF RInv, Types
  <2> QED BY <1>1, <2>1, <2>2 DEF RInv, Types
<1>5. Rooms'
  <2>1. \A u \in Sockets : sock'[u] = "none" <=> home'[u] \notin Processes
    BY <1>a, RealtimeAssumption DEF RInv, Rooms
  <2>2. ASSUME NEW u \in Sockets, sock'[u] = "open" PROVE u \in room'[home'[u]]
    <3>1. u # s /\ sock[u] = "open" /\ home'[u] = home[u] /\ home[u] \in Processes /\ u \in room[home[u]]
      BY <1>a, <2>2 DEF RInv, Rooms
    <3>2. CASE home[u] = p
      BY <1>1, <1>2, <1>3, <1>a, <3>1, <3>2
    <3>3. CASE home[u] # p
      BY <1>a, <3>1, <3>3
    <3> QED BY <3>2, <3>3
  <2>3. ASSUME NEW q \in Processes, NEW u \in room'[q]
        PROVE  home'[u] = q /\ sock'[u] \in {"open", "closing"}
    <3>1. CASE q = p
      <4>1. u \in remaining
        BY <1>1, <1>3, <1>a, <3>1
      <4> QED BY <1>3, <3>1, <4>1 DEF RInv, Rooms
    <3>2. CASE q # p
      <4>1. u \in room[q] /\ u # s /\ u \in Sockets
        BY <1>3, <1>a, <3>2
      <4> QED BY <1>a, <4>1 DEF RInv, Rooms
    <3> QED BY <3>1, <3>2
  <2> QED BY <2>1, <2>2, <2>3 DEF Rooms
<1>6. Counts'
  <2> SUFFICES ASSUME NEW q \in Processes,
                      \A u \in Sockets : home'[u] = q => sock'[u] # "closing",
                      NEW v \in room'[q]
               PROVE  count'[v] = Cardinality(room'[q])
    BY DEF Counts
  <2>1. CASE sock[s] = "refused"
    BY <1>1, <1>2, <2>1 DEF RInv, Types, Counts
  <2>2. CASE sock[s] = "closing" /\ q # p
    <3>1. /\ room'[q] = room[q] /\ v \in Sockets /\ v \notin remaining
          /\ \A u \in Sockets : home[u] = q => u # s
      BY <1>3, <1>a, <2>2 DEF RInv, Rooms
    <3>2. count'[v] = count[v]
      BY <1>2, <1>3, <2>2, <3>1
    <3> QED BY <1>a, <3>1, <3>2 DEF RInv, Counts
  <2>3. CASE sock[s] = "closing" /\ q = p
    <3>0. ASSUME NEW u \in remaining PROVE u \in Opens(remaining)
      <4>1. sock[u] # "closing" /\ u \in room[p]
        BY <1>3, <2>3
      <4>2. sock[u] \in {"open", "closing"}
        BY <1>1, <4>1 DEF RInv, Rooms
      <4> QED BY <1>3, <4>1, <4>2
    <3>1. Opens(remaining) = remaining
      BY <1>3, <3>0
    <3>2. room'[q] = remaining
      BY <1>a, <2>3, <3>1
    <3>3. count'[v] = Cardinality(remaining)
      BY <1>2, <1>3, <2>3, <3>1, <3>2
    <3> QED BY <3>2, <3>3
  <2> QED BY <1>1, <2>1, <2>2, <2>3
<1>7. Prices'
  BY <1>1 DEF RInv, Prices
<1>8. Idle'
  BY <1>1, <1>a, RealtimeAssumption DEF RInv, Idle
<1> QED BY <1>4, <1>5, <1>6, <1>7, <1>8 DEF RInv

\* A broadcast sweeps out sockets that are closing, so that their process has one.
LEMMA SweepKeeps ==
  ASSUME RInv, NEW p \in Processes, sock' = sock, home' = home, count' = count,
         room' = [room EXCEPT ![p] = Opens(room[p])]
  PROVE  Rooms' /\ Counts' /\ room' \in [Processes -> SUBSET Sockets]
<1>1. /\ room[p] \subseteq Sockets /\ Opens(room[p]) \subseteq room[p]
      /\ \A s \in room[p] : home[s] = p /\ (s \in Opens(room[p]) <=> sock[s] = "open")
      /\ room'[p] = Opens(room[p]) /\ \A q \in Processes : q # p => room'[q] = room[q]
  BY DEF Opens, RInv, Rooms, Types
<1>2. room' \in [Processes -> SUBSET Sockets]
  BY <1>1 DEF RInv, Types
<1>3. Rooms'
  BY <1>1 DEF RInv, Rooms
<1>4. Counts'
  <2> SUFFICES ASSUME NEW q \in Processes, \A u \in Sockets : home[u] = q => sock[u] # "closing",
                      NEW v \in room'[q]
               PROVE  count[v] = Cardinality(room'[q])
    BY DEF Counts
  <2>1. CASE q = p
    <3>1. \A u \in room[p] : u \in Opens(room[p])
      BY <1>1, <2>1 DEF RInv, Rooms
    <3>2. room'[q] = room[q]
      BY <1>1, <2>1, <3>1
    <3> QED BY <3>2 DEF RInv, Counts
  <2>2. CASE q # p
    BY <1>1, <2>2 DEF RInv, Counts
  <2> QED BY <2>1, <2>2
<1> QED BY <1>2, <1>3, <1>4

LEMMA BroadcastRInv ==
  ASSUME RInv, NEW p \in Processes, NEW b \in calls[p], BroadcastBid(p, b)
  PROVE  RInv'
<1>1. /\ b \in Nat /\ b <= price
      /\ calls' = [calls EXCEPT ![p] = calls[p] \ {b}]
      /\ room' = [room EXCEPT ![p] = Opens(room[p])]
      /\ shown' = [s \in Sockets |-> IF s \in Opens(room[p]) /\ shown[s] < b THEN b ELSE shown[s]]
      /\ UNCHANGED <<price, ended, sock, home, count, final, link, wire, proc, job>>
  BY DEF BroadcastBid, RInv, Types, Prices, linkVars
<1>2. Rooms' /\ Counts' /\ room' \in [Processes -> SUBSET Sockets]
  BY <1>1, SweepKeeps
<1>3. Types'
  BY <1>1, <1>2 DEF RInv, Types
<1>4. Prices'
  BY <1>1 DEF RInv, Types, Prices
<1>5. Idle'
  BY <1>1 DEF RInv, Types, Idle
<1> QED BY <1>2, <1>3, <1>4, <1>5 DEF RInv

LEMMA DeliverRInv ==
  ASSUME RInv, NEW p \in Processes, DeliverEnd(p)
  PROVE  RInv'
<1>1. /\ wire[p] /\ wire' = [wire EXCEPT ![p] = FALSE]
      /\ room' = [room EXCEPT ![p] = Opens(room[p])]
      /\ final' = [s \in Sockets |-> IF s \in Opens(room[p]) THEN price + 1 ELSE final[s]]
      /\ UNCHANGED <<price, ended, calls, sock, home, count, shown, link, proc, job>>
  BY DEF DeliverEnd
<1>2. Rooms' /\ Counts' /\ room' \in [Processes -> SUBSET Sockets]
  BY <1>1, SweepKeeps
<1>3. Types'
  BY <1>1, <1>2 DEF RInv, Types
<1>4. Prices'
  BY <1>1 DEF RInv, Types, Prices
<1>5. Idle'
  BY <1>1 DEF RInv, Idle
<1> QED BY <1>2, <1>3, <1>4, <1>5 DEF RInv

\* A bid commits before the auction has ended, when nobody was told a final price.
LEMMA CallRInv ==
  ASSUME RInv, NEW p \in Processes, TakeCall(p) \/ CommitBid(p)
  PROVE  RInv'
<1>1. /\ proc[p] # "closing"
      /\ UNCHANGED <<ended, sock, home, room, count, shown, final, link, wire, proc, job>>
  BY DEF TakeCall, CommitBid, RInv, Idle, socketVars, clientVars, linkVars
<1>2. \/ calls' = [calls EXCEPT ![p] = calls[p] \cup {0}] /\ price' = price
      \/ calls' = [calls EXCEPT ![p] = calls[p] \ {0}] /\ price' = price
      \/ /\ ~ended /\ price' = price + 1
         /\ calls' = [calls EXCEPT ![p] = (calls[p] \ {0}) \cup {price + 1}]
  BY DEF TakeCall, CommitBid
<1>3. Types'
  BY <1>1, <1>2 DEF RInv, Types
<1>4. Rooms' /\ Counts'
  BY <1>1 DEF RInv, Rooms, Counts
<1>5. Prices'
  <2>1. \A q \in Processes : \A b \in calls'[q] : b <= price'
    BY <1>2 DEF RInv, Types, Prices
  <2>2. \A s \in Sockets : shown[s] <= price'
    BY <1>2 DEF RInv, Types, Prices
  <2>3. \A s \in Sockets : final[s] # 0 => ended /\ final[s] = price' + 1
    BY <1>2 DEF RInv, Prices
  <2> QED BY <1>1, <2>1, <2>2, <2>3 DEF RInv, Prices
<1>6. Idle'
  BY <1>1, <1>2 DEF RInv, Types, Idle
<1> QED BY <1>3, <1>4, <1>5, <1>6 DEF RInv

\* The process takes its sockets, calls and events with it.
LEMMA LeaveRInv ==
  ASSUME RInv, NEW p \in Processes, NEW code \in {"exit0", "exit1"}, Leaves(p, code)
  PROVE  RInv'
<1> DEFINE gone == {s \in Sockets : home[s] = p}
<1>1. /\ proc' = [proc EXCEPT ![p] = code]
      /\ sock' = [s \in Sockets |-> IF home[s] = p THEN "none" ELSE sock[s]]
      /\ home' = [s \in Sockets |-> IF home[s] = p THEN Nowhere ELSE home[s]]
      /\ room' = [room EXCEPT ![p] = {}] /\ calls' = [calls EXCEPT ![p] = {}]
      /\ link' = [link EXCEPT ![p] = FALSE] /\ wire' = [wire EXCEPT ![p] = FALSE]
      /\ UNCHANGED <<price, ended, job>>
  BY DEF Leaves
<1>2. /\ count' = [s \in Sockets |-> IF s \in gone THEN 0 ELSE count[s]]
      /\ shown' = [s \in Sockets |-> IF s \in gone THEN 0 ELSE shown[s]]
      /\ final' = [s \in Sockets |-> IF s \in gone THEN 0 ELSE final[s]]
  BY DEF Leaves, Forget
<1>3. Types'
  BY <1>1, <1>2 DEF RInv, Types
<1>4. Rooms'
  BY <1>1, RealtimeAssumption DEF RInv, Types, Rooms
<1>5. Counts'
  <2> SUFFICES ASSUME NEW q \in Processes, \A u \in Sockets : home'[u] = q => sock'[u] # "closing",
                      NEW v \in room'[q]
               PROVE  count'[v] = Cardinality(room'[q])
    BY DEF Counts
  <2>1. q # p /\ room'[q] = room[q] /\ v \in Sockets /\ home[v] = q
    BY <1>1 DEF RInv, Types, Rooms
  <2>2. \A u \in Sockets : home[u] = q => sock[u] # "closing"
    BY <1>1, <2>1
  <2> QED BY <1>2, <2>1, <2>2 DEF RInv, Counts
<1>6. Prices'
  BY <1>1, <1>2 DEF RInv, Types, Prices
<1>7. Idle'
  BY <1>1, RealtimeAssumption DEF RInv, Types, Idle
<1> QED BY <1>3, <1>4, <1>5, <1>6, <1>7 DEF RInv

\* What happens to links, processes and the job, and touches no socket, room or bid.
LEMMA PlainRInv ==
  ASSUME RInv,
         UNCHANGED <<price, calls, socketVars, clientVars>>,
         link' \in [Processes -> BOOLEAN], wire' \in [Processes -> BOOLEAN],
         proc' \in [Processes -> {"up", "draining", "closing", "exit0", "exit1"}],
         \A p \in Processes : /\ wire'[p] => ended'
                              /\ proc'[p] = "closing" /\ proc[p] # "closing" => ~Busy(p),
         ended' \in BOOLEAN, ended => ended', job' # "waiting" => ended'
  PROVE  RInv'
<1>1. UNCHANGED <<price, calls, sock, home, room, count, shown, final>>
  BY DEF socketVars, clientVars
<1>2. Types'
  BY <1>1 DEF RInv, Types
<1>3. Rooms' /\ Counts'
  BY <1>1 DEF RInv, Rooms, Counts
<1>4. Prices'
  BY <1>1 DEF RInv, Prices
<1>5. Idle'
  BY <1>1 DEF RInv, Idle, Busy
<1> QED BY <1>2, <1>3, <1>4, <1>5 DEF RInv

LEMMA NextRInv == RInv /\ [Next]_vars => RInv'
<1> SUFFICES ASSUME RInv, [Next]_vars PROVE RInv'
  OBVIOUS
<1>0. /\ ended \in BOOLEAN /\ \A p \in Processes : wire[p] => ended
      /\ job # "waiting" => ended
      /\ link \in [Processes -> BOOLEAN] /\ wire \in [Processes -> BOOLEAN]
      /\ proc \in [Processes -> {"up", "draining", "closing", "exit0", "exit1"}]
  BY DEF RInv, Types, Prices
<1>1. ASSUME EndAuction \/ PublishEnd \/ WorkerSignal \/ WorkerLeaves PROVE RInv'
  BY <1>0, <1>1, PlainRInv DEF EndAuction, PublishEnd, WorkerSignal, WorkerLeaves, linkVars
<1>2. ASSUME NEW p \in Processes, Subscribe(p) \/ DropLink(p) PROVE RInv'
  BY <1>0, <1>2, PlainRInv DEF Subscribe, DropLink
<1>3. ASSUME NEW p \in Processes, Signal(p) \/ ServerCloses(p) PROVE RInv'
  BY <1>0, <1>3, PlainRInv DEF Signal, ServerCloses, linkVars
<1>4. ASSUME NEW p \in Processes, SubsystemsClose(p) \/ TimerFires(p) PROVE RInv'
  BY <1>4, LeaveRInv DEF SubsystemsClose, TimerFires
<1>5. CASE UNCHANGED vars
  BY <1>0, <1>5, PlainRInv DEF vars, linkVars
<1> QED
  BY <1>1, <1>2, <1>3, <1>4, <1>5, JoinRInv, RefuseRInv, BreakRInv, CloseRInv, BroadcastRInv,
     DeliverRInv, CallRInv DEF Next

-----------------------------------------------------------------------------
(* The theorems.                                                            *)

\* The inductive invariant, whatever sockets, connections and processes do.
THEOREM RealtimeInvariant == Spec => []RInv
BY InitRInv, NextRInv, PTL DEF Spec

\* websocket.ts: a watcher stays in its room until its connection breaks, and was told
\* the true number of watchers when no 'close' event is due.
THEOREM CountsAreTrueAlways == Spec => []CountsAreTrue
<1>1. RInv => CountsAreTrue
  BY DEF RInv, Rooms, Counts, CountsAreTrue
<1> QED BY <1>1, RealtimeInvariant, PTL

\* worker.ts and pubsub.ts: nobody who was told the final price is shown a higher bid.
THEOREM FinalPriceIsFinalAlways == Spec => []FinalPriceIsFinal
<1>1. RInv => FinalPriceIsFinal
  BY DEF RInv, Types, Prices, FinalPriceIsFinal
<1> QED BY <1>1, RealtimeInvariant, PTL

\* server.ts: only a process that has nothing left to do exits with 0.
THEOREM CleanExit == Spec => CleanExitCutsNobody
<1>1. ASSUME RInv, [Next]_vars, NEW p \in Processes, proc[p] # "exit0", proc'[p] = "exit0"
      PROVE  calls[p] = {} /\ \A s \in Sockets : home[s] # p
  <2>1. ASSUME NEW q \in Processes, NEW code, Leaves(q, code), code # "exit0" \/ q # p
        PROVE  FALSE
    BY <1>1, <2>1 DEF Leaves, RInv, Types
  <2>2. CASE SubsystemsClose(p)
    <3> proc[p] = "closing"
      BY <2>2 DEF SubsystemsClose
    <3> Idle
      BY <1>1 DEF RInv
    <3> QED BY DEF Idle
  <2>3. ASSUME NEW q \in Processes, Signal(q) \/ ServerCloses(q) PROVE FALSE
    BY <1>1, <2>3 DEF Signal, ServerCloses, RInv, Types
  <2>4. ASSUME NEW q \in Processes, TimerFires(q) PROVE FALSE
    BY <2>1, <2>4 DEF TimerFires
  <2>5. ASSUME NEW q \in Processes, q # p, SubsystemsClose(q) PROVE FALSE
    BY <2>1, <2>5 DEF SubsystemsClose
  <2>6. CASE proc' = proc
    BY <1>1, <2>6
  <2> QED
    BY <1>1, <2>2, <2>3, <2>4, <2>5, <2>6
    DEF Next, vars, Join, RefuseSocket, BroadcastBid, TakeCall, CommitBid, DeliverEnd, Subscribe,
        DropLink, SocketBreaks, SocketCloses, EndAuction, PublishEnd, WorkerSignal, WorkerLeaves
<1>2. RInv /\ [Next]_vars =>
        [\A p \in Processes : proc[p] # "exit0" /\ proc'[p] = "exit0" =>
           calls[p] = {} /\ \A s \in Sockets : home[s] # p]_vars
  BY <1>1
<1> QED BY <1>2, RealtimeInvariant, PTL DEF Spec, CleanExitCutsNobody
-----------------------------------------------------------------------------
(* The pool.                                                                *)

\* Where a request may be: the one that has the row is in a transaction on a connection
\* that works; a request has a connection or waits for one, never both, and only at
\* the steps that need one; a check that has neither has its answer.
Place(c) ==
  /\ rowLock = c => step[c] = "held" /\ c \in lent \ broken
  /\ step[c] = "held" => c \in lent
  /\ c \in lent => step[c] \in {"tx", "held", "email", "audit", "ready"} /\ c \notin ToSet(waiting)
  /\ c \in ToSet(waiting) => step[c] \in {"tx", "email", "audit", "ready"}
  /\ c \in lent \cup ToSet(waiting) /\ step[c] = "ready" => pg[c] = "sent"

\* The pool's queue holds each request once.
Queue(q) == q \in Seq(Callers) /\ IsInjective(q)

PoolInv ==
  /\ PoolTypeOK
  /\ Queue(waiting) /\ IsFiniteSet(lent)
  /\ \A c \in Callers : Place(c)
  /\ client = "away" => tries <= RetryLimit

\* Queueing, serving and leaving.
LEMMA QueueAppend ==
  ASSUME NEW q, Queue(q), NEW c \in Callers, c \notin ToSet(q)
  PROVE  Queue(Append(q, c)) /\ ToSet(Append(q, c)) = ToSet(q) \cup {c}
<1> DEFINE r == Append(q, c)
<1>1. /\ q \in Seq(Callers) /\ Len(q) \in Nat /\ DOMAIN q = 1 .. Len(q)
      /\ r \in Seq(Callers) /\ Len(r) = Len(q) + 1
      /\ \A i \in 1 .. Len(q) : r[i] = q[i]
      /\ r[Len(q) + 1] = c
  BY LenProperties, AppendProperties DEF Queue
<1>2. DOMAIN r = 1 .. Len(q) + 1 BY <1>1, LenProperties
<1> HIDE DEF r
<1>3. \A i \in 1 .. Len(q) : q[i] # c BY <1>1 DEF ToSet
<1>4. IsInjective(r) BY <1>1, <1>2, <1>3 DEF Queue, IsInjective
<1>5. ToSet(r) = ToSet(q) \cup {c}
  <2>1. ASSUME NEW x \in ToSet(r) PROVE x \in ToSet(q) \cup {c}
    BY <1>1, <1>2, <2>1 DEF ToSet
  <2>2. ASSUME NEW x \in ToSet(q) PROVE x \in ToSet(r)
    BY <1>1, <1>2, <2>2 DEF ToSet
  <2>3. c \in ToSet(r) BY <1>1, <1>2 DEF ToSet
  <2> QED BY <2>1, <2>2, <2>3
<1> QED BY <1>1, <1>4, <1>5 DEF Queue, r

LEMMA QueueRemove ==
  ASSUME NEW q, Queue(q), NEW i \in DOMAIN q
  PROVE  Queue(RemoveAt(q, i)) /\ ToSet(RemoveAt(q, i)) = ToSet(q) \ {q[i]}
<1> DEFINE r == RemoveAt(q, i)
<1>1. /\ q \in Seq(Callers) /\ Len(q) \in Nat /\ DOMAIN q = 1 .. Len(q) /\ i \in 1 .. Len(q)
  BY LenProperties DEF Queue
<1> DEFINE front == SubSeq(q, 1, i - 1)
           back == SubSeq(q, i + 1, Len(q))
<1>2. /\ front \in Seq(Callers) /\ Len(front) = i - 1
      /\ \A j \in 1 .. i - 1 : front[j] = q[j]
  BY <1>1
<1>3. /\ back \in Seq(Callers) /\ Len(back) = Len(q) - i
      /\ \A j \in 1 .. Len(q) - i : back[j] = q[i + j]
  BY <1>1
<1>a. r = front \o back BY DEF RemoveAt
<1> HIDE DEF front, back, r
<1>b. /\ r \in Seq(Callers) /\ Len(r) = Len(front) + Len(back)
      /\ \A j \in 1 .. Len(front) + Len(back) :
           r[j] = IF j <= Len(front) THEN front[j] ELSE back[j - Len(front)]
  BY <1>2, <1>3, <1>a, ConcatProperties
<1>c. ASSUME NEW j \in i .. Len(q) - 1 PROVE r[j] = q[j + 1]
  <2>1. j - (i - 1) \in 1 .. Len(q) - i /\ i + (j - (i - 1)) = j + 1 BY <1>1
  <2>2. r[j] = back[j - (i - 1)] BY <1>1, <1>2, <1>3, <1>b
  <2> QED BY <1>3, <2>1, <2>2
<1>4. /\ r \in Seq(Callers) /\ Len(r) = Len(q) - 1
      /\ \A j \in 1 .. i - 1 : r[j] = q[j]
      /\ \A j \in i .. Len(q) - 1 : r[j] = q[j + 1]
  BY <1>1, <1>2, <1>3, <1>b, <1>c
<1>5. DOMAIN r = 1 .. Len(q) - 1 BY <1>4, LenProperties
<1>6. \A j, k \in 1 .. Len(q) : q[j] = q[k] => j = k BY <1>1 DEF Queue, IsInjective
<1>7. IsInjective(r)
  <2> SUFFICES ASSUME NEW j \in 1 .. Len(q) - 1, NEW k \in 1 .. Len(q) - 1, r[j] = r[k]
               PROVE  j = k
    BY <1>5 DEF IsInjective
  <2>1. j \in 1 .. i - 1 \/ j \in i .. Len(q) - 1 BY <1>1
  <2>2. k \in 1 .. i - 1 \/ k \in i .. Len(q) - 1 BY <1>1
  <2> QED BY <1>1, <1>4, <1>6, <2>1, <2>2
<1>8. ToSet(r) = ToSet(q) \ {q[i]}
  <2>1. ASSUME NEW j \in 1 .. Len(q) - 1 PROVE \E k \in 1 .. Len(q) : k # i /\ r[j] = q[k]
    <3>1. CASE j \in 1 .. i - 1 BY <1>1, <1>4, <3>1
    <3>2. CASE j \in i .. Len(q) - 1 BY <1>1, <1>4, <3>2
    <3> QED BY <1>1, <3>1, <3>2
  <2>2. ASSUME NEW k \in 1 .. Len(q), k # i PROVE \E j \in 1 .. Len(q) - 1 : r[j] = q[k]
    <3>1. CASE k < i BY <1>1, <1>4, <3>1
    <3>2. CASE k > i
      <4>1. k - 1 \in i .. Len(q) - 1 /\ k - 1 + 1 = k BY <1>1, <3>2
      <4>2. r[k - 1] = q[k] BY <1>4, <4>1
      <4> QED BY <1>1, <4>1, <4>2
    <3> QED BY <1>1, <2>2, <3>1, <3>2
  <2>3. ASSUME NEW x \in ToSet(r) PROVE x \in ToSet(q) \ {q[i]}
    BY <1>1, <1>5, <1>6, <2>1, <2>3 DEF ToSet
  <2>4. ASSUME NEW x \in ToSet(q) \ {q[i]} PROVE x \in ToSet(r)
    BY <1>1, <1>5, <2>2, <2>4 DEF ToSet
  <2> QED BY <2>3, <2>4
<1> QED BY <1>4, <1>7, <1>8 DEF Queue, r

LEMMA QueueTail ==
  ASSUME NEW q, Queue(q), q # <<>>
  PROVE  /\ Head(q) \in ToSet(q)
         /\ Queue(Tail(q)) /\ ToSet(Tail(q)) = ToSet(q) \ {Head(q)}
<1> DEFINE r == Tail(q)
<1>1. /\ q \in Seq(Callers) /\ Len(q) \in Nat \ {0} /\ DOMAIN q = 1 .. Len(q) /\ Head(q) = q[1]
  BY LenProperties, EmptySeq DEF Queue
<1>2. /\ r \in Seq(Callers) /\ Len(r) = Len(q) - 1
      /\ \A j \in 1 .. Len(q) - 1 : r[j] = q[j + 1]
  BY <1>1, HeadTailProperties
<1>3. DOMAIN r = 1 .. Len(q) - 1 BY <1>2, LenProperties
<1> HIDE DEF r
<1>4. \A j, k \in 1 .. Len(q) : q[j] = q[k] => j = k BY <1>1 DEF Queue, IsInjective
<1>5. IsInjective(r)
  <2> SUFFICES ASSUME NEW j \in 1 .. Len(q) - 1, NEW k \in 1 .. Len(q) - 1, r[j] = r[k]
               PROVE  j = k
    BY <1>3 DEF IsInjective
  <2>1. j + 1 \in 1 .. Len(q) /\ k + 1 \in 1 .. Len(q) /\ q[j + 1] = q[k + 1] BY <1>1, <1>2
  <2>2. j + 1 = k + 1 BY <1>4, <2>1
  <2> QED BY <2>2
<1>6. ToSet(r) = ToSet(q) \ {Head(q)}
  <2>1. ASSUME NEW x \in ToSet(r) PROVE x \in ToSet(q) \ {Head(q)}
    <3>1. PICK j \in 1 .. Len(q) - 1 : x = r[j] BY <1>3, <2>1 DEF ToSet
    <3>2. j + 1 \in 1 .. Len(q) /\ j + 1 # 1 /\ 1 \in 1 .. Len(q) /\ x = q[j + 1]
      BY <1>1, <1>2, <3>1
    <3> QED BY <1>1, <1>4, <3>2 DEF ToSet
  <2>2. ASSUME NEW x \in ToSet(q) \ {Head(q)} PROVE x \in ToSet(r)
    <3>1. PICK k \in 1 .. Len(q) : x = q[k] BY <1>1, <2>2 DEF ToSet
    <3>2. k - 1 \in 1 .. Len(q) - 1 /\ k - 1 + 1 = k BY <1>1, <2>2, <3>1
    <3>3. r[k - 1] = q[k] BY <1>2, <3>2
    <3> QED BY <1>3, <3>1, <3>2, <3>3 DEF ToSet
  <2> QED BY <2>1, <2>2
<1>7. Head(q) \in ToSet(q) BY <1>1 DEF ToSet
<1> QED BY <1>2, <1>5, <1>6, <1>7 DEF Queue, r

LEMMA InitPoolInv == PoolInit => PoolInv
<1> SUFFICES ASSUME PoolInit PROVE PoolInv
  OBVIOUS
<1>1. ToSet(<<>>) = {} /\ IsInjective(<<>>) BY DEF ToSet, IsInjective
<1>2. IsFiniteSet({}) /\ Cardinality({}) = 0 BY FS_EmptySet
<1>3. PoolTypeOK
  BY <1>1, <1>2, ConnectionsAssumption DEF PoolInit, PoolTypeOK, Part, InTransaction
<1>4. \A c \in Callers : Place(c)
  BY <1>1, ConnectionsAssumption DEF PoolInit, Place
<1> QED BY <1>1, <1>2, <1>3, <1>4 DEF PoolInit, PoolInv, Queue

\* A request that fails leaves the queue, or queues again for its audit row.
LEMMA FailedQueue ==
  ASSUME PoolInv, NEW c \in Callers, NEW queue, Queue(queue),
         ToSet(queue) = ToSet(waiting) \ {c}, Failed(c, queue),
         c \in lent \cup ToSet(waiting)
  PROVE  /\ Queue(waiting')
         /\ ToSet(waiting') = ToSet(queue) \/ ToSet(waiting') = ToSet(queue) \cup {c}
         /\ step' \in [Callers -> InTransaction \cup {"idle", "email", "tell", "audit", "ready", "metrics"}]
         /\ pg' \in [Callers -> Part]
         /\ \A d \in Callers \ {c} : step'[d] = step[d] /\ pg'[d] = pg[d]
         /\ step'[c] \in {"audit", "idle", "ready"}
         /\ c \in ToSet(waiting') => step'[c] = "audit"
<1>1. step[c] \in {"tx", "held", "email", "audit", "ready"} BY DEF PoolInv, Place
<1> USE DEF PoolInv, PoolTypeOK, Failed, Goes, InTransaction, Part
<1>2. CASE step[c] \in InTransaction
  <2>1. Queue(Append(queue, c)) /\ ToSet(Append(queue, c)) = ToSet(queue) \cup {c}
    BY QueueAppend
  <2>2. step' = [step EXCEPT ![c] = "audit"] /\ waiting' = Append(queue, c) /\ pg' = pg
    BY <1>2
  <2> QED BY <2>1, <2>2
<1>3. CASE step[c] \in {"email", "audit"}
  <2>1. step' = [step EXCEPT ![c] = "idle"] /\ waiting' = queue /\ pg' = pg BY <1>3
  <2> QED BY <2>1
<1>4. CASE step[c] = "ready"
  <2>1. step' = step /\ waiting' = queue /\ pg' = [pg EXCEPT ![c] = "error"] BY <1>4
  <2> QED BY <1>4, <2>1
<1> QED BY <1>1, <1>2, <1>3, <1>4

\* A set of connections only shrinks, or grows while there is room.
LEMMA LentLess ==
  ASSUME PoolInv, NEW c PROVE IsFiniteSet(lent \ {c}) /\ Cardinality(lent \ {c}) <= PoolMax
<1>1. IsFiniteSet(lent \ {c}) /\ Cardinality(lent \ {c}) <= Cardinality(lent)
  BY FS_Subset DEF PoolInv
<1>2. Cardinality(lent \ {c}) \in Nat /\ Cardinality(lent) \in Nat /\ PoolMax \in Nat
  BY <1>1, FS_CardinalityType, ConnectionsAssumption DEF PoolInv
<1> QED BY <1>1, <1>2 DEF PoolInv, PoolTypeOK

LEMMA ServePoolInv == ASSUME PoolInv, Serve PROVE PoolInv'
<1> DEFINE c == Head(waiting)
<1>1. /\ c \in ToSet(waiting) /\ c \in Callers
      /\ Queue(Tail(waiting)) /\ ToSet(Tail(waiting)) = ToSet(waiting) \ {c}
      /\ UNCHANGED <<rowLock, database, redis, outages, client, tries>>
  BY QueueTail DEF Serve, PoolInv, PoolTypeOK, faultVars, redisVars
<1>2. c \notin lent /\ step[c] \in {"tx", "email", "audit", "ready"} /\ rowLock # c
  BY <1>1 DEF PoolInv, Place
<1>3. CASE database /\ lent' = lent \cup {c} /\ waiting' = Tail(waiting)
           /\ UNCHANGED <<step, broken, pg, ping, counts>>
  <2>1. IsFiniteSet(lent') /\ Cardinality(lent') <= PoolMax
    <3>1. IsFiniteSet(lent \cup {c}) /\ Cardinality(lent \cup {c}) = Cardinality(lent) + 1
      BY <1>2, FS_AddElement DEF PoolInv
    <3>2. Cardinality(lent) \in Nat /\ Cardinality(lent) < PoolMax /\ PoolMax \in Nat
      BY FS_CardinalityType, ConnectionsAssumption DEF PoolInv, Serve, HasRoom
    <3> QED BY <1>3, <3>1, <3>2
  <2>2. PoolTypeOK' BY <1>1, <1>3, <2>1 DEF PoolInv, PoolTypeOK, Queue
  <2>3. \A d \in Callers : Place(d)' BY <1>1, <1>2, <1>3 DEF PoolInv, Place
  <2> QED BY <1>1, <1>3, <2>1, <2>2, <2>3 DEF PoolInv, Queue
<1>4. CASE ~database /\ Failed(c, Tail(waiting)) /\ UNCHANGED <<lent, broken, ping, counts>>
  <2> HIDE DEF c
  <2>1. /\ Queue(waiting')
        /\ ToSet(waiting') = ToSet(Tail(waiting)) \/ ToSet(waiting') = ToSet(Tail(waiting)) \cup {c}
        /\ step' \in [Callers -> InTransaction \cup {"idle", "email", "tell", "audit", "ready", "metrics"}]
        /\ pg' \in [Callers -> Part]
        /\ \A d \in Callers \ {c} : step'[d] = step[d] /\ pg'[d] = pg[d]
        /\ step'[c] \in {"audit", "idle", "ready"}
        /\ c \in ToSet(waiting') => step'[c] = "audit"
    BY <1>1, <1>4, FailedQueue
  <2>2. PoolTypeOK' BY <1>1, <1>4, <2>1 DEF PoolInv, PoolTypeOK, Queue
  <2>3. \A d \in Callers : Place(d)' BY <1>1, <1>2, <1>4, <2>1 DEF PoolInv, Place
  <2> QED BY <1>1, <1>4, <2>1, <2>2, <2>3 DEF PoolInv
<1> QED BY <1>3, <1>4 DEF Serve, partVars

LEMMA TimeoutPoolInv == ASSUME PoolInv, NEW c \in Callers, TimesOut(c) PROVE PoolInv'
<1>1. /\ UNCHANGED <<lent, broken, rowLock, database, redis, outages, client, tries, ping, counts>>
  BY DEF TimesOut, faultVars, redisVars
<1>2. PICK i \in DOMAIN waiting : waiting[i] = c /\ Failed(c, RemoveAt(waiting, i))
  BY DEF TimesOut
<1>3. Queue(RemoveAt(waiting, i)) /\ ToSet(RemoveAt(waiting, i)) = ToSet(waiting) \ {c}
  BY <1>2, QueueRemove DEF PoolInv
<1>4. c \in ToSet(waiting) BY <1>2 DEF ToSet
<1>5. c \notin lent /\ rowLock # c BY <1>4 DEF PoolInv, Place
<1>6. /\ Queue(waiting')
      /\ \A d \in Callers \ {c} : d \in ToSet(waiting') <=> d \in ToSet(waiting)
      /\ step' \in [Callers -> InTransaction \cup {"idle", "email", "tell", "audit", "ready", "metrics"}]
      /\ pg' \in [Callers -> Part]
      /\ \A d \in Callers \ {c} : step'[d] = step[d] /\ pg'[d] = pg[d]
      /\ step'[c] \in {"audit", "idle", "ready"}
      /\ c \in ToSet(waiting') => step'[c] = "audit"
      /\ ToSet(waiting') \subseteq Callers
  BY <1>2, <1>3, <1>4, FailedQueue DEF PoolInv, PoolTypeOK
<1>7. PoolTypeOK' BY <1>1, <1>6 DEF PoolInv, PoolTypeOK, Queue
<1>8. \A d \in Callers : Place(d)' BY <1>1, <1>5, <1>6 DEF PoolInv, Place
<1> QED BY <1>1, <1>6, <1>7, <1>8 DEF PoolInv

LEMMA StatementFailsPoolInv == ASSUME PoolInv, NEW c \in Callers, StatementFails(c) PROVE PoolInv'
<1>1. /\ UNCHANGED <<rowLock, database, redis, outages, client, tries, ping, counts>>
      /\ c \in broken /\ lent' = lent \ {c} /\ broken' = broken \ {c} /\ Failed(c, waiting)
  BY DEF StatementFails, Releases, faultVars, redisVars
<1>2. c \in lent /\ c \notin ToSet(waiting) /\ rowLock # c
  BY <1>1 DEF PoolInv, PoolTypeOK, Place
<1>3. /\ Queue(waiting')
      /\ \A d \in Callers \ {c} : d \in ToSet(waiting') <=> d \in ToSet(waiting)
      /\ step' \in [Callers -> InTransaction \cup {"idle", "email", "tell", "audit", "ready", "metrics"}]
      /\ pg' \in [Callers -> Part]
      /\ \A d \in Callers \ {c} : step'[d] = step[d] /\ pg'[d] = pg[d]
      /\ step'[c] \in {"audit", "idle", "ready"}
      /\ c \in ToSet(waiting') => step'[c] = "audit"
      /\ ToSet(waiting') \subseteq Callers
  <2>1. ToSet(waiting) = ToSet(waiting) \ {c} BY <1>2
  <2> QED BY <1>1, <1>2, <2>1, FailedQueue DEF PoolInv, PoolTypeOK
<1>4. IsFiniteSet(lent') /\ Cardinality(lent') <= PoolMax BY <1>1, LentLess
<1>5. PoolTypeOK' BY <1>1, <1>3, <1>4 DEF PoolInv, PoolTypeOK, Queue
<1>6. \A d \in Callers : Place(d)' BY <1>1, <1>2, <1>3 DEF PoolInv, Place
<1> QED BY <1>1, <1>3, <1>4, <1>5, <1>6 DEF PoolInv

LEMMA StatementPoolInv ==
  ASSUME PoolInv, NEW c \in Callers, Statement(c) \/ EndTransaction(c)
  PROVE  PoolInv'
<1> USE DEF faultVars, redisVars, partVars
<1>1. /\ UNCHANGED <<database, redis, outages, client, tries, ping, counts>>
      /\ c \in lent \ broken /\ lent' = lent \ {c} /\ broken' = broken \ {c}
      /\ c \notin ToSet(waiting)
      /\ (rowLock' = rowLock /\ rowLock # c) \/ rowLock' = Nobody
  BY DEF Statement, EndTransaction, Releases, PoolInv, Place
<1>2. /\ Queue(waiting')
      /\ \A d \in Callers \ {c} : d \in ToSet(waiting') <=> d \in ToSet(waiting)
      /\ step' \in [Callers -> InTransaction \cup {"idle", "email", "tell", "audit", "ready", "metrics"}]
      /\ pg' \in [Callers -> Part]
      /\ \A d \in Callers \ {c} : step'[d] = step[d] /\ pg'[d] = pg[d]
      /\ step'[c] # "held"
      /\ c \in ToSet(waiting') => step'[c] \in {"email", "audit"}
      /\ ToSet(waiting') \subseteq Callers
  <2> USE DEF PoolInv, PoolTypeOK, Goes, InTransaction, Part
  <2>1. CASE Statement(c) BY <1>1, <2>1 DEF Statement, Answered
  <2>2. CASE EndTransaction(c)
    <3>1. Queue(Append(waiting, c)) /\ ToSet(Append(waiting, c)) = ToSet(waiting) \cup {c}
      BY <1>1, QueueAppend
    <3>2. pg' = pg BY <2>2 DEF EndTransaction
    <3>3. CASE \E s \in {"email", "audit"} : Goes(c, s) /\ Asks(c)
      BY <1>1, <3>1, <3>2, <3>3 DEF Asks
    <3>4. CASE Goes(c, "idle") /\ UNCHANGED waiting
      BY <1>1, <3>2, <3>4
    <3> QED BY <2>2, <3>3, <3>4 DEF EndTransaction
  <2> QED BY <2>1, <2>2
<1>3. IsFiniteSet(lent') /\ Cardinality(lent') <= PoolMax BY <1>1, LentLess
<1>4. PoolTypeOK' BY <1>1, <1>2, <1>3 DEF PoolInv, PoolTypeOK, Queue
<1>5. \A d \in Callers : Place(d)'
  BY <1>1, <1>2, ConnectionsAssumption DEF PoolInv, Place
<1> QED BY <1>1, <1>2, <1>3, <1>4, <1>5 DEF PoolInv

LEMMA RequestPoolInv ==
  ASSUME PoolInv, NEW c \in Callers,
         PlaceBid(c) \/ LockRow(c) \/ AddOutbidJob(c) \/ Readyz(c) \/ Metrics(c)
  PROVE  PoolInv'
<1> USE DEF faultVars, redisVars, partVars, poolVars
<1>1. /\ UNCHANGED <<lent, broken, database, redis, outages, client, tries>>
      /\ IsFiniteSet(lent')
  BY DEF PlaceBid, LockRow, AddOutbidJob, Readyz, Metrics, PoolInv
<1>2. CASE PlaceBid(c)
  <2>1. step[c] = "idle" /\ step' = [step EXCEPT ![c] = "tx"] /\ waiting' = Append(waiting, c)
        /\ UNCHANGED <<rowLock, pg, ping, counts>>
    BY <1>2 DEF PlaceBid, Goes, Asks
  <2>2. c \notin lent /\ c \notin ToSet(waiting) /\ rowLock # c BY <2>1 DEF PoolInv, Place
  <2>3. Queue(waiting') /\ ToSet(waiting') = ToSet(waiting) \cup {c}
    BY <2>1, <2>2, QueueAppend DEF PoolInv
  <2>4. PoolTypeOK' BY <1>1, <2>1, <2>3 DEF PoolInv, PoolTypeOK, Queue, InTransaction
  <2>5. \A d \in Callers : Place(d)'
    BY <1>1, <2>1, <2>2, <2>3 DEF PoolInv, PoolTypeOK, Place
  <2> QED BY <1>1, <2>3, <2>4, <2>5 DEF PoolInv
<1>3. CASE LockRow(c)
  <2>1. c \in lent \ broken /\ step' = [step EXCEPT ![c] = "held"] /\ rowLock = Nobody
        /\ rowLock' = c /\ UNCHANGED <<waiting, pg, ping, counts>>
    BY <1>3 DEF LockRow, Goes
  <2>2. PoolTypeOK' BY <1>1, <2>1 DEF PoolInv, PoolTypeOK, InTransaction
  <2>3. \A d \in Callers : Place(d)' BY <1>1, <2>1 DEF PoolInv, PoolTypeOK, Place
  <2> QED BY <1>1, <2>1, <2>2, <2>3 DEF PoolInv, Queue
<1>4. CASE AddOutbidJob(c)
  <2>1. step[c] = "tell" /\ step' = [step EXCEPT ![c] = "idle"]
        /\ UNCHANGED <<rowLock, waiting, pg, ping, counts>>
    BY <1>4 DEF AddOutbidJob, Goes
  <2>2. PoolTypeOK' BY <1>1, <2>1 DEF PoolInv, PoolTypeOK
  <2>3. \A d \in Callers : Place(d)' BY <1>1, <2>1 DEF PoolInv, PoolTypeOK, Place
  <2> QED BY <1>1, <2>1, <2>2, <2>3 DEF PoolInv, Queue
<1>5. CASE Readyz(c)
  <2>1. step[c] = "idle" /\ step' = [step EXCEPT ![c] = "ready"] /\ waiting' = Append(waiting, c)
        /\ pg' = [pg EXCEPT ![c] = "sent"] /\ ping' = [ping EXCEPT ![c] = Command(c)]
        /\ UNCHANGED <<rowLock, counts>>
    BY <1>5 DEF Readyz, Goes, Asks
  <2>2. c \notin lent /\ c \notin ToSet(waiting) /\ rowLock # c BY <2>1 DEF PoolInv, Place
  <2>3. Queue(waiting') /\ ToSet(waiting') = ToSet(waiting) \cup {c}
    BY <2>1, <2>2, QueueAppend DEF PoolInv
  <2>4. PoolTypeOK'
    BY <1>1, <2>1, <2>3 DEF PoolInv, PoolTypeOK, Queue, Command, NoReply, Part
  <2>5. \A d \in Callers : Place(d)'
    BY <1>1, <2>1, <2>2, <2>3 DEF PoolInv, PoolTypeOK, Place
  <2> QED BY <1>1, <2>3, <2>4, <2>5 DEF PoolInv
<1>6. CASE Metrics(c)
  <2>1. step[c] = "idle" /\ step' = [step EXCEPT ![c] = "metrics"]
        /\ pg' = [pg EXCEPT ![c] = IF database THEN "ok" ELSE "error"]
        /\ ping' = [ping EXCEPT ![c] = Command(c)] /\ counts' = [counts EXCEPT ![c] = "sent"]
        /\ UNCHANGED <<rowLock, waiting>>
    BY <1>6 DEF Metrics, Goes
  <2>2. c \notin lent /\ c \notin ToSet(waiting) /\ rowLock # c BY <2>1 DEF PoolInv, Place
  <2>3. PoolTypeOK' BY <1>1, <2>1 DEF PoolInv, PoolTypeOK, Command, NoReply, Part
  <2>4. \A d \in Callers : Place(d)' BY <1>1, <2>1, <2>2 DEF PoolInv, PoolTypeOK, Place
  <2> QED BY <1>1, <2>1, <2>3, <2>4 DEF PoolInv, Queue
<1> QED BY <1>2, <1>3, <1>4, <1>5, <1>6

LEMMA AnswerPoolInv ==
  ASSUME PoolInv, NEW c \in Callers, CountsArrive(c) \/ Pong(c) \/ Answer(c)
  PROVE  PoolInv'
<1> USE DEF faultVars, redisVars, partVars, poolVars
<1>1. UNCHANGED <<waiting, lent, broken, rowLock, database, redis, outages, client, tries>>
  BY DEF CountsArrive, Pong, Answer
<1>2. CASE CountsArrive(c) \/ Pong(c)
  <2>1. UNCHANGED <<step, pg>>
        /\ ping' \in [Callers -> Part] /\ counts' \in [Callers -> Part]
    BY <1>2 DEF CountsArrive, Pong, PoolInv, PoolTypeOK, Part
  <2> QED BY <1>1, <2>1 DEF PoolInv, PoolTypeOK, Place, Queue
<1>3. CASE Answer(c)
  <2>1. /\ step' = [step EXCEPT ![c] = "idle"] /\ pg' = [pg EXCEPT ![c] = "none"]
        /\ ping' = [ping EXCEPT ![c] = "none"] /\ counts' = [counts EXCEPT ![c] = "none"]
        /\ step[c] = "metrics" \/ (step[c] = "ready" /\ pg[c] # "sent")
    BY <1>3 DEF Answer, Complete, Goes
  <2>2. c \notin lent /\ c \notin ToSet(waiting) /\ rowLock # c BY <2>1 DEF PoolInv, Place
  <2>3. PoolTypeOK' BY <1>1, <2>1 DEF PoolInv, PoolTypeOK, Part
  <2>4. \A d \in Callers : Place(d)' BY <1>1, <2>1, <2>2 DEF PoolInv, PoolTypeOK, Place
  <2> QED BY <1>1, <2>1, <2>3, <2>4 DEF PoolInv, Queue
<1> QED BY <1>2, <1>3

LEMMA OutagePoolInv ==
  ASSUME PoolInv, DatabaseGoes \/ RedisGoes \/ ComesBack \/ Reconnect
  PROVE  PoolInv'
<1> USE ConnectionsAssumption DEF faultVars, redisVars, partVars, poolVars
<1>1. UNCHANGED <<step, waiting, lent, pg, counts>>
  BY DEF DatabaseGoes, RedisGoes, ComesBack, Reconnect
<1>2. ping' \in [Callers -> Part]
  BY DEF DatabaseGoes, RedisGoes, ComesBack, Reconnect, NoReply, Part, PoolInv, PoolTypeOK
<1>3. /\ (rowLock' = rowLock /\ broken' = broken) \/ (rowLock' = Nobody /\ broken' = lent)
      /\ database' \in BOOLEAN /\ redis' \in BOOLEAN /\ outages' \in 0 .. MaxOutages
  <2> USE DEF PoolInv, PoolTypeOK
  <2>1. database \in BOOLEAN /\ redis \in BOOLEAN /\ outages \in 0 .. MaxOutages /\ MaxOutages \in Nat
    OBVIOUS
  <2>2. \/ outages' = outages
        \/ outages' = outages + 1 /\ outages < MaxOutages
    BY DEF DatabaseGoes, RedisGoes, ComesBack, Reconnect
  <2>3. outages' \in 0 .. MaxOutages BY <2>1, <2>2
  <2>4. database' \in BOOLEAN /\ redis' \in BOOLEAN
    BY <2>1 DEF DatabaseGoes, RedisGoes, ComesBack, Reconnect
  <2>5. (rowLock' = rowLock /\ broken' = broken) \/ (rowLock' = Nobody /\ broken' = lent)
    BY DEF DatabaseGoes, RedisGoes, ComesBack, Reconnect
  <2> QED BY <2>3, <2>4, <2>5
<1>4. /\ client' \in {"ready", "away", "end"} /\ tries' \in 0 .. RetryLimit + 1
      /\ client' = "away" => tries' <= RetryLimit
  <2> USE DEF PoolInv, PoolTypeOK
  <2>1. CASE DatabaseGoes BY <2>1 DEF DatabaseGoes
  <2>2. CASE RedisGoes BY <2>2 DEF RedisGoes
  <2>3. CASE ComesBack BY <2>3 DEF ComesBack
  <2>4. CASE Reconnect BY <2>4 DEF Reconnect
  <2> QED BY <2>1, <2>2, <2>3, <2>4
<1>5. PoolTypeOK' BY <1>1, <1>2, <1>3, <1>4 DEF PoolInv, PoolTypeOK
<1>6. \A d \in Callers : Place(d)' BY <1>1, <1>3 DEF PoolInv, Place
<1> QED BY <1>1, <1>4, <1>5, <1>6 DEF PoolInv, Queue

LEMMA NextPoolInv == PoolInv /\ [PoolNext]_connectionVars => PoolInv'
<1> SUFFICES ASSUME PoolInv, [PoolNext]_connectionVars PROVE PoolInv'
  OBVIOUS
<1>1. CASE UNCHANGED connectionVars
  BY <1>1 DEF connectionVars, poolVars, faultVars, redisVars, partVars,
              PoolInv, PoolTypeOK, Place, Queue
<1>2. ASSUME NEW c \in Callers, Proceeds(c) PROVE PoolInv'
  BY <1>2, TimeoutPoolInv, StatementFailsPoolInv, StatementPoolInv, AnswerPoolInv DEF Proceeds
<1> QED BY <1>1, <1>2, ServePoolInv, RequestPoolInv, OutagePoolInv DEF PoolNext

\* The inductive invariant, for a pool of any size.
THEOREM PoolInvariant == PoolSpec => []PoolInv
BY InitPoolInv, NextPoolInv, PTL DEF PoolSpec

\* bid.service.ts and db/index.ts: no bid, check or report keeps a connection or the row
\* of an auction while it waits for another connection or for Redis.
THEOREM NoHoldAndWaitAlways == PoolSpec => []NoHoldAndWait
<1>1. PoolInv => NoHoldAndWait
  BY DEF PoolInv, Place, NoHoldAndWait
<1> QED BY <1>1, PoolInvariant, PTL

-----------------------------------------------------------------------------
(* The types of both.                                                       *)

\* The bounds of the types that the proofs above do not need.
Bounds ==
  /\ price <= MaxPrice /\ drops \in 0 .. MaxDrops
  /\ count \in [Sockets -> 0 .. Cardinality(Sockets)]
  /\ worker \in {"up", "closing", "gone"} /\ job \in {"waiting", "publish", "done"}

LEMMA InitBounds == Init => Bounds
<1>1. Cardinality(Sockets) \in Nat BY FS_CardinalityType, RealtimeAssumption
<1> QED BY <1>1, RealtimeAssumption DEF Init, Bounds

\* A room holds at most all the sockets.
LEMMA RoomSize ==
  ASSUME RInv, NEW p \in Processes, NEW s \in Sockets
  PROVE  /\ roomSize(joinRoom(p, s)) \in 0 .. Cardinality(Sockets)
         /\ roomSize(leaveRoom(p, s)) \in 0 .. Cardinality(Sockets)
<1>1. joinRoom(p, s) \subseteq Sockets /\ leaveRoom(p, s) \subseteq Sockets
  BY DEF joinRoom, leaveRoom, RInv, Types
<1> HIDE DEF joinRoom, leaveRoom
<1>2. /\ IsFiniteSet(joinRoom(p, s)) /\ Cardinality(joinRoom(p, s)) <= Cardinality(Sockets)
      /\ IsFiniteSet(leaveRoom(p, s)) /\ Cardinality(leaveRoom(p, s)) <= Cardinality(Sockets)
  BY <1>1, FS_Subset, RealtimeAssumption
<1>3. /\ Cardinality(joinRoom(p, s)) \in Nat /\ Cardinality(leaveRoom(p, s)) \in Nat
      /\ Cardinality(Sockets) \in Nat
  BY <1>2, FS_CardinalityType, RealtimeAssumption
<1> QED BY <1>2, <1>3 DEF roomSize

LEMMA NextBounds == RInv /\ Bounds /\ [Next]_vars => Bounds'
<1> SUFFICES ASSUME RInv, Bounds, [Next]_vars PROVE Bounds'
  OBVIOUS
<1>1. Cardinality(Sockets) \in Nat BY FS_CardinalityType, RealtimeAssumption
<1> DEFINE countOK == count' \in [Sockets -> 0 .. Cardinality(Sockets)]
<1> USE DEF socketVars, clientVars, linkVars
<1>2. CASE UNCHANGED vars BY <1>2 DEF vars, Bounds
<1>3. ASSUME NEW p \in Processes, NEW s \in Sockets, Join(p, s) PROVE Bounds'
  <2>1. countOK BY <1>1, <1>3, RoomSize DEF Join, Counted, Bounds
  <2> QED BY <1>3, <2>1 DEF Join, Bounds
<1>4. ASSUME NEW s \in Sockets, SocketBreaks(s) PROVE Bounds'
  BY <1>1, <1>4 DEF SocketBreaks, Forget, Bounds
<1>5. ASSUME NEW s \in Sockets, SocketCloses(s) PROVE Bounds'
  <2>1. home[s] \in Processes BY <1>5 DEF SocketCloses, RInv, Rooms
  <2>2. countOK BY <1>1, <1>5, <2>1, RoomSize DEF SocketCloses, Counted, Bounds
  <2> QED BY <1>5, <2>2 DEF SocketCloses, Bounds
<1>6. ASSUME NEW p \in Processes, CommitBid(p) PROVE Bounds'
  <2>1. /\ UNCHANGED <<count, drops, worker, job>>
        /\ price' = price \/ (price < MaxPrice /\ price' = price + 1)
    BY <1>6 DEF CommitBid
  <2>2. price \in Nat /\ MaxPrice \in Nat BY RealtimeAssumption DEF RInv, Types
  <2>3. price' <= MaxPrice BY <2>1, <2>2 DEF Bounds
  <2> QED BY <2>1, <2>3 DEF Bounds
<1>7. ASSUME NEW p \in Processes, DropLink(p) PROVE Bounds'
  <2>1. UNCHANGED <<price, count, worker, job>> /\ drops < MaxDrops /\ drops' = drops + 1
    BY <1>7 DEF DropLink
  <2>2. drops' \in 0 .. MaxDrops BY <2>1, RealtimeAssumption DEF Bounds
  <2> QED BY <2>1, <2>2 DEF Bounds
<1>8. ASSUME NEW p \in Processes, NEW code, Leaves(p, code) PROVE Bounds'
  BY <1>1, <1>8 DEF Leaves, Forget, Bounds
<1>9. ASSUME NEW p \in Processes,
             \/ \E s \in Sockets : RefuseSocket(p, s)
             \/ \E b \in calls[p] : BroadcastBid(p, b)
             \/ TakeCall(p) \/ DeliverEnd(p) \/ Subscribe(p) \/ Signal(p) \/ ServerCloses(p)
      PROVE  Bounds'
  BY <1>9 DEF RefuseSocket, BroadcastBid, TakeCall, DeliverEnd, Subscribe, Signal,
              ServerCloses, Bounds
<1>10. CASE EndAuction \/ PublishEnd \/ WorkerSignal \/ WorkerLeaves
  BY <1>10 DEF EndAuction, PublishEnd, WorkerSignal, WorkerLeaves, Bounds
<1> QED
  BY <1>2, <1>3, <1>4, <1>5, <1>6, <1>7, <1>8, <1>9, <1>10
  DEF Next, SubsystemsClose, TimerFires

\* The state of rooms, channel, pool and clients is well formed at any time.
THEOREM RealtimeTypes == LiveProcessSpec => []RealtimeTypeOK
<1>1. Spec => []Bounds
  <2>1. RInv /\ Bounds /\ [Next]_vars => Bounds' BY NextBounds
  <2> QED BY <2>1, InitBounds, RealtimeInvariant, PTL DEF Spec
<1>2. RInv /\ Bounds => TypeOK
  <2> SUFFICES ASSUME RInv, Bounds PROVE TypeOK
    OBVIOUS
  <2>1. price \in Nat /\ price <= MaxPrice /\ MaxPrice \in Nat
    BY RealtimeAssumption DEF RInv, Types, Bounds
  <2>2. calls \in [Processes -> SUBSET (0 .. MaxPrice)]
    BY <2>1 DEF RInv, Types, Prices
  <2>3. shown \in [Sockets -> 0 .. MaxPrice] BY <2>1 DEF RInv, Types, Prices
  <2>4. final \in [Sockets -> 0 .. MaxPrice + 1] BY <2>1 DEF RInv, Types, Prices
  <2> QED BY <2>1, <2>2, <2>3, <2>4 DEF RInv, Types, Bounds, TypeOK
<1>3. PoolInv => PoolTypeOK BY DEF PoolInv
<1> QED
  BY <1>1, <1>2, <1>3, RealtimeInvariant, PoolInvariant, PTL
  DEF LiveProcessSpec, RealtimeTypeOK
=============================================================================
