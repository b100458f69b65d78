------------------------------ MODULE Realtime ------------------------------
(***************************************************************************)
(* Who hears of bids and of the end of an auction: the rooms of            *)
(* lib/websocket.ts in each API process, the Redis channel of              *)
(* lib/pubsub.ts between the worker and those processes, and the shutdown  *)
(* of server.ts and worker.ts, which ends both.                            *)
(*                                                                         *)
(* Rooms do not interact, so there is one auction.  A bid is named by its  *)
(* amount and commits in one step; what placeBid does with the rows is     *)
(* BidService's business.                                                  *)
(***************************************************************************)
EXTENDS Naturals, FiniteSets

CONSTANTS
  Processes,  \* API processes
  Sockets,    \* slots for WebSocket connections, used again and again
  MaxPrice,   \* bound: the number of bids
  MaxDrops,   \* bound: how often a subscriber loses its connection
  Nowhere     \* the process of a socket that is not connected

ASSUME RealtimeAssumption ==
  Nowhere \notin Processes /\ IsFiniteSet(Sockets) /\ {MaxPrice, MaxDrops} \subseteq Nat

VARIABLES
  price,    \* the price in PostgreSQL: the amount of the last bid
  ended,    \* the auction has ended
  calls,    \* calls under way in each process: the bid they committed, 0 before
  sock,     \* the state of each socket as its process sees it
  home,     \* the process of each socket
  room,     \* the room in each process
  count,    \* the number of watchers each client was told last
  shown,    \* the highest bid each client was shown
  final,    \* the final price it was told, 0 before
  link,     \* whether each process's subscriber is subscribed
  wire,     \* auction_ended under way to each process
  drops,    \* connections lost so far
  proc,     \* each API process
  worker,   \* the worker process
  job       \* the expire-auction job

socketVars == <<sock, home, room>>
clientVars == <<count, shown, final>>
linkVars == <<link, wire, drops>>
vars == <<price, ended, calls, socketVars, clientVars, linkVars, proc, worker, job>>

TypeOK ==
  /\ price \in 0 .. MaxPrice /\ ended \in BOOLEAN
  /\ calls \in [Processes -> SUBSET (0 .. MaxPrice)]
  /\ sock \in [Sockets -> {"none", "open", "closing", "refused"}]
  /\ home \in [Sockets -> Processes \cup {Nowhere}]
  /\ room \in [Processes -> SUBSET Sockets]
  /\ count \in [Sockets -> 0 .. Cardinality(Sockets)]
  /\ shown \in [Sockets -> 0 .. MaxPrice] /\ final \in [Sockets -> 0 .. MaxPrice + 1]
  /\ link \in [Processes -> BOOLEAN] /\ wire \in [Processes -> BOOLEAN]
  /\ drops \in 0 .. MaxDrops
  /\ proc \in [Processes -> {"up", "draining", "closing", "exit0", "exit1"}]
  /\ worker \in {"up", "closing", "gone"}
  /\ job \in {"waiting", "publish", "done"}

Init ==
  /\ price = 0 /\ ended = FALSE
  /\ calls = [p \in Processes |-> {}]
  /\ sock = [s \in Sockets |-> "none"] /\ home = [s \in Sockets |-> Nowhere]
  /\ room = [p \in Processes |-> {}]
  /\ count = [s \in Sockets |-> 0] /\ shown = [s \in Sockets |-> 0]
  /\ final = [s \in Sockets |-> 0]
  /\ link = [p \in Processes |-> FALSE] /\ wire = [p \in Processes |-> FALSE]
  /\ drops = 0
  /\ proc = [p \in Processes |-> "up"] /\ worker = "up" /\ job = "waiting"

Runs(p) == proc[p] \in {"up", "draining", "closing"}

-----------------------------------------------------------------------------
(* Rooms.                                                                   *)

\* The members of a room of process p when s has joined or left it.
joinRoom(p, s) == room[p] \cup {s}
leaveRoom(p, s) == room[p] \ {s}
roomSize(members) == Cardinality(members)

Opens(members) == {s \in members : sock'[s] = "open"}

\* broadcastToAuction of the number of watchers: it sends to the open sockets of
\* the room and takes the others out; members is the room when it is called.
Counted(p, members, n) ==
  /\ room' = [room EXCEPT ![p] = Opens(members)]
  /\ count' = [s \in Sockets |-> IF s \in Opens(members) THEN n ELSE count[s]]

\* A connection: joinRoom, 'connected' to the client and the new count to all.
Join(p, s) ==
  /\ proc[p] = "up" /\ sock[s] = "none"
  /\ sock' = [sock EXCEPT ![s] = "open"]
  /\ home' = [home EXCEPT ![s] = p]
  /\ Counted(p, joinRoom(p, s), roomSize(joinRoom(p, s)))
  /\ UNCHANGED <<price, ended, calls, shown, final, linkVars, proc, worker, job>>

\* A connection without auctionId is closed and joins nothing.
RefuseSocket(p, s) ==
  /\ proc[p] = "up" /\ sock[s] = "none"
  /\ sock' = [sock EXCEPT ![s] = "refused"]
  /\ home' = [home EXCEPT ![s] = p]
  /\ UNCHANGED <<price, ended, calls, room, clientVars, linkVars, proc, worker, job>>

\* What a client was told matters as long as its socket is open.
Forget(gone) ==
  /\ count' = [s \in Sockets |-> IF s \in gone THEN 0 ELSE count[s]]
  /\ shown' = [s \in Sockets |-> IF s \in gone THEN 0 ELSE shown[s]]
  /\ final' = [s \in Sockets |-> IF s \in gone THEN 0 ELSE final[s]]

\* A socket stops being OPEN: the client closes it or the connection breaks.  On
\* an 'error' event the handler takes it out of the room and tells nobody.
SocketBreaks(s) ==
  /\ sock[s] = "open"
  /\ sock' = [sock EXCEPT ![s] = "closing"]
  /\ \/ UNCHANGED room
     \/ room' = [room EXCEPT ![home[s]] = leaveRoom(home[s], s)]
  /\ Forget({s})
  /\ UNCHANGED <<price, ended, calls, home, linkVars, proc, worker, job>>

\* Mutant: those who stay are not told.
SocketClosesQuietly(s) ==
  /\ sock[s] \in {"closing", "refused"}
  /\ sock' = [sock EXCEPT ![s] = "none"]
  /\ home' = [home EXCEPT ![s] = Nowhere]
  /\ room' = [room EXCEPT ![home[s]] = @ \ {s}]
  /\ UNCHANGED <<price, ended, calls, count, shown, final, linkVars, proc, worker, job>>

\* The 'close' event: leaveRoom, and the count for those who stay; a refused
\* socket has no handler for it.
SocketCloses(s) ==
  /\ sock[s] \in {"closing", "refused"}
  /\ sock' = [sock EXCEPT ![s] = "none"]
  /\ home' = [home EXCEPT ![s] = Nowhere]
  /\ LET remaining == leaveRoom(home[s], s) IN
     IF sock[s] = "refused" THEN UNCHANGED <<room, count>>
     ELSE Counted(home[s], remaining, roomSize(remaining))
  /\ UNCHANGED <<price, ended, calls, shown, final, linkVars, proc, worker, job>>

-----------------------------------------------------------------------------
(* Bids and the end.                                                        *)

TakeCall(p) ==
  /\ proc[p] = "up" /\ 0 \notin calls[p]
  /\ calls' = [calls EXCEPT ![p] = @ \cup {0}]
  /\ UNCHANGED <<price, ended, socketVars, clientVars, linkVars, proc, worker, job>>

\* Mutant: a bid is not refused although the auction has ended.
CommitBidLate(p) ==
  /\ Runs(p) /\ 0 \in calls[p]
  /\ \/ /\ price < MaxPrice
        /\ price' = price + 1
        /\ calls' = [calls EXCEPT ![p] = (@ \ {0}) \cup {price + 1}]
     \/ calls' = [calls EXCEPT ![p] = @ \ {0}] /\ UNCHANGED price
  /\ UNCHANGED <<ended, socketVars, clientVars, linkVars, proc, worker, job>>

\* A call commits its bid, which it has yet to broadcast, or is refused.
CommitBid(p) ==
  /\ Runs(p) /\ 0 \in calls[p]
  /\ \/ /\ ~ended /\ price < MaxPrice
        /\ price' = price + 1
        /\ calls' = [calls EXCEPT ![p] = (@ \ {0}) \cup {price + 1}]
     \/ calls' = [calls EXCEPT ![p] = @ \ {0}] /\ UNCHANGED price
  /\ UNCHANGED <<ended, socketVars, clientVars, linkVars, proc, worker, job>>

\* bid_placed goes to the room of the process that took the bid.  The call is
\* answered soon after.
BroadcastBid(p, b) ==
  /\ Runs(p) /\ b \in calls[p] \ {0}
  /\ calls' = [calls EXCEPT ![p] = @ \ {b}]
  /\ sock' = sock
  /\ room' = [room EXCEPT ![p] = Opens(room[p])]
  /\ shown' = [s \in Sockets |-> IF s \in Opens(room[p]) /\ shown[s] < b THEN b ELSE shown[s]]
  /\ UNCHANGED <<price, ended, home, count, final, linkVars, proc, worker, job>>

\* The worker takes the expiry job and ends the auction.
EndAuction ==
  /\ worker = "up" /\ job = "waiting"
  /\ ended' = TRUE /\ job' = "publish"
  /\ UNCHANGED <<price, calls, socketVars, clientVars, linkVars, proc, worker>>

\* Redis hands the message to whoever is subscribed now, and keeps nothing.  The
\* first publish of a worker process is refused and not repeated
\* (AuctionLifecycle).
PublishEnd ==
  /\ worker # "gone" /\ job = "publish"
  /\ job' = "done"
  /\ wire' \in {wire, [p \in Processes |-> link[p]]}
  /\ UNCHANGED <<price, ended, calls, socketVars, clientVars, link, drops, proc, worker>>

\* Mutant: the handler reads the room of the channel and finds nobody in it.
DeliverToNobody(p) ==
  /\ Runs(p) /\ wire[p]
  /\ wire' = [wire EXCEPT ![p] = FALSE]
  /\ UNCHANGED <<price, ended, calls, socketVars, clientVars, link, drops, proc, worker, job>>

\* The subscriber's message handler: auction_ended with the final price goes to
\* the room.
DeliverEnd(p) ==
  /\ Runs(p) /\ wire[p]
  /\ wire' = [wire EXCEPT ![p] = FALSE]
  /\ sock' = sock
  /\ room' = [room EXCEPT ![p] = Opens(room[p])]
  /\ final' = [s \in Sockets |-> IF s \in Opens(room[p]) THEN price + 1 ELSE final[s]]
  /\ UNCHANGED <<price, ended, calls, home, count, shown, link, drops, proc, worker, job>>

\* startAuctionEventSubscriber: the subscription is queued at the start and sent
\* again with each 'ready'; twice is once.
Subscribe(p) ==
  /\ Runs(p) /\ ~link[p]
  /\ link' = [link EXCEPT ![p] = TRUE]
  /\ UNCHANGED <<price, ended, calls, socketVars, clientVars, wire, drops, proc, worker, job>>

\* The subscriber loses its connection, and with it what was under way.
DropLink(p) ==
  /\ Runs(p) /\ link[p] /\ drops < MaxDrops
  /\ drops' = drops + 1
  /\ link' = [link EXCEPT ![p] = FALSE]
  /\ wire' = [wire EXCEPT ![p] = FALSE]
  /\ UNCHANGED <<price, ended, calls, socketVars, clientVars, proc, worker, job>>

-----------------------------------------------------------------------------
(* Shutdown.                                                                *)

\* The signal: no new connections; openSockets is empty, because it is filled by
\* connections that come after it, so nothing is destroyed.
Signal(p) ==
  /\ proc[p] = "up"
  /\ proc' = [proc EXCEPT ![p] = "draining"]
  /\ UNCHANGED <<price, ended, calls, socketVars, clientVars, linkVars, worker, job>>

\* Mutant: the subsystems are closed at the signal, beside httpServer.close.
BusyWithNothing(p) == FALSE

\* The callback of httpServer.close: no call and no connection is left, WebSockets
\* included.
Busy(p) == calls[p] # {} \/ \E s \in Sockets : home[s] = p

ServerCloses(p) ==
  /\ proc[p] = "draining" /\ ~Busy(p)
  /\ proc' = [proc EXCEPT ![p] = "closing"]
  /\ UNCHANGED <<price, ended, calls, socketVars, clientVars, linkVars, worker, job>>

\* The end of the process: its sockets break, its calls and events are lost.
Leaves(p, code) ==
  /\ proc' = [proc EXCEPT ![p] = code]
  /\ sock' = [s \in Sockets |-> IF home[s] = p THEN "none" ELSE sock[s]]
  /\ home' = [s \in Sockets |-> IF home[s] = p THEN Nowhere ELSE home[s]]
  /\ Forget({s \in Sockets : home[s] = p})
  /\ room' = [room EXCEPT ![p] = {}]
  /\ calls' = [calls EXCEPT ![p] = {}]
  /\ link' = [link EXCEPT ![p] = FALSE]
  /\ wire' = [wire EXCEPT ![p] = FALSE]
  /\ UNCHANGED <<price, ended, drops, worker, job>>

\* Pool, Redis and queues are closed, or one of them fails to.  A second signal
\* closes the pool twice, which fails too.
SubsystemsClose(p) ==
  /\ proc[p] = "closing"
  /\ Leaves(p, "exit0") \/ Leaves(p, "exit1")

\* Mutant: the process exits with the number of the signal.
TimerFiresOddly(p) == proc[p] \in {"draining", "closing"} /\ Leaves(p, "killed")

\* The timer of ten seconds.
TimerFires(p) == proc[p] \in {"draining", "closing"} /\ Leaves(p, "exit1")

\* worker.ts: close() takes no new job and waits for the running ones.
WorkerSignal ==
  /\ worker = "up" /\ worker' = "closing"
  /\ UNCHANGED <<price, ended, calls, socketVars, clientVars, linkVars, proc, job>>

WorkerLeaves ==
  /\ worker = "closing" /\ job # "publish"
  /\ worker' = "gone"
  /\ UNCHANGED <<price, ended, calls, socketVars, clientVars, linkVars, proc, job>>

Next ==
  \/ \E p \in Processes :
       \/ \E s \in Sockets : Join(p, s) \/ RefuseSocket(p, s)
       \/ \E b \in calls[p] : BroadcastBid(p, b)
       \/ TakeCall(p) \/ CommitBid(p) \/ DeliverEnd(p) \/ Subscribe(p) \/ DropLink(p)
       \/ Signal(p) \/ ServerCloses(p) \/ SubsystemsClose(p) \/ TimerFires(p)
  \/ \E s \in Sockets : SocketBreaks(s) \/ SocketCloses(s)
  \/ EndAuction \/ PublishEnd \/ WorkerSignal \/ WorkerLeaves

Spec == Init /\ [][Next]_vars

\* A process handles the messages that reached it.  Nothing is assumed of clients, of
\* the network, or of those who stop processes.
Fairness == \A p \in Processes : WF_vars(DeliverEnd(p))

-----------------------------------------------------------------------------
(* What watchers and operators may rely on.                                 *)

\* A watcher stays in its room until its connection breaks, however sockets join,
\* fail and are swept out by broadcasts around it, and no room holds a socket that
\* is gone.  When no connection of a process is about to close, each of its watchers
\* was told the true number of watchers there: also after an 'error' that told
\* nobody, and when a broadcast had swept the socket out before its 'close'.
CountsAreTrue ==
  /\ \A s \in Sockets : sock[s] = "open" => s \in room[home[s]]
  /\ \A p \in Processes : \A s \in room[p] : home[s] = p
  /\ \A p \in Processes :
       (\A s \in Sockets : home[s] = p => sock[s] # "closing") =>
         \A s \in room[p] : count[s] = Cardinality(room[p])

\* Whoever is told the final price was never shown, and will never be shown, a
\* higher bid, although bids and the end come over different ways and in any order.
FinalPriceIsFinal ==
  \A s \in Sockets : final[s] # 0 => ended /\ shown[s] < final[s] /\ price + 1 = final[s]

\* A process that exits with 0 has broadcast every bid it took and has cut no
\* watcher off.
CleanExitCutsNobody ==
  [][ \A p \in Processes : proc[p] # "exit0" /\ proc'[p] = "exit0" =>
         calls[p] = {} /\ \A s \in Sockets : home[s] # p ]_vars

\* A watcher whose process is subscribed when the end is published is told, unless
\* its connection, the subscription or the process ends first.
WatchersHearTheEnd ==
  \A s \in Sockets :
    (\E p \in Processes : s \in room[p] /\ wire[p])
      ~> (final[s] # 0 \/ sock[s] # "open" \/ ~link[home[s]])
=============================================================================
