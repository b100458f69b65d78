----------------------------- MODULE MCFrontDoor -----------------------------
(* Small instances of Sessions and RequestGate in one state graph, as in      *)
(* MCCatalogue: they share no variable, and one of them moves.                *)
EXTENDS FrontDoor

CONSTANTS
  amy, home, a1, a2

Shape(route, user, auction) ==
  [route |-> route, from |-> home, user |-> user, auction |-> auction,
   role |-> TRUE, valid |-> TRUE]

\* Logins, bids of one user on two auctions and what shares "GET /", with the ways
\* to be refused.
MCShapes ==
  {Shape("login", Nobody, a1), Shape("bid", amy, a1), Shape("bid", amy, a2),
   Shape("browse", Nobody, a1), Shape("analysis", Nobody, a1), Shape("analysis", amy, a1),
   [Shape("bid", amy, a1) EXCEPT !.role = FALSE],
   Shape("my", Nobody, a1), [Shape("my", amy, a1) EXCEPT !.valid = FALSE],
   Shape("refresh", Nobody, a1), Shape("open", Nobody, a1), Shape("missing", Nobody, a1)}

MCLimit == [api |-> 2, auth |-> 2, bid |-> 1, global |-> 1]
MCWindow == [api |-> 3, auth |-> 4, bid |-> 3, global |-> 3]

\* Two processes, one of them a tick behind.
MCLag == [p \in Processes |-> p]

MCInit == Init /\ GateInit

\* One of the initial states of the gate, while sessions move.
Quiet == time = Skew /\ stage = [r \in Requests |-> 0] /\ process = [r \in Requests |-> 0]

\* Calls and requests are numbered as they come, which leaves one of each set of
\* behaviours that differ by names only.
CallsInOrder == \A c, d \in Calls : c < d /\ pc[d] # "idle" => pc[c] # "idle"
RequestsInOrder == \A q, r \in Requests : q < r /\ stage[r] # 0 => stage[q] # 0

MCNext ==
  \/ Init /\ GateNext /\ UNCHANGED vars /\ RequestsInOrder'
  \/ Quiet /\ Next /\ UNCHANGED gateVars /\ CallsInOrder'

MCSpec == MCInit /\ [][MCNext]_<<vars, gateVars>>
=============================================================================
