---------------------------- MODULE AnalysisStream ----------------------------
(***************************************************************************)
(* GET /auctions/:id/analysis: the auction and its comparables are read,   *)
(* the comparables are ranked by two signals and fused, and the model's    *)
(* answer is streamed to a client that may leave.                          *)
(*                                                                         *)
(* Each query is one snapshot, so what matters of the other auctions is    *)
(* chosen at the start: which are active, and which of them have a vector  *)
(* and match the words.                                                    *)
(***************************************************************************)
EXTENDS Naturals, FiniteSets, Sequences

CONSTANTS
  Others,     \* the other active auctions
  K,          \* the constant of reciprocal rank fusion: 60
  PerSignal,  \* the rows each signal contributes: 20
  TopN,       \* the comparables used: 5
  MaxTexts    \* bound: pieces of text of an answer

ASSUME AnalysisAssumption ==
  /\ IsFiniteSet(Others) /\ {K, PerSignal, TopN, MaxTexts} \subseteq Nat /\ K > 0

VARIABLES
  subject,   \* the auction asked for: "none", "bare" or "embedded"
  vectors,   \* the others that have an embedding
  matching,  \* the others that match its words
  step,      \* the step of the handler
  sem, lex,  \* the rows of each signal, by rank
  similar,   \* the comparables
  sent,      \* the events written to the client, "end" for res.end()
  gone       \* what had been written when the client left, <<>> before

streamVars == <<subject, vectors, matching, step, sem, lex, similar, sent, gone>>
data == <<subject, vectors, matching>>
ranking == <<sem, lex, similar>>

RowsOf(s) == {s[i] : i \in DOMAIN s}

StreamTypeOK ==
  /\ subject \in {"none", "bare", "embedded"}
  /\ vectors \subseteq Others /\ matching \subseteq Others
  /\ step \in {"new", "row", "bids", "similar", "stream", "ended", "refused"}
  /\ RowsOf(sem) \subseteq vectors /\ RowsOf(lex) \subseteq matching
  /\ similar \subseteq RowsOf(sem) \cup RowsOf(lex) /\ Cardinality(similar) <= TopN
  /\ Len(sent) <= MaxTexts + 3 /\ Len(gone) <= Len(sent)

StreamInit ==
  /\ subject \in {"none", "bare", "embedded"}
  /\ vectors \in SUBSET Others /\ matching \in SUBSET Others
  /\ step = "new" /\ sem = <<>> /\ lex = <<>> /\ similar = {}
  /\ sent = <<>> /\ gone = <<>>

-----------------------------------------------------------------------------
(* The stream.                                                              *)

Connected == gone = <<>>

\* Mutant: the flag is not looked at.
WrittenAnyway(event) == Append(sent, event)

\* write() of the route: nothing after the client left.
Written(event) == IF Connected THEN Append(sent, event) ELSE sent

\* requireAuth and the form of the id refuse with 401 and 400; else the head goes out.
Start ==
  /\ step = "new"
  /\ \/ step' = "refused" /\ UNCHANGED sent
     \/ step' = "row" /\ sent' = Written("start")
  /\ UNCHANGED <<data, ranking, gone>>

\* The catch block: the head is out, so the error is an event.
Fails == step' = "ended" /\ sent' = Append(Written("error"), "end")

\* The auction; there may be none, and the query may fail.
FetchAuction ==
  /\ step = "row"
  /\ Fails \/ (subject # "none" /\ step' = "bids" /\ UNCHANGED sent)
  /\ UNCHANGED <<data, ranking, gone>>

FetchBids ==
  /\ step = "bids"
  /\ Fails \/ (step' = "similar" /\ UNCHANGED sent)
  /\ UNCHANGED <<data, ranking, gone>>

-----------------------------------------------------------------------------
(* The comparables.                                                         *)

\* The first rows of a set under some order: ROW_NUMBER() or ORDER BY, and LIMIT.
Rankings(rows, limit) ==
  LET n == IF Cardinality(rows) < limit THEN Cardinality(rows) ELSE limit
  IN {s \in [1 .. n -> rows] : \A i, j \in 1 .. n : i # j => s[i] # s[j]}

\* The rank of a row in a signal, 0 if it has none.
Rank(s, a) == IF a \in RowsOf(s) THEN CHOOSE i \in DOMAIN s : s[i] = a ELSE 0

\* A sum of two fractions, in millionths: ROUND(..., 6).
Rounded(x, y) ==
  LET n == x[1] * y[2] + y[1] * x[2]
      d == x[2] * y[2]
  IN (2000000 * n + d) \div (2 * d)

\* COALESCE(1.0 / (60 + rank), 0).
Coalesce(r) == IF r = 0 THEN <<0, 1>> ELSE <<1, K + r>>

RrfScore(r, t) == Rounded(Coalesce(r), Coalesce(t))

\* ORDER BY rrf_score DESC LIMIT: equal scores come in any order.
Fused(s, t) ==
  LET rows == RowsOf(s) \cup RowsOf(t)
      score(a) == RrfScore(Rank(s, a), Rank(t, a))
  IN {top \in SUBSET rows :
        /\ Cardinality(top) <= TopN /\ (Cardinality(top) < TopN => top = rows)
        /\ \A a \in top, b \in rows \ top : score(a) >= score(b)}

\* findSimilarAuctions: both signals when the auction has a vector, else the words
\* alone; a failed query finds nothing.
FindSimilar ==
  /\ step = "similar"
  /\ step' = "stream"
  /\ \/ /\ subject = "embedded"
        /\ sem' \in Rankings(vectors, PerSignal) /\ lex' \in Rankings(matching, PerSignal)
        /\ similar' \in Fused(sem', lex')
     \/ /\ subject = "bare"
        /\ sem' = <<>> /\ lex' \in Rankings(matching, TopN)
        /\ similar' = RowsOf(lex')
     \/ sem' = <<>> /\ lex' = <<>> /\ similar' = {}
  /\ UNCHANGED <<data, sent, gone>>

-----------------------------------------------------------------------------
(* The model's answer.                                                      *)

Texts == Cardinality({i \in DOMAIN sent : sent[i] = "text"})

\* A piece of text, of the model or of the mock that writes word by word; nobody
\* stops either when the client has left.
StreamText ==
  /\ step = "stream" /\ Texts < MaxTexts
  /\ sent' = Written("text")
  /\ UNCHANGED <<data, step, ranking, gone>>

\* onDone, then the promise is kept: the response ends here, and only if there is
\* somebody to read it.
StreamDone ==
  /\ step = "stream"
  /\ step' = "ended"
  /\ sent' = IF Connected THEN sent \o <<"done", "end">> ELSE sent
  /\ UNCHANGED <<data, ranking, gone>>

\* The 'error' of a real model.
StreamFails ==
  /\ step = "stream" /\ Fails
  /\ UNCHANGED <<data, ranking, gone>>

\* 'close' of the request.
ClientLeaves ==
  /\ step \notin {"new", "refused"} /\ Connected
  /\ gone' = sent
  /\ UNCHANGED <<data, step, ranking, sent>>

StreamNext ==
  \/ Start \/ FetchAuction \/ FetchBids \/ FindSimilar
  \/ StreamText \/ StreamDone \/ StreamFails \/ ClientLeaves

StreamSpec == StreamInit /\ [][StreamNext]_streamVars

-----------------------------------------------------------------------------
(* What the client may rely on.                                             *)

\* The response begins with 'start', says 'done' or 'error' at most once, and is ended
\* once, after it; a client that stays is told one of them before the end, and one
\* that left is written nothing.
StreamIsWellFormed ==
  LET At(event) == {i \in DOMAIN sent : sent[i] = event}
      verdicts == At("done") \cup At("error")
  IN /\ sent # <<>> => sent[1] = "start"
     /\ Cardinality(verdicts) <= 1
     /\ At("end") \subseteq {Len(sent)}
     /\ step = "ended" /\ Connected =>
          Len(sent) >= 2 /\ sent[Len(sent)] = "end" /\ Len(sent) - 1 \in verdicts
     /\ ~Connected => \A i \in Len(gone) + 1 .. Len(sent) : sent[i] = "end"
=============================================================================
