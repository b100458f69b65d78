------------------------ MODULE LifecycleProperties ------------------------
(***************************************************************************)
(* What the opening and the end of an auction promise.                     *)
(***************************************************************************)
EXTENDS AuctionLifecycle

\* The winner of an auction is its highest bid, and nobody wins before the end,
\* although the worker reads the bids after it ended the auction, in a
\* statement of its own, and several workers may run the same job.  However many
\* calls activate the auction: only when one of them came so late that it opened
\* the ended auction again may a winner have to see higher bids.
WinnerIsHighest ==
  ~reopened =>
    \A r \in Requests : bids[r] = "won" =>
      /\ status = "ended"
      /\ r \in Top(Placed)
      /\ \A q \in Placed \ {r} : bids[q] = "outbid"

\* However often the job is attempted, and by two workers at once, the winner
\* is told at most once, and only the winner is told.
ToldOnce ==
  /\ \A r \in Requests : wonJobs[r] <= 1
  /\ \A r \in Requests : wonJobs[r] > 0 => bids[r] = "won"

\* auction_ended is published for an auction that has ended, names the bid that
\* won, or nobody when there was no bid, and the price the auction ended at.
EndEventIsTrue ==
  \A e \in endEvents :
    /\ status = "ended" /\ e.finalPrice = price
    /\ IF e.winner = NoOne THEN Placed = {} ELSE bids[e.winner] = "won"

\* The two ways on which the end is told, the winner's job and the watchers' event, say
\* what the rows say, to whoever hears of it and however often the job is run, until
\* an activation opens the ended auction again.
NewsIsTrue == ~reopened => ToldOnce /\ EndEventIsTrue

\* What placeBid assumes of the rest of the system, for any number of activations:
\* every step on the shared rows creates the auction, opens the draft, lets time
\* pass, ends what is active or awards the highest bid of what has ended.  The one
\* exception is the UPDATE of an activation that read the draft before another
\* one opened it, and comes after the end: it alone reopens an auction.
Reopens(a) == actPc[a] = "update" /\ status = "ended" /\ ActivateRow

ActsAsEnvironment ==
  [][ \/ CreateRow \/ OpenDraft \/ EndTimePasses \/ EndRow
      \/ \E r \in Requests : AwardRow(r) \/ BidTakes(r)
      \/ \E a \in overtaken : Reopens(a)
      \/ reopened ]_storeVars

\* safeQueueAdd gave up, and no job will end the auction.
JobLost == mishaps > 0 /\ job.state = "none"

\* An active auction ends although one thing goes wrong with its job: a failed
\* attempt, a dead worker or one that stalls, however many calls activated it. An add
\* that was lost, which safeQueueAdd swallows, leaves it active for good, and so may
\* an activation that opens it again: the completed job keeps its jobId.
AuctionsEnd ==
  status = "active" ~> (status = "ended" \/ mishaps > 1 \/ JobLost \/ reopened)

\* Unless something goes wrong, an auction that ended with bids has a winner, who
\* is told, and a worker that has published before tells the watchers of the end,
\* whether or not there was a bid.
EndedIsSettled ==
  /\ status = "ended" ~>
       (mishaps > 0 \/ reopened \/ (Placed # {} => \E r \in Placed : bids[r] = "won" /\ wonJobs[r] = 1))
  /\ \A w \in Workers :
       (workPc[w] = "find" /\ publisher[w] = "ready") ~>
         (mishaps > 0 \/ reopened \/ endEvents # {})

-----------------------------------------------------------------------------
(* The inductive invariant behind the safety properties, until a reopening. *)

Ending == {"find", "award", "tell", "publish"}

\* Redis keeps a lock for exactly the active job, and a failed attempt more is
\* within the bound until the job is given up.
JobIsHeld ==
  /\ (job.state = "active") <=> (holder # NoOne)
  /\ job.state \notin {"completed", "failed"} => job.fails < Attempts

\* The last bid stands alone at the price; the others are below it.
OneHighest ==
  /\ \A r \in Placed : bids[r] \in {"winning", "won", "outbid"}
  /\ \A r \in Placed : IF bids[r] = "outbid" THEN Amount(r) < price ELSE Amount(r) = price
  /\ \A r, q \in Placed :
       bids[r] \in {"winning", "won"} /\ bids[q] \in {"winning", "won"} => r = q
  /\ Placed # {} => \E r \in Placed : bids[r] \in {"winning", "won"}
  /\ \A r \in Placed : bids[r] = "won" => status = "ended"

\* What an activation knows between its read and its UPDATE: the auction is still the
\* draft that was read, unless another activation came first.
DraftHolds ==
  \A a \in Activations : actPc[a] = "update" =>
    status = "draft" \/ (a \in overtaken /\ status \in {"active", "ended"})

\* What a worker knows between two of its statements.
ReadsHold ==
  /\ status \in {"absent", "draft"} => Placed = {}
  /\ \A w \in Workers : workPc[w] \in Ending => status = "ended" /\ ended[w] = price
  /\ \A w \in Workers : workPc[w] = "award" => found[w] \in Top(Placed)
  /\ \A w \in Workers : workPc[w] = "tell" => bids[found[w]] = "won"
  /\ \A w \in Workers : workPc[w] = "publish" =>
       IF found[w] = NoOne THEN Placed = {} ELSE bids[found[w]] = "won"

\* One worker gets past the UPDATE, and it alone tells the winner.
OneEnds ==
  /\ \A w, v \in Workers : workPc[w] \in Ending /\ workPc[v] \in Ending => w = v
  /\ \A r \in Requests : wonJobs[r] > 0 =>
       \A w \in Workers : workPc[w] \notin {"find", "award", "tell"}

RowInv == OneHighest /\ DraftHolds /\ ReadsHold /\ OneEnds /\ ToldOnce /\ EndEventIsTrue

LInv == LifecycleTypeOK /\ JobIsHeld /\ (reopened \/ RowInv)

-----------------------------------------------------------------------------
(* What the documentation says.                                             *)

\* openapi.ts: activation "transitions auction from draft -> active", and answers
\* 409 otherwise.
EndedStaysEnded == [][status = "ended" => status' = "ended"]_allVars

\* ADR-005: expiry is retried, "3 attempts, exponential backoff": an auction that
\* ended with bids gets its winner although one attempt fails.
WinnersAreAwarded ==
  status = "ended" /\ Placed # {} ~> \E r \in Placed : bids[r] = "won"
=============================================================================
