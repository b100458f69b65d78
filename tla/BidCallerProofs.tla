--------------------------- MODULE BidCallerProofs ---------------------------
(***************************************************************************)
(* What the callers of placeBid and the other bidders may rely on: a key   *)
(* has one owner, and nobody hears of a bid that is not there.             *)
(***************************************************************************)
EXTENDS BidProofs

LEMMA OfferFixed ==
  ASSUME [Next]_vars
  PROVE  offer' = offer
<1> USE DEF storeVars
<1>1. CASE UNCHANGED vars BY <1>1 DEF vars
<1>2. CASE Environment
  BY <1>2 DEF Environment, CreateRow, OpenDraft, ActivateRow, EndTimePasses, EndRow, AwardRow
<1>3. ASSUME NEW r \in Requests, CallStep(r) \/ FaultStep(r) PROVE offer' = offer
  BY <1>3 DEF CallStep, FaultStep, Gate, Transaction, Aftermath, RejectAmount, RejectKey, Admit,
     ClaimKey, ReadKey, ReclaimKey, GateFails, LockRow, CheckDuplicate, AdvisoryLock, Cas,
     Sweep, Insert, Resweep, AuditAccepted, Commit, CommitFails, Apply, Discard, Rollback,
     StatementFails, MarkKeyFailed, AuditRejection, Broadcast, Notify, NotifyFails,
     CompleteKey, Crash
<1> QED BY <1>1, <1>2, <1>3 DEF Next

-----------------------------------------------------------------------------
(* Keys.                                                                    *)

\* Only a call with a key awaits a statement on bid_requests.
KeyedPcs == \A r \in Requests : pc[r] \in GatePcs \cup {"markFailed", "complete"} => Keyed(r)

KeyInv == TypeOK /\ KeyedPcs /\ KeyHasOneOwner

\* A step of r that neither takes a key nor writes to bid_requests.
LEMMA KeyFrame ==
  ASSUME KeyInv, NEW r \in Requests, TypeOK', offer' = offer, keyStatus' = keyStatus,
         \A q \in Requests \ {r} : pc'[q] = pc[q],
         Owns(r)' => Owns(r),
         pc'[r] \in GatePcs \cup {"markFailed", "complete"} => Keyed(r)
  PROVE  KeyInv'
<1>1. KeyedPcs' BY DEF KeyInv, KeyedPcs, Keyed, KeyOf
<1>2. KeyHasOneOwner'
  BY DEF KeyInv, KeyHasOneOwner, Owns, SameKey, Keyed, KeyOf
<1> QED BY <1>1, <1>2 DEF KeyInv

\* r takes a key that nobody owns, because its row did not say 'pending'.
LEMMA KeyTaken ==
  ASSUME KeyInv, NEW r \in Requests, ClaimKey(r) \/ ReclaimKey(r) \/ GateFails(r), TypeOK'
  PROVE  KeyInv'
<1>0. offer' = offer BY DEF ClaimKey, ReclaimKey, GateFails, TakeKey, storeVars
<1>1. Keyed(r) BY DEF KeyInv, KeyedPcs, ClaimKey, ReclaimKey, GateFails, GatePcs
<1>2. \A q \in Requests \ {r} : pc'[q] = pc[q]
  BY DEF ClaimKey, ReclaimKey, GateFails, TakeKey, Goto, Answer, KeyInv, TypeOK
<1>3. CASE keyStatus' = keyStatus
  <2>1. pc'[r] \in {"conflict", "done"} \/ keyStatus[KeyOf(r)] = "pending"
    BY <1>1, <1>3 DEF ClaimKey, ReclaimKey, GateFails, TakeKey, Goto, Answer, KeyInv, TypeOK, Keyed
  <2>2. keyStatus[KeyOf(r)] = "pending" => pc'[r] \in {"conflict", "done"}
    BY <1>1 DEF ClaimKey, ReclaimKey, GateFails, TakeKey, Goto, Answer, KeyInv, TypeOK, Keyed
  <2>3. pc'[r] \in {"conflict", "done"}
    BY <2>1, <2>2
  <2>4. ~Owns(r)' BY <2>3 DEF Owns, TxPcs, SidePcs
  <2> QED BY <1>0, <1>1, <1>2, <1>3, <2>3, <2>4, KeyFrame
<1>4. CASE keyStatus' # keyStatus
  <2>1. /\ keyStatus[KeyOf(r)] \in {"absent", "failed"}
        /\ keyStatus' = [keyStatus EXCEPT ![KeyOf(r)] = "pending"]
        /\ pc'[r] \in {"lock", "done"}
    BY <1>4 DEF ClaimKey, ReclaimKey, GateFails, TakeKey, Goto, Answer, KeyInv, TypeOK
  <2>2. \A q \in Requests \ {r} : Owns(q)' => Owns(q) /\ ~SameKey(q, r) /\ ~SameKey(r, q)
    BY <1>0, <1>2, <2>1 DEF KeyInv, KeyHasOneOwner, Owns, SameKey, Keyed, KeyOf
  <2>3. \A q \in Requests \ {r} : Owns(q) /\ ~SameKey(r, q) => keyStatus'[KeyOf(q)] = "pending"
    BY <1>1, <2>1 DEF KeyInv, KeyHasOneOwner, Owns, SameKey, Keyed, TypeOK
  <2>4. keyStatus'[KeyOf(r)] = "pending"
    BY <1>1, <2>1 DEF KeyInv, TypeOK, Keyed
  <2>5. KeyHasOneOwner'
    BY <1>0, <2>2, <2>3, <2>4 DEF KeyInv, KeyHasOneOwner, SameKey, Keyed, KeyOf
  <2>6. KeyedPcs'
    BY <1>0, <1>2, <2>1 DEF KeyInv, KeyedPcs, Keyed, KeyOf, GatePcs
  <2> QED BY <2>5, <2>6 DEF KeyInv
<1> QED BY <1>3, <1>4

\* r lets its key go: no other call owned it.
LEMMA KeyReleased ==
  ASSUME KeyInv, NEW r \in Requests, MarkKeyFailed(r) \/ CompleteKey(r), TypeOK'
  PROVE  KeyInv'
<1>0. offer' = offer BY DEF MarkKeyFailed, CompleteKey, storeVars
<1>1. Owns(r)
  BY DEF KeyInv, KeyedPcs, MarkKeyFailed, CompleteKey, Goto, Owns, SidePcs
<1>2. /\ \A q \in Requests \ {r} : pc'[q] = pc[q]
      /\ pc'[r] \in {"auditRejection", "done"}
      /\ \A k \in Keys \ {KeyOf(r)} : keyStatus'[k] = keyStatus[k]
  BY DEF KeyInv, MarkKeyFailed, CompleteKey, Goto, TypeOK
<1>3. ~Owns(r)' BY <1>2 DEF Owns, TxPcs, SidePcs
<1>4. \A q \in Requests \ {r} : Owns(q)' => Owns(q) /\ ~SameKey(q, r) /\ ~SameKey(r, q)
  BY <1>0, <1>1, <1>2 DEF KeyInv, KeyHasOneOwner, Owns, SameKey, Keyed, KeyOf
<1>5. KeyHasOneOwner'
  BY <1>0, <1>2, <1>3, <1>4 DEF KeyInv, KeyHasOneOwner, Owns, SameKey, Keyed, KeyOf
<1>6. KeyedPcs'
  BY <1>0, <1>2 DEF KeyInv, KeyedPcs, Keyed, KeyOf, GatePcs
<1> QED BY <1>5, <1>6 DEF KeyInv

\* Every other step of a call leaves bid_requests alone.
LEMMA KeyKept ==
  ASSUME KeyInv, NEW r \in Requests, CallStep(r) \/ FaultStep(r), TypeOK', offer' = offer,
         ~ClaimKey(r), ~ReclaimKey(r), ~GateFails(r), ~MarkKeyFailed(r), ~CompleteKey(r)
  PROVE  KeyInv'
<1> USE DEF Goto, Answer, Throw
<1>1. keyStatus' = keyStatus /\ \A q \in Requests \ {r} : pc'[q] = pc[q]
  BY DEF KeyInv, TypeOK, CallStep, FaultStep, Gate, Transaction, Aftermath, RejectAmount,
     RejectKey, Admit, ReadKey, LockRow, CheckDuplicate, AdvisoryLock, Cas, Sweep,
     Insert, Resweep, AuditAccepted, Commit, CommitFails, Rollback, StatementFails,
     AuditRejection, Broadcast, Notify, NotifyFails, Crash
<1>2. Keyed(r)' <=> Keyed(r)
  BY DEF Keyed, KeyOf
<1>3. /\ Owns(r)' => Owns(r)
      /\ pc'[r] \in GatePcs \cup {"markFailed", "complete"} => Keyed(r)
  <2> USE <1>2 DEF KeyInv, KeyedPcs, TypeOK, Owns, GatePcs, TxPcs, SidePcs
  <2>1. CASE RejectAmount(r) \/ RejectKey(r) \/ Admit(r) \/ ReadKey(r)
    BY <2>1 DEF RejectAmount, RejectKey, Admit, ReadKey
  <2>2. CASE \/ LockRow(r) \/ CheckDuplicate(r) \/ AdvisoryLock(r) \/ Cas(r) \/ Sweep(r)
             \/ Insert(r) \/ Resweep(r) \/ AuditAccepted(r) \/ StatementFails(r)
    BY <2>2 DEF LockRow, CheckDuplicate, AdvisoryLock, Cas, Sweep, Insert, Resweep,
       AuditAccepted, StatementFails
  <2>3. CASE Commit(r) \/ CommitFails(r) \/ Rollback(r) \/ Crash(r)
    BY <2>3 DEF Commit, CommitFails, Rollback, Crash, AfterFailure, AfterSideEffects
  <2>4. CASE AuditRejection(r) \/ Broadcast(r) \/ Notify(r) \/ NotifyFails(r)
    BY <2>4 DEF AuditRejection, Broadcast, Notify, NotifyFails, AfterSideEffects
  <2> QED BY <2>1, <2>2, <2>3, <2>4 DEF CallStep, FaultStep, Gate, Transaction, Aftermath
<1> QED BY <1>1, <1>3, KeyFrame

LEMMA KeyStep == KeyInv /\ [Next]_vars => KeyInv'
<1> SUFFICES ASSUME KeyInv, [Next]_vars PROVE KeyInv'
  OBVIOUS
<1>1. TypeOK' BY StepType DEF KeyInv
<1>2. offer' = offer BY OfferFixed
<1>3. CASE UNCHANGED vars \/ Environment
  <2>1. UNCHANGED <<keyStatus, pc>>
    BY <1>3 DEF vars, callVars, Environment
  <2> QED BY <1>1, <1>2, <2>1
     DEF KeyInv, KeyedPcs, KeyHasOneOwner, Owns, SameKey, Keyed, KeyOf
<1>4. ASSUME NEW r \in Requests, CallStep(r) \/ FaultStep(r) PROVE KeyInv'
  BY <1>1, <1>2, <1>4, KeyTaken, KeyReleased, KeyKept
<1> QED BY <1>3, <1>4 DEF Next

\* However many retries read 'failed' and reclaim the key at once, one of them
\* gets it, and its row says 'pending' until that call lets it go.
THEOREM KeysHaveOneOwner == Spec => []KeyHasOneOwner
<1>1. Init => KeyInv
  BY InitType DEF Init, KeyInv, KeyedPcs, KeyHasOneOwner, Owns, GatePcs, TxPcs, SidePcs
<1>2. KeyInv => KeyHasOneOwner BY DEF KeyInv
<1> QED BY <1>1, <1>2, KeyStep, PTL DEF Spec

-----------------------------------------------------------------------------
(* Announcements.                                                           *)

\* A call that has been answered 201, or is on its way there, has its row, and
\* no transaction goes on after a failure.
DurableInv ==
  /\ IInv
  /\ \A r \in Requests : ~tx[r].doomed
  /\ \A r \in Requests : pc[r] \in SidePcs \/ result[r] = "accepted" => r \in Placed
  /\ broadcasts \subseteq Placed
  /\ \A job \in queue : job.bid \in Placed

\* No bid row is ever deleted.
LEMMA PlacedGrows ==
  ASSUME IInv, [Next]_vars
  PROVE  Placed \subseteq Placed'
<1>1. CASE UNCHANGED <<status, price, bids, offer>> BY <1>1 DEF Placed
<1>2. ASSUME NEW r \in Requests, pc[r] = "commit", ~tx[r].doomed, Apply(r)
      PROVE  Placed \subseteq Placed'
  BY <1>2, ApplyShape
<1>3. CASE CreateRow \/ OpenDraft \/ EndRow
  BY <1>3 DEF CreateRow, OpenDraft, ActivateRow, EndRow, Placed
<1>4. ASSUME NEW r \in Requests, AwardRow(r) PROVE Placed \subseteq Placed'
  BY <1>4 DEF AwardRow, Top, Placed, IInv, TypeOK, StoreTypeOK
<1> QED BY <1>1, <1>2, <1>3, <1>4, StepShape

\* Without swallowed failures no step lets a transaction go on when aborted.
LEMMA NeverDoomed ==
  ASSUME DurableInv, "swallowed" \notin Faults, NEW r \in Requests, CallStep(r) \/ FaultStep(r)
  PROVE  \A q \in Requests : ~tx'[q].doomed
<1>0. tx \in [Requests -> TxRecords] /\ \A q \in Requests : ~tx[q].doomed
  BY DEF DurableInv, IInv, TypeOK
<1>1. CASE tx' = tx BY <1>0, <1>1
<1>2. CASE EndTx(r) BY <1>0, <1>2 DEF EndTx, NoTx
<1>3. ASSUME NEW kinds, Write(r, kinds) PROVE \A q \in Requests : ~tx'[q].doomed
  BY <1>0, <1>3 DEF Write, TxRecords
<1>4. ASSUME NEW B, tx' = [tx EXCEPT ![r].swept = @ \cup B]
      PROVE  \A q \in Requests : ~tx'[q].doomed
  BY <1>0, <1>4 DEF TxRecords
<1>5. \/ tx' = tx \/ EndTx(r)
      \/ \E kinds \in SUBSET WriteKinds : Write(r, kinds)
      \/ \E B \in SUBSET Requests : tx' = [tx EXCEPT ![r].swept = @ \cup B]
  <2>1. CASE Gate(r) \/ GateFails(r)
    BY <2>1 DEF Gate, RejectAmount, RejectKey, Admit, ClaimKey, ReadKey, ReclaimKey, GateFails
  <2>2. CASE Aftermath(r) \/ NotifyFails(r)
    BY <2>2 DEF Aftermath, MarkKeyFailed, AuditRejection, Broadcast, Notify, NotifyFails,
       CompleteKey
  <2>3. CASE Commit(r) \/ CommitFails(r) \/ Rollback(r) \/ Crash(r)
    BY <2>3 DEF Commit, CommitFails, Rollback, Crash
  <2>4. CASE CheckDuplicate(r) \/ AdvisoryLock(r) \/ StatementFails(r)
    BY <2>4 DEF CheckDuplicate, AdvisoryLock, StatementFails
  <2>5. CASE LockRow(r) \/ Cas(r) \/ Insert(r) \/ AuditAccepted(r)
    BY <1>0, <2>5 DEF LockRow, Cas, Insert, AuditAccepted, WriteKinds
  <2>6. CASE Sweep(r) \/ Resweep(r)
    <3>1. LiveBids(r) \in SUBSET Requests BY DEF LiveBids
    <3> QED BY <2>6, <3>1 DEF Sweep, Resweep
  <2> QED BY <2>1, <2>2, <2>3, <2>4, <2>5, <2>6 DEF CallStep, FaultStep, Transaction
<1> QED BY <1>1, <1>2, <1>3, <1>4, <1>5

\* What one call does to its answer and to what the others hear.
LEMMA AnnounceStep ==
  ASSUME DurableInv, NEW r \in Requests, CallStep(r) \/ FaultStep(r)
  PROVE  /\ \A q \in Requests \ {r} : pc'[q] = pc[q] /\ result'[q] = result[q]
         /\ \/ Commit(r)
            \/ pc'[r] \in SidePcs \/ result'[r] = "accepted" => r \in Placed
         /\ \/ broadcasts' = broadcasts
            \/ broadcasts' = broadcasts \cup {r} /\ r \in Placed
         /\ \/ queue' = queue
            \/ queue' = queue \cup {OutbidJob(r)} /\ r \in Placed
<1>0. /\ pc \in [Requests -> Pcs] /\ result \in [Requests -> Results]
      /\ pc[r] \in SidePcs \/ result[r] = "accepted" => r \in Placed
  BY DEF DurableInv, IInv, TypeOK
<1> USE DEF Goto, Answer, Throw
<1>1. \A q \in Requests \ {r} : pc'[q] = pc[q] /\ result'[q] = result[q]
  <2>1. CASE Gate(r) \/ GateFails(r)
    BY <1>0, <2>1 DEF Gate, RejectAmount, RejectKey, Admit, ClaimKey, ReadKey, ReclaimKey, GateFails
  <2>2. CASE Aftermath(r) \/ NotifyFails(r)
    BY <1>0, <2>2 DEF Aftermath, MarkKeyFailed, AuditRejection, Broadcast, Notify, NotifyFails,
       CompleteKey
  <2>3. CASE Commit(r) \/ CommitFails(r) \/ Rollback(r) \/ Crash(r)
    BY <1>0, <2>3 DEF Commit, CommitFails, Rollback, Crash
  <2>4. CASE LockRow(r) \/ Cas(r) \/ Insert(r) \/ StatementFails(r)
    BY <1>0, <2>4 DEF LockRow, Cas, Insert, StatementFails
  <2>5. CASE CheckDuplicate(r) \/ AdvisoryLock(r) \/ Sweep(r) \/ Resweep(r) \/ AuditAccepted(r)
    BY <1>0, <2>5 DEF CheckDuplicate, AdvisoryLock, Sweep, Resweep, AuditAccepted
  <2> QED BY <2>1, <2>2, <2>3, <2>4, <2>5 DEF CallStep, FaultStep, Transaction
<1>2. Commit(r) \/ (pc'[r] \in SidePcs \/ result'[r] = "accepted" => r \in Placed)
  <2> USE <1>0 DEF SidePcs
  <2>1. CASE Gate(r) \/ GateFails(r)
    BY <2>1 DEF Gate, RejectAmount, RejectKey, Admit, ClaimKey, ReadKey, ReclaimKey, GateFails,
       GatePcs
  <2>2. CASE Aftermath(r) \/ NotifyFails(r)
    BY <2>2 DEF Aftermath, MarkKeyFailed, AuditRejection, Broadcast, Notify, NotifyFails,
       CompleteKey, AfterSideEffects
  <2>3. CASE Commit(r)
    BY <2>3
  <2>4. CASE CommitFails(r) \/ Rollback(r) \/ Crash(r)
    BY <2>4 DEF CommitFails, Rollback, Crash, AfterFailure
  <2>5. CASE LockRow(r)
    <3>1. Verdict(r) # "accepted" BY DEF Verdict
    <3> QED BY <2>5, <3>1 DEF LockRow
  <2>6. CASE Cas(r) \/ Insert(r) \/ StatementFails(r)
    BY <2>6 DEF Cas, Insert, StatementFails
  <2>7. CASE CheckDuplicate(r) \/ AdvisoryLock(r) \/ Sweep(r) \/ Resweep(r) \/ AuditAccepted(r)
    BY <2>7 DEF CheckDuplicate, AdvisoryLock, Sweep, Resweep, AuditAccepted
  <2> QED BY <2>1, <2>2, <2>3, <2>4, <2>5, <2>6, <2>7 DEF CallStep, FaultStep, Transaction
<1>3. CASE Broadcast(r)
  BY <1>0, <1>1, <1>2, <1>3 DEF Broadcast, SidePcs
<1>4. CASE Notify(r) \/ NotifyFails(r)
  BY <1>0, <1>1, <1>2, <1>4 DEF Notify, NotifyFails, SidePcs
<1>5. CASE ~Broadcast(r) /\ ~Notify(r) /\ ~NotifyFails(r)
  <2>1. broadcasts' = broadcasts /\ queue' = queue
    BY <1>5 DEF CallStep, FaultStep, Gate, Transaction, Aftermath, RejectAmount, RejectKey,
       Admit, ClaimKey, ReadKey, ReclaimKey, GateFails, LockRow, CheckDuplicate, AdvisoryLock,
       Cas, Sweep, Insert, Resweep, AuditAccepted, Commit, CommitFails, Rollback,
       StatementFails, MarkKeyFailed, AuditRejection, CompleteKey, Crash, sideVars
  <2> QED BY <1>1, <1>2, <2>1
<1> QED BY <1>3, <1>4, <1>5

LEMMA DurableStep ==
  ASSUME "swallowed" \notin Faults, DurableInv, [Next]_vars
  PROVE  DurableInv'
<1>1. IInv' /\ Placed \subseteq Placed' BY StepInv, PlacedGrows DEF DurableInv
<1>2. CASE UNCHANGED vars \/ Environment
  BY <1>1, <1>2 DEF DurableInv, vars, callVars, sideVars, Environment
<1>3. ASSUME NEW r \in Requests, CallStep(r) \/ FaultStep(r) PROVE DurableInv'
  <2>1. \A q \in Requests : ~tx'[q].doomed BY <1>3, NeverDoomed
  <2>2. Commit(r) => r \in Placed'
    BY ApplyShape DEF Commit, Goto, DurableInv
  <2>3. \A q \in Requests : pc'[q] \in SidePcs \/ result'[q] = "accepted" => q \in Placed'
    BY <1>1, <1>3, <2>2, AnnounceStep DEF DurableInv
  <2>4. broadcasts' \subseteq Placed'
    BY <1>1, <1>3, AnnounceStep DEF DurableInv
  <2>5. \A job \in queue' : job.bid \in Placed'
    BY <1>1, <1>3, AnnounceStep DEF DurableInv, OutbidJob
  <2> QED BY <1>1, <2>1, <2>3, <2>4, <2>5 DEF DurableInv
<1> QED BY <1>2, <1>3 DEF Next

LEMMA Durable == "swallowed" \notin Faults /\ Spec => []DurableInv
<1>1. Init => DurableInv
  BY InitInv DEF Init, DurableInv, NoTx, SidePcs
<1>2. "swallowed" \notin Faults /\ DurableInv /\ [Next]_vars => DurableInv'
  BY DurableStep
<1>3. CASE "swallowed" \notin Faults
  BY <1>1, <1>2, <1>3, PTL DEF Spec
<1> QED BY <1>3

\* As long as no failure inside the transaction is swallowed, an answer 201, a
\* bid_placed event and an outbid job all stand on a committed bid, whatever
\* else fails: lost COMMITs, crashes and queue errors included.
THEOREM NoPhantomBids == "swallowed" \notin Faults /\ Spec => []AcceptedIsDurable
<1>1. DurableInv => AcceptedIsDurable
  BY DEF DurableInv, AcceptedIsDurable, Announced, Placed
<1> QED BY <1>1, Durable, PTL
-----------------------------------------------------------------------------
(* What a key says of its bid.                                              *)

Unbid(k) == \A q \in Placed : KeyOf(q) # k

\* A call that owns its key and has not committed finds the key without a bid:
\* it took the key from a row that was absent or said 'failed'.
Undecided(r) == Keyed(r) /\ pc[r] \in {"lock", "rollback", "markFailed"} \cup TxPcs

KeyOutcome == \A r \in Requests : Undecided(r) => Unbid(KeyOf(r))

OutcomeInv == DurableInv /\ KeyInv /\ OneBidPerKey /\ KeyTellsOutcome /\ KeyOutcome

\* The faults that make a key lie: a bid that is stored although the call failed,
\* and one that is not although the call went on.
KeyFaults == {"commit", "swallowed"}

\* Only COMMIT places a bid, when COMMIT is not lost on the way.
LEMMA PlacedKept ==
  ASSUME IInv, "commit" \notin Faults, [Next]_vars, ~\E r \in Requests : Commit(r)
  PROVE  Placed' = Placed
<1>0. bids \in [Requests -> BidStatus \cup {"none"}]
  BY DEF IInv, TypeOK, StoreTypeOK
<1>1. CASE UNCHANGED vars BY <1>1 DEF vars, storeVars, Placed
<1>2. CASE Environment
  <2>1. CASE CreateRow \/ OpenDraft \/ EndTimePasses \/ EndRow
    BY <2>1 DEF CreateRow, OpenDraft, ActivateRow, EndTimePasses, EndRow, Placed
  <2>2. ASSUME NEW r \in Requests, AwardRow(r) PROVE Placed' = Placed
    BY <1>0, <2>2 DEF AwardRow, Top, Placed
  <2> QED BY <1>2, <2>1, <2>2 DEF Environment
<1>3. ASSUME NEW r \in Requests, CallStep(r) \/ FaultStep(r) PROVE Placed' = Placed
  <2>1. ~Commit(r) /\ ~CommitFails(r)
    BY DEF CommitFails
  <2>2. bids' = bids
    BY <1>3, <2>1 DEF CallStep, FaultStep, Gate, Transaction, Aftermath, RejectAmount, RejectKey,
       Admit, ClaimKey, ReadKey, ReclaimKey, GateFails, LockRow, CheckDuplicate, AdvisoryLock,
       Cas, Sweep, Insert, Resweep, AuditAccepted, Rollback, StatementFails, MarkKeyFailed,
       AuditRejection, Broadcast, Notify, NotifyFails, CompleteKey, Crash, storeVars
  <2> QED BY <2>2 DEF Placed
<1> QED BY <1>1, <1>2, <1>3 DEF Next

\* A step that places no bid, and what it must show of keys and calls.
LEMMA OutcomeFrame ==
  ASSUME OutcomeInv, DurableInv', KeyInv', Placed' = Placed, offer' = offer,
         \A r \in Requests : Undecided(r)' => Undecided(r) \/ Unbid(KeyOf(r)),
         \A k \in Keys :
           \/ keyStatus'[k] \in {keyStatus[k], "pending"}
           \/ keyStatus'[k] = "failed" /\ Unbid(k)
           \/ keyStatus'[k] = "completed" /\ ~Unbid(k)
  PROVE  OutcomeInv'
<1>0. /\ \A r \in Requests : KeyOf(r)' = KeyOf(r) /\ (Keyed(r)' <=> Keyed(r))
      /\ \A r \in Requests : Unbid(KeyOf(r))' <=> Unbid(KeyOf(r))
      /\ Placed \subseteq Requests
  BY DEF KeyOf, Keyed, Unbid, Placed
<1>1. OneBidPerKey' BY <1>0 DEF OutcomeInv, OneBidPerKey, SameKey
<1>2. KeyOutcome' BY <1>0 DEF OutcomeInv, KeyOutcome
<1>3. KeyTellsOutcome'
  <2> SUFFICES ASSUME NEW k \in Keys
               PROVE  /\ keyStatus'[k] = "completed" => ~Unbid(k)
                      /\ keyStatus'[k] \in {"failed", "absent"} => Unbid(k)
    BY <1>0 DEF KeyTellsOutcome, Unbid
  <2>1. /\ keyStatus[k] = "completed" => ~Unbid(k)
        /\ keyStatus[k] \in {"failed", "absent"} => Unbid(k)
    BY DEF OutcomeInv, KeyTellsOutcome, Unbid
  <2> QED BY <2>1
<1> QED BY <1>1, <1>2, <1>3 DEF OutcomeInv

\* COMMIT places the bid of a key that had none, and whose row says 'pending'.
LEMMA OutcomeCommit ==
  ASSUME OutcomeInv, DurableInv', KeyInv', offer' = offer, NEW r \in Requests, Commit(r)
  PROVE  OutcomeInv'
<1>1. /\ pc[r] = "commit" /\ Placed' = Placed \cup {r} /\ keyStatus' = keyStatus
      /\ pc'[r] \in SidePcs \cup {"done"}
      /\ \A q \in Requests \ {r} : pc'[q] = pc[q]
  BY ApplyShape DEF OutcomeInv, DurableInv, IInv, TypeOK, Commit, Goto, AfterSideEffects, SidePcs
<1>2. /\ \A q \in Requests : KeyOf(q)' = KeyOf(q) /\ (Keyed(q)' <=> Keyed(q))
      /\ Placed \subseteq Requests
  BY DEF KeyOf, Keyed, Placed
<1>3. Keyed(r) => Owns(r) /\ Undecided(r)
  BY <1>1 DEF Owns, Undecided, TxPcs
<1>4. Keyed(r) => keyStatus[KeyOf(r)] = "pending" /\ Unbid(KeyOf(r))
  BY <1>3 DEF OutcomeInv, KeyInv, KeyHasOneOwner, KeyOutcome
<1>5. OneBidPerKey'
  BY <1>1, <1>2, <1>4 DEF OutcomeInv, OneBidPerKey, SameKey, Unbid, Keyed
<1>6. KeyTellsOutcome'
  BY <1>1, <1>2, <1>4 DEF OutcomeInv, KeyTellsOutcome, Keyed
<1>7. KeyOutcome'
  <2> SUFFICES ASSUME NEW q \in Requests, Undecided(q)' PROVE Unbid(KeyOf(q))'
    BY DEF KeyOutcome
  <2>1. q # r /\ Undecided(q)
    BY <1>1, <1>2 DEF Undecided, SidePcs, TxPcs
  <2>2. Owns(q) /\ Unbid(KeyOf(q))
    BY <2>1 DEF OutcomeInv, KeyOutcome, Undecided, Owns
  <2>3. KeyOf(r) # KeyOf(q)
    BY <1>3, <2>1, <2>2 DEF OutcomeInv, KeyInv, KeyHasOneOwner, SameKey, Owns, Keyed
  <2> QED BY <1>1, <1>2, <2>2, <2>3 DEF Unbid
<1> QED BY <1>5, <1>6, <1>7 DEF OutcomeInv

\* Any other step of a call.
LEMMA OutcomeCall ==
  ASSUME OutcomeInv, Faults \cap KeyFaults = {}, NEW r \in Requests, CallStep(r) \/ FaultStep(r),
         ~Commit(r), offer' = offer
  PROVE  /\ \A q \in Requests : Undecided(q)' => Undecided(q) \/ Unbid(KeyOf(q))
         /\ \A k \in Keys :
              \/ keyStatus'[k] \in {keyStatus[k], "pending"}
              \/ keyStatus'[k] = "failed" /\ Unbid(k)
              \/ keyStatus'[k] = "completed" /\ ~Unbid(k)
<1>0. /\ pc \in [Requests -> Pcs]
      /\ keyStatus \in [Keys -> {"absent", "pending", "completed", "failed"}]
      /\ \A q \in Requests : Keyed(q)' <=> Keyed(q)
  BY DEF OutcomeInv, KeyInv, TypeOK, Keyed, KeyOf
<1>1. CASE ClaimKey(r) \/ ReclaimKey(r)
  <2>1. Keyed(r) BY <1>1 DEF OutcomeInv, KeyInv, KeyedPcs, GatePcs, ClaimKey, ReclaimKey
  <2>2. /\ \A q \in Requests \ {r} : pc'[q] = pc[q]
        /\ \A k \in Keys : keyStatus'[k] \in {keyStatus[k], "pending"}
        /\ pc'[r] \in {"lock", "conflict", "done"}
        /\ pc'[r] = "lock" => keyStatus[KeyOf(r)] \in {"absent", "failed"}
    BY <1>0, <1>1 DEF ClaimKey, ReclaimKey, TakeKey, Goto, Answer
  <2>3. keyStatus[KeyOf(r)] \in {"absent", "failed"} => Unbid(KeyOf(r))
    BY <2>1 DEF OutcomeInv, KeyTellsOutcome, Keyed, Unbid
  <2>4. Undecided(r)' => pc'[r] = "lock"
    BY <2>2 DEF Undecided, TxPcs
  <2> QED BY <1>0, <2>2, <2>3, <2>4 DEF Undecided
<1>2. CASE MarkKeyFailed(r)
  <2>1. Unbid(KeyOf(r))
    BY <1>2 DEF OutcomeInv, KeyInv, KeyedPcs, KeyOutcome, Undecided, MarkKeyFailed, Goto
  <2>2. /\ \A q \in Requests \ {r} : pc'[q] = pc[q]
        /\ pc'[r] = "auditRejection"
        /\ \A k \in Keys : keyStatus'[k] # keyStatus[k] => k = KeyOf(r) /\ keyStatus'[k] = "failed"
    BY <1>0, <1>2 DEF MarkKeyFailed, Goto
  <2>3. ~Undecided(r)' BY <2>2 DEF Undecided, TxPcs
  <2> QED BY <1>0, <2>1, <2>2, <2>3 DEF Undecided
<1>3. CASE CompleteKey(r)
  <2>1. r \in Placed
    BY <1>3 DEF OutcomeInv, DurableInv, SidePcs, CompleteKey, Goto
  <2>2. /\ \A q \in Requests \ {r} : pc'[q] = pc[q]
        /\ pc'[r] = "done"
        /\ \A k \in Keys : keyStatus'[k] # keyStatus[k] => k = KeyOf(r) /\ keyStatus'[k] = "completed"
    BY <1>0, <1>3 DEF CompleteKey, Goto
  <2>3. ~Undecided(r)' BY <2>2 DEF Undecided, TxPcs
  <2> QED BY <1>0, <2>1, <2>2, <2>3 DEF Undecided, Unbid
<1>4. CASE ~ClaimKey(r) /\ ~ReclaimKey(r) /\ ~MarkKeyFailed(r) /\ ~CompleteKey(r)
  <2> USE DEF Goto, Answer, Throw
  <2>1. ~CommitFails(r) /\ (GateFails(r) => keyStatus' = keyStatus)
    BY DEF CommitFails, GateFails, KeyFaults
  <2>2. keyStatus' = keyStatus /\ \A q \in Requests \ {r} : pc'[q] = pc[q]
    BY <1>0, <1>4, <2>1 DEF CallStep, FaultStep, Gate, Transaction, Aftermath, RejectAmount,
       RejectKey, Admit, ReadKey, GateFails, LockRow, CheckDuplicate, AdvisoryLock, Cas, Sweep,
       Insert, Resweep, AuditAccepted, Rollback, StatementFails,
       AuditRejection, Broadcast, Notify, NotifyFails, Crash
  <2>3. Undecided(r)' => Undecided(r)
    <3> USE <1>0 DEF Undecided, TxPcs, GatePcs
    <3>1. CASE RejectAmount(r) \/ RejectKey(r) \/ Admit(r) \/ ReadKey(r) \/ GateFails(r)
      BY <3>1 DEF RejectAmount, RejectKey, Admit, ReadKey, GateFails
    <3>2. CASE \/ LockRow(r) \/ CheckDuplicate(r) \/ AdvisoryLock(r) \/ Cas(r) \/ Sweep(r)
               \/ Insert(r) \/ Resweep(r) \/ AuditAccepted(r) \/ StatementFails(r)
      BY <3>2 DEF LockRow, CheckDuplicate, AdvisoryLock, Cas, Sweep, Insert, Resweep,
         AuditAccepted, StatementFails
    <3>3. CASE Rollback(r) \/ Crash(r)
      BY <3>3 DEF Rollback, Crash, AfterFailure
    <3>4. CASE AuditRejection(r) \/ Broadcast(r) \/ Notify(r) \/ NotifyFails(r)
      BY <3>4 DEF AuditRejection, Broadcast, Notify, NotifyFails, AfterSideEffects
    <3> QED BY <1>4, <2>1, <3>1, <3>2, <3>3, <3>4 DEF CallStep, FaultStep, Gate, Transaction,
            Aftermath
  <2> QED BY <1>0, <2>2, <2>3 DEF Undecided
<1> QED BY <1>1, <1>2, <1>3, <1>4

LEMMA OutcomeStep ==
  ASSUME Faults \cap KeyFaults = {}, OutcomeInv, [Next]_vars
  PROVE  OutcomeInv'
<1>1. DurableInv' /\ KeyInv' /\ offer' = offer
  BY DurableStep, KeyStep, OfferFixed DEF OutcomeInv, KeyFaults
<1>2. CASE \E r \in Requests : Commit(r) BY <1>1, <1>2, OutcomeCommit
<1>3. CASE ~\E r \in Requests : Commit(r)
  <2>1. Placed' = Placed BY <1>3, PlacedKept DEF OutcomeInv, DurableInv, KeyFaults
  <2>2. CASE UNCHANGED vars \/ Environment
    <3>1. keyStatus' = keyStatus /\ pc' = pc
      BY <2>2 DEF vars, callVars, Environment
    <3>2. \A q \in Requests : Undecided(q)' => Undecided(q)
      BY <1>1, <3>1 DEF Undecided, Keyed, KeyOf
    <3> QED BY <1>1, <2>1, <3>1, <3>2, OutcomeFrame
  <2>3. ASSUME NEW r \in Requests, CallStep(r) \/ FaultStep(r) PROVE OutcomeInv'
    BY <1>1, <1>3, <2>1, <2>3, OutcomeCall, OutcomeFrame
  <2> QED BY <2>2, <2>3 DEF Next
<1> QED BY <1>2, <1>3

LEMMA Outcome == Faults \cap KeyFaults = {} /\ Spec => []OutcomeInv
<1>1. ASSUME Init PROVE OutcomeInv
  <2>1. Placed = {} BY <1>1 DEF Init, StoreInit, Placed
  <2>2. DurableInv BY <1>1, InitInv DEF Init, DurableInv, NoTx, SidePcs
  <2>3. KeyInv
    BY <1>1, InitType DEF Init, KeyInv, KeyedPcs, KeyHasOneOwner, Owns, GatePcs, TxPcs, SidePcs
  <2>4. OneBidPerKey /\ KeyOutcome BY <2>1 DEF OneBidPerKey, KeyOutcome, Unbid
  <2>5. KeyTellsOutcome BY <1>1, <2>1 DEF Init, KeyTellsOutcome
  <2> QED BY <2>2, <2>3, <2>4, <2>5 DEF OutcomeInv
<1>2. CASE Faults \cap KeyFaults = {}
  <2>1. OutcomeInv /\ [Next]_vars => OutcomeInv' BY <1>2, OutcomeStep
  <2> QED BY <1>1, <2>1, PTL DEF Spec
<1> QED BY <1>2

\* As long as no COMMIT is lost and no failure inside the transaction is swallowed,
\* the calls that share a key place one bid, however many retry it and whatever else fails.
THEOREM KeysPlaceOneBid == Faults \cap KeyFaults = {} /\ Spec => []OneBidPerKey
<1>1. OutcomeInv => OneBidPerKey BY DEF OutcomeInv
<1> QED BY <1>1, Outcome, PTL

\* Under the same condition the row of a key tells the truth: 'completed' when its bid
\* was placed, 'failed' only when none was.
THEOREM KeysTellOutcomes == Faults \cap KeyFaults = {} /\ Spec => []KeyTellsOutcome
<1>1. OutcomeInv => KeyTellsOutcome BY DEF OutcomeInv
<1> QED BY <1>1, Outcome, PTL
-----------------------------------------------------------------------------
(* The audit log, when nothing but crashes happens.                         *)

Rows(r) == {e \in events : e.bid = r}

\* The rows a call has when it is answered.
Due(r) ==
  IF result[r] \in {"REQUEST_IN_PROGRESS", "INVALID_IDEMPOTENCY_KEY"} THEN {}
  ELSE IF Keyed(r) /\ result[r] = "INTERNAL" THEN {}
  ELSE IF result[r] = "accepted" THEN {Row(r, "accepted")}
  ELSE IF result[r] = "INVALID_AMOUNT" THEN {Row(r, "rejected_invalid_amount")}
  ELSE {Row(r, OutcomeOf(result[r]))}

\* A call has no row until it commits, is refused or reaches the end of the catch block,
\* and what it throws there is an answer of its own: without failures only the foreign
\* key of the claim makes an INTERNAL, and that one does not pass the catch block.
Audited(r) ==
  /\ pc[r] = "claim" => Keyed(r)
  /\ pc[r] \in {"idle", "lock"} \cup GatePcs \cup TxPcs \cup FailPcs => Rows(r) = {}
  /\ pc[r] \in FailPcs => result[r] \in Rejections \ {"INTERNAL"}
  /\ pc[r] \in SidePcs => result[r] = "accepted" /\ Rows(r) = {Row(r, "accepted")}
  /\ pc[r] = "done" => Rows(r) = Due(r)

AuditInv == DurableInv /\ \A r \in Requests : Audited(r)

LEMMA AuditCall ==
  ASSUME AuditInv, Faults \subseteq {"crash"}, NEW r \in Requests, CallStep(r) \/ FaultStep(r)
  PROVE  /\ \A q \in Requests \ {r} :
              pc'[q] = pc[q] /\ result'[q] = result[q] /\ Rows(q)' = Rows(q)
         /\ Audited(r)'
<1>0. /\ pc \in [Requests -> Pcs] /\ result \in [Requests -> Results]
      /\ DurableInv /\ Audited(r)
  BY DEF AuditInv, DurableInv, IInv, TypeOK
<1>1. \A q \in Requests \ {r} : pc'[q] = pc[q] /\ result'[q] = result[q]
  BY <1>0, AnnounceStep
<1>2. ASSUME NEW outcome, events' = events \cup {Row(r, outcome)}
      PROVE  /\ Rows(r)' = Rows(r) \cup {Row(r, outcome)}
             /\ \A q \in Requests \ {r} : Rows(q)' = Rows(q)
  BY <1>2 DEF Rows, Row
<1>3. /\ events' = events => \A q \in Requests : Rows(q)' = Rows(q)
      /\ Keyed(r)' = Keyed(r)
  BY OfferFixed DEF Rows, Next, Keyed, KeyOf
<1>4. /\ ~MayBeLost /\ ~GateFails(r) /\ ~StatementFails(r) /\ ~CommitFails(r) /\ ~NotifyFails(r)
  BY DEF MayBeLost, GateFails, StatementFails, CommitFails, NotifyFails
<1> USE DEF Goto, Answer, Throw, Audited, GatePcs, TxPcs, FailPcs, SidePcs
<1>5. CASE RejectAmount(r)
  <2>1. events' = events \cup {Row(r, "rejected_invalid_amount")}
    BY <1>4, <1>5 DEF RejectAmount
  <2> QED BY <1>0, <1>1, <1>2, <1>5, <2>1 DEF RejectAmount, Due
<1>6. CASE RejectKey(r) \/ Admit(r) \/ ClaimKey(r) \/ ReadKey(r) \/ ReclaimKey(r)
  BY <1>0, <1>1, <1>3, <1>6 DEF RejectKey, Admit, ClaimKey, ReadKey, ReclaimKey, Due
<1>7. CASE LockRow(r)
  <2>1. Verdict(r) \in (Rejections \ {"INTERNAL"}) \cup {"ok"} BY DEF Verdict, Rejections
  <2> QED BY <1>0, <1>1, <1>3, <1>7, <2>1 DEF LockRow
<1>8. CASE \/ CheckDuplicate(r) \/ AdvisoryLock(r) \/ Cas(r) \/ Sweep(r)
           \/ Insert(r) \/ Resweep(r) \/ AuditAccepted(r)
  <2>1. Insert(r) => ~IndexRefuses(r)
    BY <1>0, SecondGates DEF Insert, SecondGatesIdle, DurableInv
  <2> QED BY <1>0, <1>1, <1>3, <1>8, <2>1 DEF CheckDuplicate, AdvisoryLock, Cas, Sweep, Insert,
          Resweep, AuditAccepted, Rejections
<1>9. CASE Commit(r)
  <2>1. events' = events \cup {Row(r, "accepted")}
    BY <1>0, <1>9, ApplyShape DEF Commit, DurableInv
  <2> QED BY <1>0, <1>1, <1>2, <1>9, <2>1 DEF Commit, AfterSideEffects, Due
<1>10. CASE Rollback(r) \/ MarkKeyFailed(r)
  BY <1>0, <1>1, <1>3, <1>10 DEF Rollback, MarkKeyFailed, AfterFailure
<1>11. CASE AuditRejection(r)
  <2>1. events' = events \cup {Row(r, OutcomeOf(result[r]))}
    BY <1>4, <1>11 DEF AuditRejection
  <2> QED BY <1>0, <1>1, <1>2, <1>11, <2>1 DEF AuditRejection, Due, Rejections
<1>12. CASE Broadcast(r) \/ Notify(r) \/ CompleteKey(r)
  BY <1>0, <1>1, <1>3, <1>12 DEF Broadcast, Notify, CompleteKey, AfterSideEffects, Due
<1>13. CASE Crash(r)
  BY <1>0, <1>1, <1>3, <1>13 DEF Crash
<1> QED BY <1>4, <1>5, <1>6, <1>7, <1>8, <1>9, <1>10, <1>11, <1>12, <1>13
        DEF CallStep, FaultStep, Gate, Transaction, Aftermath

LEMMA AuditStep ==
  ASSUME Faults \subseteq {"crash"}, AuditInv, [Next]_vars
  PROVE  AuditInv'
<1>1. DurableInv' BY DurableStep DEF AuditInv
<1>2. CASE UNCHANGED vars \/ Environment
  <2>1. UNCHANGED <<pc, result, events>> BY <1>2 DEF vars, callVars, Environment
  <2>2. \A r \in Requests : Keyed(r)' = Keyed(r)
    BY OfferFixed DEF Keyed, KeyOf
  <2> QED BY <1>1, <2>1, <2>2 DEF AuditInv, Audited, Rows, Due
<1>3. ASSUME NEW r \in Requests, CallStep(r) \/ FaultStep(r) PROVE AuditInv'
  <2>1. \A q \in Requests : Keyed(q)' = Keyed(q)
    BY OfferFixed DEF Keyed, KeyOf
  <2> QED BY <1>1, <1>3, <2>1, AuditCall DEF AuditInv, Audited, Due
<1> QED BY <1>2, <1>3 DEF Next

\* When nothing but crashes happens, a call that got past its key has the one audit row of
\* its answer, and every other call that is answered has none: one whose key is held or
\* malformed, and one whose key the foreign key refused because there is no such auction.
THEOREM AnswersAreAudited == Faults \subseteq {"crash"} /\ Spec => []AnsweredIsAudited
<1>1. Init => AuditInv
  <2> SUFFICES ASSUME Init PROVE AuditInv
    OBVIOUS
  <2>1. DurableInv BY InitInv DEF Init, DurableInv, NoTx, SidePcs
  <2> QED BY <2>1 DEF Init, AuditInv, Audited, Rows, FailPcs, SidePcs
<1>2. AuditInv => AnsweredIsAudited
  BY DEF AuditInv, Audited, AnsweredIsAudited, Rows, Due
<1>3. CASE Faults \subseteq {"crash"}
  <2>1. AuditInv /\ [Next]_vars => AuditInv' BY <1>3, AuditStep
  <2> QED BY <1>1, <1>2, <2>1, PTL DEF Spec
<1> QED BY <1>3
-----------------------------------------------------------------------------
(* Outbid jobs.                                                             *)

Highest(q, B) == IF B = {} THEN q = NoOne ELSE q \in Top(B)

\* A call that has swept the bids knows the leader it displaces; once its own bid is
\* stored, later bids are higher, and that leader stays the highest below it.
Told(r) ==
  /\ pc[r] \in {"insert", "resweep", "audit", "commit"} => Highest(displaced[r], Placed)
  /\ r \in Placed => pc[r] \in SidePcs \cup Stopped /\ Highest(displaced[r], Lower(r))
  /\ r \in Placed /\ pc[r] \in {"complete", "done"} /\ Displaces(r) => OutbidJob(r) \in queue

ToldInv == DurableInv /\ \A r \in Requests : Told(r)

\* The sweep finds the one live bid, which is the leader.
LEMMA SweepFindsLeader ==
  ASSUME IInv, NEW r \in Requests, Sweep(r)
  PROVE  Highest(displaced'[r], Placed)
<1>1. /\ pc[r] = "sweep" /\ status = "active"
      /\ tx[r].wrote = {"price"} /\ tx[r].swept = {}
  BY DEF IInv, Sweep, Goto, LockHeld, TxWrites, TxPcs
<1>2. LiveBids(r) = LiveRows
  BY <1>1 DEF LiveBids, LiveRows, SeenBid
<1>3. PICK q \in IF LiveBids(r) = {} THEN {NoOne} ELSE Top(LiveBids(r)) : displaced'[r] = q
  BY DEF Sweep, IInv, TypeOK
<1>4. CASE Placed = {}
  <2>1. LiveRows = {} BY <1>4 DEF LiveRows, Placed, Live
  <2> QED BY <1>2, <1>3, <1>4, <2>1 DEF Highest
<1>5. CASE Placed # {}
  <2>1. PICK l \in Placed : /\ Leads(l)
                            /\ \A p \in Placed \ {l} : bids[p] = "outbid" /\ Amount(p) < Amount(l)
    BY <1>5 DEF IInv, PriceMatchesLeader
  <2>2. bids[l] = "winning" /\ l \in Requests
    BY <1>1, <2>1 DEF Leads, IInv, WonOnlyAtEnd, Placed
  <2>3. LiveRows = {l}
    BY <2>1, <2>2 DEF LiveRows, Live, Placed
  <2>4. displaced'[r] = l
    BY <1>2, <1>3, <2>3 DEF Top
  <2>5. \A p \in Placed : Amount(p) <= Amount(l)
    BY <2>1, AmountType DEF IInv, Placed
  <2> QED BY <1>5, <2>4, <2>5 DEF Highest, Top
<1> QED BY <1>4, <1>5

\* Calls whose displaced bid, place in the code and jobs stay as they are.
LEMMA ToldFrame ==
  ASSUME ToldInv, DurableInv', offer' = offer, Placed' = Placed, queue \subseteq queue',
         NEW r \in Requests, displaced'[r] = displaced[r], pc'[r] = pc[r]
  PROVE  Told(r)'
BY DEF ToldInv, Told, Highest, Top, Lower, Displaces, OutbidJob, Amount, Bidder

LEMMA ToldCommit ==
  ASSUME ToldInv, DurableInv', offer' = offer, NEW r \in Requests, Commit(r)
  PROVE  ToldInv'
<1>1. /\ pc[r] = "commit" /\ Placed' = Placed \cup {r} /\ r \notin Placed
      /\ \A q \in Placed : Amount(q) < Amount(r)
      /\ displaced' = displaced /\ queue' = queue
      /\ pc'[r] \in SidePcs \cup {"done"}
      /\ \A q \in Requests \ {r} : pc'[q] = pc[q]
  <2>1. pc[r] = "commit" /\ ~tx[r].doomed /\ Apply(r)
    BY DEF Commit, Goto, ToldInv, DurableInv
  <2>2. \A q \in Placed : Amount(q) <= price /\ price < Amount(r)
    BY <2>1, ApplyShape DEF ToldInv, DurableInv
  <2>3. price \in Nat /\ \A q \in Requests : Amount(q) \in Nat
    BY AmountType DEF ToldInv, DurableInv, IInv, TypeOK, StoreTypeOK
  <2>4. \A q \in Placed : Amount(q) < Amount(r)
    BY <2>2, <2>3 DEF Placed
  <2> QED BY <2>1, <2>4, ApplyShape
          DEF ToldInv, DurableInv, IInv, TypeOK, Commit, Goto, AfterSideEffects, SidePcs, sideVars
<1>2. \A q \in Requests \ {r} : pc[q] \notin TxPcs
  BY <1>1 DEF ToldInv, DurableInv, IInv, LockHeld, TxPcs
<1>3. /\ \A q \in Requests : Amount(q)' = Amount(q) /\ Amount(q) \in Nat
      /\ \A q : Bidder(q)' = Bidder(q)
      /\ \A B : Top(B)' = Top(B)
  BY AmountType DEF Amount, Bidder, Top, ToldInv, DurableInv, IInv
<1>4. \A q \in Placed : Lower(q)' = Lower(q)
  BY <1>1, <1>3 DEF Lower, Placed
<1>5. Lower(r)' = Placed
  BY <1>1, <1>3 DEF Lower, Placed
<1>6. Told(r)'
  <2>1. Highest(displaced[r], Placed) BY <1>1 DEF ToldInv, Told
  <2>2. Highest(displaced[r], Lower(r))' BY <1>1, <1>3, <1>5, <2>1 DEF Highest
  <2>3. pc'[r] = "broadcast"
    BY <1>1 DEF Commit, Goto, ToldInv, DurableInv, IInv, TxWrites, Written, TypeOK
  <2> QED BY <1>1, <2>2, <2>3 DEF Told, SidePcs, Stopped
<1>7. ASSUME NEW q \in Requests \ {r} PROVE Told(q)'
  <2>1. pc'[q] \notin {"insert", "resweep", "audit", "commit"}
    BY <1>1, <1>2 DEF TxPcs
  <2>2. q \in Placed' => q \in Placed BY <1>1
  <2> QED BY <1>1, <1>3, <1>4, <2>1, <2>2 DEF ToldInv, Told, Highest, Displaces, OutbidJob
<1> QED BY <1>6, <1>7 DEF ToldInv

\* Any other step of the call itself.
LEMMA ToldCall ==
  ASSUME ToldInv, DurableInv', offer' = offer, Placed' = Placed,
         "commit" \notin Faults, "queue" \notin Faults,
         NEW r \in Requests, CallStep(r) \/ FaultStep(r), ~Commit(r)
  PROVE  /\ \A q \in Requests \ {r} : pc'[q] = pc[q] /\ displaced'[q] = displaced[q]
         /\ queue \subseteq queue'
         /\ Told(r)'
<1>0. /\ pc \in [Requests -> Pcs] /\ displaced \in [Requests -> Requests \cup {NoOne}]
      /\ IInv /\ Told(r)
  BY DEF ToldInv, DurableInv, IInv, TypeOK
<1>1. \A q \in Requests \ {r} : pc'[q] = pc[q]
  BY AnnounceStep DEF ToldInv
<1>2. /\ \A B : Top(B)' = Top(B)
      /\ Lower(r)' = Lower(r)
      /\ displaced'[r] = displaced[r] => (Displaces(r)' <=> Displaces(r)) /\ OutbidJob(r)' = OutbidJob(r)
  BY DEF Top, Lower, Displaces, OutbidJob, Amount, Bidder
<1>3. ~CommitFails(r) /\ ~NotifyFails(r) BY DEF CommitFails, NotifyFails
<1>4. r \in Placed => pc[r] \in SidePcs \cup Stopped
  BY <1>0 DEF Told
<1> USE DEF Goto, Answer, Throw, Told, Highest
<1>5. CASE Gate(r) \/ GateFails(r)
  BY <1>0, <1>1, <1>2, <1>4, <1>5 DEF Gate, RejectAmount, RejectKey, Admit, ClaimKey, ReadKey,
     ReclaimKey, GateFails, GatePcs, SidePcs, Stopped, sideVars
<1>6. CASE LockRow(r) \/ CheckDuplicate(r) \/ AdvisoryLock(r) \/ Cas(r) \/ StatementFails(r)
  <2>1. CheckDuplicate(r) => pc'[r] # "commit"
    BY <1>0, SecondGates DEF CheckDuplicate, SecondGatesIdle
  <2> QED BY <1>0, <1>1, <1>2, <1>4, <1>6, <2>1 DEF LockRow, CheckDuplicate, AdvisoryLock, Cas,
          StatementFails, SidePcs, Stopped, sideVars
<1>7. CASE Sweep(r)
  BY <1>0, <1>1, <1>2, <1>4, <1>7, SweepFindsLeader DEF Sweep, SidePcs, Stopped, sideVars
<1>8. CASE Insert(r) \/ Resweep(r) \/ AuditAccepted(r) \/ Rollback(r) \/ Crash(r)
  BY <1>0, <1>1, <1>2, <1>4, <1>8 DEF Insert, Resweep, AuditAccepted, Rollback, Crash, AfterFailure,
     SidePcs, Stopped, sideVars
<1>9. CASE MarkKeyFailed(r) \/ AuditRejection(r) \/ Broadcast(r) \/ Notify(r) \/ CompleteKey(r)
  BY <1>0, <1>1, <1>2, <1>4, <1>9 DEF MarkKeyFailed, AuditRejection, Broadcast, Notify, CompleteKey,
     AfterSideEffects, SidePcs, Stopped, sideVars
<1> QED BY <1>3, <1>5, <1>6, <1>7, <1>8, <1>9 DEF CallStep, FaultStep, Transaction, Aftermath

\* The faults after which a bidder may lose the lead and not hear of it.
ToldFaults == {"commit", "swallowed", "queue"}

LEMMA ToldStep ==
  ASSUME Faults \cap ToldFaults = {}, ToldInv, [Next]_vars
  PROVE  ToldInv'
<1>1. DurableInv' /\ offer' = offer
  BY DurableStep, OfferFixed DEF ToldInv, ToldFaults
<1>2. CASE \E r \in Requests : Commit(r) BY <1>1, <1>2, ToldCommit
<1>3. CASE ~\E r \in Requests : Commit(r)
  <2>1. Placed' = Placed BY <1>3, PlacedKept DEF ToldInv, DurableInv, ToldFaults
  <2>2. CASE UNCHANGED vars \/ Environment
    <3>1. UNCHANGED <<pc, displaced, queue>>
      BY <2>2 DEF vars, callVars, sideVars, Environment
    <3> QED BY <1>1, <2>1, <3>1, ToldFrame DEF ToldInv
  <2>3. ASSUME NEW r \in Requests, CallStep(r) \/ FaultStep(r) PROVE ToldInv'
    <3>1. /\ \A q \in Requests \ {r} : pc'[q] = pc[q] /\ displaced'[q] = displaced[q]
          /\ queue \subseteq queue' /\ Told(r)'
      BY <1>1, <1>3, <2>1, <2>3, ToldCall DEF ToldFaults
    <3> QED BY <1>1, <2>1, <3>1, ToldFrame DEF ToldInv
  <2> QED BY <2>2, <2>3 DEF Next
<1> QED BY <1>2, <1>3

\* Unless a COMMIT or an outbid job is lost or a failure swallowed, whoever lost the lead
\* to another bidder has a job on the way once the call that took it is answered.
THEOREM TheDisplacedAreTold == Faults \cap ToldFaults = {} /\ Spec => []DisplacedAreTold
<1>1. Init => ToldInv
  <2> SUFFICES ASSUME Init PROVE ToldInv
    OBVIOUS
  <2>1. DurableInv /\ Placed = {}
    BY InitInv DEF Init, StoreInit, DurableInv, NoTx, SidePcs, Placed
  <2> QED BY <2>1 DEF Init, ToldInv, Told
<1>2. ToldInv => DisplacedAreTold
  <2> SUFFICES ASSUME ToldInv, NEW r \in Placed, pc[r] = "done",
                      NEW q \in Top(Lower(r)), Bidder(q) # Bidder(r)
               PROVE  [to |-> Bidder(q), bid |-> r] \in queue
    BY DEF DisplacedAreTold
  <2>1. r \in Requests /\ Lower(r) \subseteq Placed /\ q \in Lower(r)
    BY DEF Placed, Lower, Top
  <2>2. displaced[r] \in Top(Lower(r))
    BY <2>1 DEF ToldInv, Told, Highest
  <2>3. \A p \in Requests : Amount(p) \in Nat
    BY AmountType DEF ToldInv, DurableInv, IInv
  <2>4. displaced[r] = q
    <3>1. displaced[r] \in Placed /\ q \in Placed /\ Amount(displaced[r]) = Amount(q)
      BY <2>1, <2>2, <2>3 DEF Top, Lower, Placed
    <3> QED BY <3>1 DEF ToldInv, DurableInv, IInv, PriceMatchesLeader
  <2>5. q # NoOne BY <2>1, NoOneAssumption DEF Placed
  <2> QED BY <2>1, <2>4, <2>5 DEF ToldInv, Told, Displaces, OutbidJob
<1>3. CASE Faults \cap ToldFaults = {}
  <2>1. ToldInv /\ [Next]_vars => ToldInv' BY <1>3, ToldStep
  <2> QED BY <1>1, <1>2, <2>1, PTL DEF Spec
<1> QED BY <1>3
=============================================================================
