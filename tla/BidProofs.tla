------------------------------ MODULE BidProofs ------------------------------
(***************************************************************************)
(* The rows of placeBid, for every set of requests, offers and faults:     *)
(* types, the leading bid and its price, the audit rows, and that they go  *)
(* through the states of an ascending auction.                             *)
(***************************************************************************)
EXTENDS BidRefinement, TLAPS

-----------------------------------------------------------------------------
(* Types.                                                                   *)

LEMMA VerdictType == \A r \in Requests : Verdict(r) \in Results \cup {"ok"}
BY DEF Verdict, Results, Rejections

LEMMA OutcomeType == \A code : OutcomeOf(code) \in Outcomes \ {"accepted"}
BY DEF OutcomeOf, Outcomes

LEMMA SeenBidType ==
  ASSUME TypeOK, NEW r \in Requests, NEW q \in Requests
  PROVE  SeenBid(r, q) \in BidStatus \cup {"none"}
BY DEF SeenBid, TypeOK, StoreTypeOK, BidStatus

LEMMA AmountType ==
  ASSUME TypeOK, NEW r \in Requests
  PROVE  Amount(r) \in Nat /\ Bidder(r) \in Users
BY OffersAssumption DEF Amount, Bidder, TypeOK, StoreTypeOK

LEMMA EndTxType ==
  ASSUME TypeOK, NEW r \in Requests, EndTx(r)
  PROVE  /\ tx' \in [Requests -> TxRecords]
         /\ rowLock' \in Requests \cup {NoOne}
         /\ advLock' \in Requests \cup {NoOne}
BY DEF EndTx, TypeOK, StoreTypeOK, NoTx, TxRecords

LEMMA WriteType ==
  ASSUME TypeOK, NEW r \in Requests, NEW kinds \in SUBSET WriteKinds, Write(r, kinds)
  PROVE  tx' \in [Requests -> TxRecords]
<1>1. tx[r] \in TxRecords BY DEF TypeOK
<1>2. tx[r].wrote \cup kinds \in SUBSET WriteKinds BY <1>1 DEF TxRecords
<1>3. [tx[r] EXCEPT !.wrote = @ \cup kinds] \in TxRecords BY <1>1, <1>2 DEF TxRecords
<1> QED BY <1>3 DEF Write, TypeOK

LEMMA DoomType ==
  ASSUME TypeOK, NEW r \in Requests, tx' = [tx EXCEPT ![r].doomed = TRUE]
  PROVE  tx' \in [Requests -> TxRecords]
BY DEF TypeOK, TxRecords

LEMMA SweepType ==
  ASSUME TypeOK, NEW r \in Requests, NEW B \in SUBSET Requests,
         tx' = [tx EXCEPT ![r].swept = @ \cup B]
  PROVE  tx' \in [Requests -> TxRecords]
BY DEF TypeOK, TxRecords

LEMMA ApplyType ==
  ASSUME TypeOK, NEW r \in Requests, Apply(r)
  PROVE  /\ status' \in AuctionStatus
         /\ endPassed' \in BOOLEAN
         /\ price' \in Nat
         /\ bids' \in [Requests -> BidStatus \cup {"none"}]
         /\ offer' \in [Requests -> Offers]
         /\ events' \subseteq AuditRows
BY SeenBidType, AmountType
DEF Apply, TypeOK, StoreTypeOK, AuctionStatus, SeenPrice, TxEvents, Row, AuditRows, Outcomes

\* The gate and the aftermath touch no transaction and no auction row.
LEMMA GateType ==
  ASSUME TypeOK, NEW r \in Requests, Gate(r) \/ GateFails(r)
  PROVE  TypeOK'
<1> USE DEF TypeOK, StoreTypeOK, storeVars, sideVars, Goto, Answer, Results, Refusals,
            Rejections, Pcs, GatePcs, Stopped
<1>1. CASE RejectAmount(r)
  BY <1>1 DEF RejectAmount, Row, AuditRows, Outcomes
<1>2. CASE RejectKey(r) BY <1>2 DEF RejectKey
<1>3. CASE Admit(r) BY <1>3 DEF Admit
<1>4. CASE ClaimKey(r) BY <1>4 DEF ClaimKey, TakeKey
<1>5. CASE ReadKey(r) BY <1>5 DEF ReadKey
<1>6. CASE ReclaimKey(r) BY <1>6 DEF ReclaimKey, TakeKey
<1>7. CASE GateFails(r) BY <1>7 DEF GateFails, TakeKey
<1> QED BY <1>1, <1>2, <1>3, <1>4, <1>5, <1>6, <1>7 DEF Gate

LEMMA AftermathType ==
  ASSUME TypeOK, NEW r \in Requests, Aftermath(r) \/ NotifyFails(r)
  PROVE  TypeOK'
<1> USE DEF TypeOK, StoreTypeOK, storeVars, sideVars, Goto, Answer, Results, Rejections,
            Pcs, FailPcs, SidePcs, Stopped, AfterSideEffects
<1>1. CASE MarkKeyFailed(r) BY <1>1 DEF MarkKeyFailed
<1>2. CASE AuditRejection(r)
  BY <1>2, OutcomeType DEF AuditRejection, Row, AuditRows
<1>3. CASE Broadcast(r) BY <1>3 DEF Broadcast, Displaces
<1>4. ASSUME pc[r] = "notify" PROVE OutbidJob(r) \in OutbidJobs
  BY <1>4, AmountType DEF OutbidJob, OutbidJobs
<1>5. CASE Notify(r) BY <1>4, <1>5 DEF Notify
<1>6. CASE NotifyFails(r) BY <1>4, <1>6 DEF NotifyFails
<1>7. CASE CompleteKey(r) BY <1>7 DEF CompleteKey
<1> QED BY <1>1, <1>2, <1>3, <1>5, <1>6, <1>7 DEF Aftermath

LEMMA TransactionType ==
  ASSUME TypeOK, NEW r \in Requests,
         Transaction(r) \/ StatementFails(r) \/ CommitFails(r) \/ Crash(r)
  PROVE  TypeOK'
<1> USE DEF TypeOK, StoreTypeOK, storeVars, sideVars, Goto, Throw, Results, Rejections,
            Pcs, TxPcs, FailPcs, SidePcs, Stopped
<1>a. ASSUME NEW kinds, kinds \in SUBSET WriteKinds, Write(r, kinds)
      PROVE  tx' \in [Requests -> TxRecords]
  BY <1>a, WriteType
<1>1. CASE LockRow(r)
  <2>1. tx' \in [Requests -> TxRecords]
    BY <1>1, <1>a DEF LockRow, WriteKinds
  <2>2. Verdict(r) # "ok" => Verdict(r) \in Results
    BY VerdictType
  <2> QED BY <1>1, <2>1, <2>2 DEF LockRow
<1>2. CASE CheckDuplicate(r) BY <1>2 DEF CheckDuplicate
<1>3. CASE AdvisoryLock(r) BY <1>3 DEF AdvisoryLock
<1>4. CASE Cas(r)
  <2>1. tx' \in [Requests -> TxRecords]
    BY <1>4, <1>a DEF Cas, WriteKinds
  <2> QED BY <1>4, <2>1 DEF Cas
<1>5. CASE Sweep(r)
  <2>a. LiveBids(r) \in SUBSET Requests BY DEF LiveBids
  <2>1. tx' \in [Requests -> TxRecords]
    BY <1>5, <2>a, SweepType DEF Sweep
  <2> QED BY <1>5, <2>1 DEF Sweep, LiveBids, Top
<1>6. CASE Insert(r)
  <2>1. tx' \in [Requests -> TxRecords]
    BY <1>6, <1>a DEF Insert, WriteKinds
  <2> QED BY <1>6, <2>1 DEF Insert
<1>7. CASE Resweep(r)
  <2>a. LiveBids(r) \ {r} \in SUBSET Requests BY DEF LiveBids
  <2>1. tx' \in [Requests -> TxRecords]
    BY <1>7, <2>a, SweepType, DoomType DEF Resweep
  <2> QED BY <1>7, <2>1 DEF Resweep
<1>8. CASE AuditAccepted(r)
  <2>1. tx' \in [Requests -> TxRecords]
    BY <1>8, <1>a, DoomType DEF AuditAccepted, WriteKinds
  <2> QED BY <1>8, <2>1 DEF AuditAccepted
<1>9. CASE Commit(r)
  <2>1. /\ tx' \in [Requests -> TxRecords]
        /\ rowLock' \in Requests \cup {NoOne}
        /\ advLock' \in Requests \cup {NoOne}
    BY <1>9, EndTxType DEF Commit
  <2>2. StoreTypeOK' /\ events' \subseteq AuditRows
    BY <1>9, <2>1, ApplyType DEF Commit, Discard
  <2> QED BY <1>9, <2>1, <2>2 DEF Commit, AfterSideEffects
<1>10. CASE CommitFails(r)
  <2>1. /\ tx' \in [Requests -> TxRecords]
        /\ rowLock' \in Requests \cup {NoOne}
        /\ advLock' \in Requests \cup {NoOne}
    BY <1>10, EndTxType DEF CommitFails
  <2>2. StoreTypeOK' /\ events' \subseteq AuditRows
    BY <1>10, <2>1, ApplyType DEF CommitFails, Discard
  <2> QED BY <1>10, <2>1, <2>2 DEF CommitFails, AfterFailure
<1>11. CASE StatementFails(r) BY <1>11 DEF StatementFails
<1>12. CASE Rollback(r)
  BY <1>12, EndTxType DEF Rollback, AfterFailure
<1>13. CASE Crash(r)
  BY <1>13, EndTxType DEF Crash
<1> QED BY <1>1, <1>2, <1>3, <1>4, <1>5, <1>6, <1>7, <1>8, <1>9, <1>10, <1>11, <1>12,
           <1>13 DEF Transaction

LEMMA EnvironmentType == TypeOK /\ Environment => TypeOK'
<1> SUFFICES ASSUME TypeOK, Environment PROVE TypeOK'
  OBVIOUS
<1> USE DEF TypeOK, StoreTypeOK, AuctionStatus, BidStatus, callVars, sideVars, Environment
<1>1. CASE CreateRow BY <1>1 DEF CreateRow
<1>2. CASE OpenDraft BY <1>2 DEF OpenDraft, ActivateRow
<1>3. CASE EndTimePasses BY <1>3 DEF EndTimePasses
<1>4. CASE EndRow BY <1>4 DEF EndRow
<1>5. ASSUME NEW r \in Requests, AwardRow(r) PROVE TypeOK'
  BY <1>5 DEF AwardRow
<1> QED BY <1>1, <1>2, <1>3, <1>4, <1>5

LEMMA InitType == Init => TypeOK
<1> SUFFICES ASSUME Init PROVE TypeOK
  OBVIOUS
<1>1. StoreTypeOK
  BY PriceAssumption DEF Init, StoreInit, StoreTypeOK, AuctionStatus
<1>2. tx \in [Requests -> TxRecords]
  BY DEF Init, NoTx, TxRecords
<1> QED BY <1>1, <1>2 DEF Init, TypeOK, Pcs, Results

LEMMA StepType == TypeOK /\ [Next]_vars => TypeOK'
<1> SUFFICES ASSUME TypeOK, [Next]_vars PROVE TypeOK'
  OBVIOUS
<1>1. CASE UNCHANGED vars
  BY <1>1 DEF vars, storeVars, callVars, sideVars, TypeOK, StoreTypeOK
<1>2. CASE Environment BY <1>2, EnvironmentType
<1>3. ASSUME NEW r \in Requests, CallStep(r) \/ FaultStep(r) PROVE TypeOK'
  BY <1>3, GateType, AftermathType, TransactionType DEF CallStep, FaultStep
<1> QED BY <1>1, <1>2, <1>3 DEF Next

\* Every reachable state is well typed: the rows, the locks, every call's
\* program counter and transaction, and what the other bidders are sent.
THEOREM TypeCorrect == Spec => []TypeOK
BY InitType, StepType, PTL DEF Spec

-----------------------------------------------------------------------------
(* The price of an auction belongs to its leading bid, and every bid row has *)
(* its audit row.  IInv is inductive: each lemma takes one group of steps.   *)

\* The committed rows that the invariant speaks of, and the audit rows.
SameRows ==
  /\ UNCHANGED <<status, price, bids, offer>>
  /\ \A q \in Requests : Row(q, "accepted") \in events' <=> Row(q, "accepted") \in events

LEMMA RowsFrame ==
  ASSUME IInv, SameRows
  PROVE  /\ WonOnlyAtEnd' /\ PriceMatchesLeader' /\ AuditAtomic'
         /\ LiveRows' = LiveRows
         /\ \A q \in Requests : Amount(q)' = Amount(q) /\ Bidder(q)' = Bidder(q)
<1> USE DEF SameRows
<1>1. WonOnlyAtEnd' BY DEF IInv, WonOnlyAtEnd
<1>2. PriceMatchesLeader'
  BY DEF IInv, PriceMatchesLeader, Placed, Leads, Amount, Bidder
<1>3. AuditAtomic' BY DEF IInv, AuditAtomic, Row
<1>4. LiveRows' = LiveRows BY DEF LiveRows
<1> QED BY <1>1, <1>2, <1>3, <1>4 DEF Amount, Bidder

\* An audit row of an outcome other than 'accepted' leaves the rows alone.
LEMMA OtherOutcome ==
  ASSUME NEW r \in Requests, NEW o, o # "accepted", events' = events \cup {Row(r, o)}
  PROVE  \A q \in Requests : Row(q, "accepted") \in events' <=> Row(q, "accepted") \in events
BY DEF Row

\* Calls outside a transaction: nothing written, no row, and no lock needed.
Outside == {"idle", "lock"} \cup GatePcs

LEMMA GateInv ==
  ASSUME IInv, NEW r \in Requests, Gate(r) \/ GateFails(r)
  PROVE  IInv'
<1>1. SameRows /\ UNCHANGED <<rowLock, tx>>
  <2> USE DEF SameRows, storeVars
  <2>1. CASE RejectAmount(r)
    BY <2>1, OtherOutcome DEF RejectAmount
  <2> QED BY <2>1
     DEF Gate, RejectKey, Admit, ClaimKey, ReadKey, ReclaimKey, GateFails
<1>2. /\ pc[r] \in {"idle"} \cup GatePcs
      /\ pc'[r] \in {"lock", "done"} \cup GatePcs
      /\ \A q \in Requests \ {r} : pc'[q] = pc[q]
  BY DEF IInv, TypeOK, Gate, RejectAmount, RejectKey, Admit, ClaimKey, ReadKey, ReclaimKey,
     GateFails, Goto, Answer, GatePcs
<1>3. TypeOK' BY GateType DEF IInv
<1>4. LockHeld'
  BY <1>1, <1>2, RowsFrame DEF IInv, LockHeld, SameRows, TxPcs, GatePcs
<1>5. TxWrites'
  BY <1>1, <1>2, RowsFrame DEF IInv, TxWrites, Written, TxPcs, GatePcs
<1>6. NothingYet'
  BY <1>1, <1>2 DEF IInv, NothingYet, SameRows, TxPcs, GatePcs
<1> QED BY <1>1, <1>3, <1>4, <1>5, <1>6, RowsFrame DEF IInv

LEMMA AftermathInv ==
  ASSUME IInv, NEW r \in Requests, Aftermath(r) \/ NotifyFails(r)
  PROVE  IInv'
<1>1. SameRows /\ UNCHANGED <<rowLock, tx>>
  <2> USE DEF SameRows, storeVars
  <2>1. CASE AuditRejection(r)
    BY <2>1, OtherOutcome, OutcomeType DEF AuditRejection
  <2> QED BY <2>1 DEF Aftermath, MarkKeyFailed, Broadcast, Notify, NotifyFails, CompleteKey,
     sideVars
<1>2. /\ pc[r] \in {"markFailed", "auditRejection"} \cup SidePcs
      /\ pc'[r] \in {"auditRejection", "done"} \cup SidePcs
      /\ \A q \in Requests \ {r} : pc'[q] = pc[q]
  BY DEF IInv, TypeOK, Aftermath, MarkKeyFailed, AuditRejection, Broadcast, Notify,
     NotifyFails, CompleteKey, Goto, Answer, AfterSideEffects, SidePcs
<1>3. TypeOK' BY AftermathType DEF IInv
<1>4. LockHeld'
  BY <1>1, <1>2, RowsFrame DEF IInv, LockHeld, SameRows, TxPcs, SidePcs
<1>5. TxWrites'
  BY <1>1, <1>2, RowsFrame DEF IInv, TxWrites, Written, TxPcs, SidePcs
<1>6. NothingYet'
  BY <1>1, <1>2 DEF IInv, NothingYet, SameRows, TxPcs, GatePcs, SidePcs
<1> QED BY <1>1, <1>3, <1>4, <1>5, <1>6, RowsFrame DEF IInv

-----------------------------------------------------------------------------
(* Inside the transaction.                                                  *)

\* A bid that is still 'winning' is the leader and stands at the price.
LEMMA WinningLeads ==
  ASSUME IInv, NEW q \in Requests, bids[q] = "winning"
  PROVE  Amount(q) = price
BY DEF IInv, PriceMatchesLeader, Placed, Leads

\* The duplicate check, the CAS and the unique index never refuse a bid: the
\* checks under the row lock have already refused what they would refuse.
LEMMA SecondGates == IInv => SecondGatesIdle
<1> SUFFICES ASSUME IInv, NEW r \in Requests
             PROVE  /\ pc[r] = "dup" => Duplicates(r) = {}
                    /\ pc[r] = "cas" => CasMatches(r)
                    /\ pc[r] = "insert" => ~IndexRefuses(r)
  BY DEF SecondGatesIdle
<1>0. pc[r] \in TxPcs => rowLock = r /\ status = "active" /\ price < Amount(r)
  BY DEF IInv, LockHeld
<1>1. ASSUME pc[r] = "dup" PROVE Duplicates(r) = {}
  <2>1. tx[r] = NoTx /\ price < Amount(r)
    BY <1>0, <1>1 DEF IInv, TxWrites, TxPcs
  <2>2. ASSUME NEW q \in Duplicates(r) PROVE FALSE
    <3>1. bids[q] = "winning" /\ Amount(q) = Amount(r)
      BY <2>1, <2>2 DEF Duplicates, SeenBid, NoTx
    <3>2. Amount(q) = price
      BY <3>1, <2>2, WinningLeads DEF Duplicates
    <3> QED BY <3>1, <3>2, <2>1, AmountType DEF IInv, TypeOK, StoreTypeOK
  <2> QED BY <2>2
<1>2. ASSUME pc[r] = "cas" PROVE CasMatches(r)
  BY <1>0, <1>2 DEF IInv, TxWrites, TxPcs, CasMatches, SeenPrice, NoTx
<1>3. ASSUME pc[r] = "insert" PROVE ~IndexRefuses(r)
  BY <1>3 DEF IInv, TxWrites, TxPcs, Written, IndexRefuses, SeenBid, LiveRows, Live
<1> QED BY <1>1, <1>2, <1>3

\* A step of r inside the transaction, or into the rollback: the rows stay, and
\* what is left to show concerns r alone.
LEMMA TxStepFrame ==
  ASSUME IInv, NEW r \in Requests, SameRows, TypeOK',
         pc[r] \in {"lock", "rollback"} \cup TxPcs,
         pc'[r] \in {"rollback"} \cup TxPcs,
         \A q \in Requests \ {r} : pc'[q] = pc[q] /\ tx'[q] = tx[q],
         pc'[r] \in TxPcs =>
           rowLock' = r /\ status = "active" /\ price < Amount(r) /\ Bidder(r) # Seller,
         \A q \in Requests \ {r} : rowLock = q => rowLock' = q,
         /\ pc'[r] \in {"dup", "advisory", "cas"} => tx'[r] = NoTx
         /\ pc'[r] = "sweep" => tx'[r].wrote = {"price"} /\ tx'[r].swept = {} /\ ~tx'[r].doomed
         /\ pc'[r] = "insert" =>
              tx'[r].wrote = {"price"} /\ tx'[r].swept = LiveRows /\ ~tx'[r].doomed
         /\ pc'[r] = "resweep" =>
              tx'[r].wrote = {"price", "bid"} /\ tx'[r].swept = LiveRows /\ ~tx'[r].doomed
         /\ pc'[r] = "audit" => tx'[r].wrote = {"price", "bid"} /\ tx'[r].swept = LiveRows
         /\ pc'[r] = "commit" =>
              /\ tx'[r].swept = LiveRows
              /\ \/ tx'[r].wrote = {"price", "bid", "accepted"}
                 \/ tx'[r].wrote = {"price", "bid"} /\ tx'[r].doomed
  PROVE  IInv'
<1>1. LockHeld'
  BY RowsFrame DEF IInv, LockHeld, SameRows
<1>2. TxWrites'
  BY RowsFrame DEF IInv, TxWrites, Written, TxPcs
<1>3. NothingYet'
  BY DEF IInv, NothingYet, SameRows
<1> QED BY <1>1, <1>2, <1>3, RowsFrame DEF IInv

LEMMA TxStepInv ==
  ASSUME IInv, NEW r \in Requests,
         \/ LockRow(r) \/ CheckDuplicate(r) \/ AdvisoryLock(r) \/ Cas(r) \/ Sweep(r)
         \/ Insert(r) \/ Resweep(r) \/ AuditAccepted(r) \/ StatementFails(r)
  PROVE  IInv'
<1>0. TypeOK' BY TransactionType DEF IInv, Transaction
<1>t. pc \in [Requests -> Pcs] /\ tx \in [Requests -> TxRecords] /\ tx[r] \in TxRecords
  BY DEF IInv, TypeOK
<1>h. pc[r] \in TxPcs => rowLock = r /\ status = "active" /\ price < Amount(r) /\ Bidder(r) # Seller
  BY DEF IInv, LockHeld
<1>w. /\ pc[r] \in {"dup", "advisory", "cas"} => tx[r] = NoTx
      /\ pc[r] = "sweep" => tx[r].wrote = {"price"} /\ tx[r].swept = {} /\ ~tx[r].doomed
      /\ pc[r] = "insert" => Written(r, {"price"}) /\ ~tx[r].doomed
      /\ pc[r] = "resweep" => Written(r, {"price", "bid"}) /\ ~tx[r].doomed
      /\ pc[r] = "audit" => Written(r, {"price", "bid"})
  BY DEF IInv, TxWrites
<1>g. /\ pc[r] = "dup" => Duplicates(r) = {}
      /\ pc[r] = "cas" => CasMatches(r)
      /\ pc[r] = "insert" => ~IndexRefuses(r)
  BY SecondGates DEF SecondGatesIdle
<1> USE DEF SameRows, storeVars, Goto, TxPcs
<1>1. CASE LockRow(r)
  <2>1. SameRows BY <1>1 DEF LockRow
  <2>2. CASE Verdict(r) = "ok"
    <3>1. status = "active" /\ price < Amount(r) /\ Bidder(r) # Seller
      BY <2>2, AmountType DEF Verdict, IInv, TypeOK, StoreTypeOK
    <3>2. tx[r] = NoTx
      BY <1>1 DEF LockRow, IInv, TxWrites
    <3> QED BY <1>0, <1>1, <1>t, <2>1, <2>2, <3>1, <3>2, TxStepFrame, NoOneAssumption
       DEF LockRow, RowFreeFor
  <2>3. CASE Verdict(r) # "ok"
    <3>1. /\ pc'[r] = "rollback"
          /\ \A q \in Requests \ {r} : pc'[q] = pc[q] /\ tx'[q] = tx[q]
          /\ \A q \in Requests \ {r} : rowLock # q
      BY <1>1, <1>t, <2>3, NoOneAssumption DEF LockRow, RowFreeFor, Throw, Write
    <3> QED BY <1>0, <1>1, <2>1, <3>1, TxStepFrame DEF LockRow
  <2> QED BY <2>2, <2>3
<1>2. CASE CheckDuplicate(r)
  BY <1>0, <1>2, <1>t, <1>h, <1>w, <1>g, TxStepFrame DEF CheckDuplicate
<1>3. CASE AdvisoryLock(r)
  BY <1>0, <1>3, <1>t, <1>h, <1>w, TxStepFrame DEF AdvisoryLock
<1>4. CASE Cas(r)
  BY <1>0, <1>4, <1>t, <1>h, <1>w, <1>g, TxStepFrame DEF Cas, Write, NoTx
<1>5. CASE Sweep(r)
  <2>1. LiveBids(r) = LiveRows
    BY <1>5, <1>w DEF Sweep, LiveBids, LiveRows, SeenBid
  <2>2. tx'[r] = [tx[r] EXCEPT !.swept = LiveRows]
    BY <1>5, <1>t, <1>w, <2>1 DEF Sweep
  <2> QED BY <1>0, <1>5, <1>t, <1>h, <1>w, <2>2, TxStepFrame DEF Sweep, TxRecords
<1>6. CASE Insert(r)
  BY <1>0, <1>6, <1>t, <1>h, <1>w, <1>g, TxStepFrame DEF Insert, Write, Written, TxRecords
<1>7. CASE Resweep(r)
  <2>1. LiveBids(r) \ {r} = {}
    BY <1>7, <1>w DEF Resweep, LiveBids, LiveRows, SeenBid, Written, Live
  <2>2. tx'[r].wrote = {"price", "bid"} /\ tx'[r].swept = LiveRows
    <3>1. \/ tx'[r] = [tx[r] EXCEPT !.swept = @ \cup {}]
          \/ tx'[r] = [tx[r] EXCEPT !.doomed = TRUE]
      BY <1>7, <1>t, <2>1 DEF Resweep
    <3> QED BY <1>7, <1>t, <1>w, <3>1 DEF Resweep, Written, TxRecords
  <2> QED BY <1>0, <1>7, <1>t, <1>h, <2>2, TxStepFrame DEF Resweep
<1>8. CASE AuditAccepted(r)
  <2>1. /\ tx'[r].swept = LiveRows
        /\ \/ tx'[r].wrote = {"price", "bid", "accepted"}
           \/ tx'[r].wrote = {"price", "bid"} /\ tx'[r].doomed
    BY <1>8, <1>t, <1>w DEF AuditAccepted, Write, Written, TxRecords
  <2>2. \A q \in Requests \ {r} : tx'[q] = tx[q]
    BY <1>8, <1>t DEF AuditAccepted, Write
  <2> QED BY <1>0, <1>8, <1>t, <1>h, <2>1, <2>2, TxStepFrame DEF AuditAccepted
<1>9. CASE StatementFails(r)
  BY <1>0, <1>9, <1>t, TxStepFrame DEF StatementFails, Throw
<1> QED BY <1>1, <1>2, <1>3, <1>4, <1>5, <1>6, <1>7, <1>8, <1>9

-----------------------------------------------------------------------------
(* The end of the transaction.                                              *)

\* A transaction that ends without a visible write.
LEMMA LeaveInv ==
  ASSUME IInv, NEW r \in Requests, SameRows, TypeOK', EndTx(r),
         pc'[r] \notin {"idle", "lock", "rollback"} \cup GatePcs \cup TxPcs,
         \A q \in Requests \ {r} : pc'[q] = pc[q]
  PROVE  IInv'
<1>1. /\ tx'[r] = NoTx
      /\ \A q \in Requests \ {r} : tx'[q] = tx[q] /\ (rowLock = q => rowLock' = q)
  BY DEF EndTx, IInv, TypeOK
<1>2. LockHeld'
  BY <1>1, RowsFrame DEF IInv, LockHeld, SameRows
<1>3. TxWrites'
  BY <1>1, RowsFrame DEF IInv, TxWrites, Written, TxPcs
<1>4. NothingYet'
  BY DEF IInv, NothingYet, SameRows
<1> QED BY <1>2, <1>3, <1>4, RowsFrame DEF IInv

LEMMA DiscardInv ==
  ASSUME IInv, NEW r \in Requests,
         \/ Rollback(r) \/ Crash(r)
         \/ (Commit(r) \/ CommitFails(r)) /\ Discard
  PROVE  IInv'
<1>1. TypeOK' BY TransactionType DEF IInv, Transaction
<1>2. SameRows /\ EndTx(r)
  BY DEF Rollback, Crash, Commit, CommitFails, Discard, SameRows
<1>3. /\ pc'[r] \in {"markFailed", "auditRejection", "crashed", "broadcast", "complete", "done"}
      /\ \A q \in Requests \ {r} : pc'[q] = pc[q]
  BY DEF IInv, TypeOK, Rollback, Crash, Commit, CommitFails, Goto, AfterFailure,
     AfterSideEffects
<1> QED BY <1>1, <1>2, <1>3, LeaveInv DEF GatePcs, TxPcs

\* COMMIT makes the new bid the leader: at its pc the transaction has swept
\* every live row, and the lock has kept the price below its amount.
LEMMA ApplyShape ==
  ASSUME IInv, NEW r \in Requests, pc[r] = "commit", ~tx[r].doomed, Apply(r)
  PROVE  /\ rowLock = r /\ status = "active" /\ status' = "active"
         /\ price < Amount(r) /\ price' = Amount(r)
         /\ offer' = offer
         /\ r \notin Placed /\ Placed' = Placed \cup {r} /\ Bidder(r) # Seller
         /\ bids'[r] = "winning"
         /\ \A q \in Placed : bids'[q] = "outbid" /\ Amount(q) <= price
         /\ \A q \in Requests \ {r} : bids[q] = "none" => bids'[q] = "none"
         /\ events' = events \cup {Row(r, "accepted")}
<1>1. /\ rowLock = r /\ status = "active" /\ price < Amount(r) /\ Bidder(r) # Seller
      /\ bids[r] = "none"
      /\ Written(r, {"price", "bid", "accepted"})
  BY DEF IInv, LockHeld, NothingYet, TxWrites, TxPcs
<1>2. /\ status' = "active" /\ price' = Amount(r) /\ offer' = offer
      /\ bids' = [q \in Requests |-> IF q \in LiveRows THEN "outbid"
                                   ELSE IF q = r THEN "winning" ELSE bids[q]]
      /\ events' = events \cup {Row(r, "accepted")}
  BY <1>1 DEF Apply, Written, SeenPrice, SeenBid, TxEvents
<1>3. (\A q \in Requests : Amount(q) \in Nat) /\ price \in Nat
  BY AmountType DEF IInv, TypeOK, StoreTypeOK
<1>4. r \notin LiveRows BY <1>1 DEF LiveRows, Live
<1>5. Placed' = Placed \cup {r} /\ bids'[r] = "winning" /\ r \notin Placed
  BY <1>1, <1>2, <1>4 DEF Placed, LiveRows, Live
<1>6. \A q \in Placed : bids'[q] = "outbid" /\ Amount(q) <= price
  <2> SUFFICES ASSUME NEW q \in Placed PROVE bids'[q] = "outbid" /\ Amount(q) <= price
    OBVIOUS
  <2>1. bids[q] # "won" BY <1>1 DEF IInv, WonOnlyAtEnd, Placed
  <2>2. PICK l \in Placed : Leads(l) /\ \A p \in Placed \ {l} :
          bids[p] = "outbid" /\ Amount(p) < Amount(l)
    BY DEF IInv, PriceMatchesLeader
  <2>3. bids[q] \in {"winning", "outbid"} /\ Amount(q) <= price
    BY <2>1, <2>2, <1>3 DEF Leads, Placed
  <2> QED BY <1>2, <1>5, <2>3 DEF Placed, LiveRows, Live
<1>7. \A q \in Requests \ {r} : bids[q] = "none" => bids'[q] = "none"
  BY <1>2 DEF LiveRows, Live
<1> QED BY <1>1, <1>2, <1>5, <1>6, <1>7

LEMMA ApplyInv ==
  ASSUME IInv, NEW r \in Requests, pc[r] = "commit", ~tx[r].doomed, Apply(r), EndTx(r),
         TypeOK',
         pc'[r] \notin {"idle", "lock", "rollback"} \cup GatePcs \cup TxPcs,
         \A q \in Requests \ {r} : pc'[q] = pc[q]
  PROVE  IInv'
<1>1. /\ rowLock = r /\ status = "active" /\ status' = "active"
      /\ price < Amount(r) /\ price' = Amount(r) /\ Bidder(r) # Seller
      /\ events' = events \cup {Row(r, "accepted")}
  BY ApplyShape
<1>2. /\ \A q \in Requests : Amount(q)' = Amount(q) /\ Bidder(q)' = Bidder(q)
      /\ \A q \in Requests : Amount(q) \in Nat
      /\ price \in Nat /\ StartingPrice \in Nat
  BY ApplyShape, AmountType, PriceAssumption DEF Amount, Bidder, IInv, TypeOK, StoreTypeOK
<1>3. Placed' = Placed \cup {r} /\ bids'[r] = "winning" /\ r \notin Placed
  BY ApplyShape
<1>4. \A q \in Placed : bids'[q] = "outbid" /\ Amount(q) <= price
  BY ApplyShape
<1>5. PriceMatchesLeader'
  <2>1. /\ Leads(r)'
        /\ \A q \in Placed' \ {r} : bids'[q] = "outbid" /\ Amount(q)' < Amount(r)'
    BY <1>1, <1>2, <1>3, <1>4 DEF Leads, Placed
  <2>2. \A p, q \in Placed' : p # q => Amount(p)' # Amount(q)'
    BY <1>1, <1>2, <1>3, <1>4 DEF IInv, PriceMatchesLeader, Placed
  <2>3. StartingPrice <= price
    BY <1>2 DEF IInv, PriceMatchesLeader, Leads, Placed
  <2>4. \A q \in Placed' : Amount(q)' > StartingPrice /\ Bidder(q)' # Seller
    BY <1>1, <1>2, <1>3, <2>3 DEF IInv, PriceMatchesLeader, Placed
  <2> QED BY <1>3, <2>1, <2>2, <2>4 DEF PriceMatchesLeader
<1>6. AuditAtomic'
  <2>1. \A q \in Requests : Row(q, "accepted") = Row(r, "accepted") <=> q = r
    BY DEF Row
  <2>2. \A q \in Requests : bids'[q] # "none" <=> (q = r \/ bids[q] # "none")
    BY <1>3 DEF Placed
  <2> QED BY <1>1, <2>1, <2>2 DEF IInv, AuditAtomic, Row
<1>7. /\ tx'[r] = NoTx
      /\ \A q \in Requests \ {r} : tx'[q] = tx[q] /\ pc[q] \notin TxPcs
  BY <1>1 DEF EndTx, IInv, TypeOK, LockHeld
<1>8. LockHeld' BY <1>7 DEF LockHeld
<1>9. TxWrites' BY <1>7 DEF TxWrites, IInv, TxPcs
<1>10. NothingYet'
  <2>1. \A q \in Requests \ {r} : bids[q] = "none" => bids'[q] = "none"
    BY ApplyShape
  <2>2. \A q \in Requests \ {r} : Row(q, "accepted") \in events' => Row(q, "accepted") \in events
    BY <1>1 DEF Row
  <2> QED BY <2>1, <2>2 DEF NothingYet, IInv
<1>11. WonOnlyAtEnd'
  BY <1>3, <1>4, ApplyShape DEF WonOnlyAtEnd, IInv, Placed
<1> QED BY <1>5, <1>6, <1>8, <1>9, <1>10, <1>11 DEF IInv

LEMMA CommitInv ==
  ASSUME IInv, NEW r \in Requests, Commit(r) \/ CommitFails(r)
  PROVE  IInv'
<1>1. CASE Discard BY <1>1, DiscardInv
<1>2. CASE ~Discard
  <2>1. pc[r] = "commit" /\ ~tx[r].doomed /\ Apply(r) /\ EndTx(r)
    BY <1>2 DEF Commit, CommitFails, Goto
  <2>2. TypeOK' BY TransactionType DEF IInv, Transaction
  <2>3. /\ pc'[r] \in {"broadcast", "complete", "done", "markFailed", "auditRejection"}
        /\ \A q \in Requests \ {r} : pc'[q] = pc[q]
    BY DEF IInv, TypeOK, Commit, CommitFails, Goto, AfterFailure, AfterSideEffects
  <2> QED BY <2>1, <2>2, <2>3, ApplyInv DEF GatePcs, TxPcs
<1> QED BY <1>1, <1>2

-----------------------------------------------------------------------------
(* The other parts of the system.                                           *)

LEMMA AwardInv ==
  ASSUME IInv, NEW r \in Requests, AwardRow(r), TypeOK',
         UNCHANGED <<keyStatus, events, advLock, callVars, sideVars>>
  PROVE  IInv'
<1>1. /\ status = "ended" /\ status' = status /\ price' = price /\ offer' = offer
      /\ bids' = [bids EXCEPT ![r] = "won"] /\ events' = events
      /\ pc' = pc /\ tx' = tx
      /\ r \in Placed /\ \A q \in Placed : Amount(q) <= Amount(r)
  BY DEF AwardRow, Top, callVars
<1>2. /\ \A q \in Requests : Amount(q)' = Amount(q) /\ Bidder(q)' = Bidder(q)
      /\ \A q \in Requests : Amount(q) \in Nat
  BY <1>1, AmountType DEF Amount, Bidder, IInv
<1>3. Placed' = Placed BY <1>1 DEF Placed, IInv, TypeOK, StoreTypeOK
<1>4. \A q \in Requests : pc[q] \notin TxPcs BY <1>1 DEF IInv, LockHeld
<1>5. /\ Leads(r) /\ bids'[r] = "won"
      /\ \A q \in Placed \ {r} : bids'[q] = "outbid" /\ Amount(q) < Amount(r)
  <2>1. PICK l \in Placed : Leads(l) /\ \A q \in Placed \ {l} :
          bids[q] = "outbid" /\ Amount(q) < Amount(l)
    BY <1>1 DEF IInv, PriceMatchesLeader
  <2>2. l = r BY <1>1, <1>2, <2>1 DEF Placed
  <2> QED BY <1>1, <2>1, <2>2 DEF IInv, TypeOK, StoreTypeOK, Placed
<1>6. PriceMatchesLeader'
  BY <1>1, <1>2, <1>3, <1>5 DEF IInv, PriceMatchesLeader, Leads, Placed
<1>7. AuditAtomic'
  <2>1. \A q \in Requests : bids'[q] # "none" <=> bids[q] # "none"
    BY <1>3 DEF Placed
  <2> QED BY <1>1, <2>1 DEF IInv, AuditAtomic, Row
<1>8. LockHeld' /\ TxWrites' /\ WonOnlyAtEnd'
  BY <1>1, <1>4 DEF IInv, LockHeld, TxWrites, WonOnlyAtEnd, TxPcs
<1>9. NothingYet'
  BY <1>1, <1>3 DEF IInv, NothingYet, Placed, Row
<1> QED BY <1>6, <1>7, <1>8, <1>9 DEF IInv

LEMMA EnvironmentInv == IInv /\ Environment => IInv'
<1> SUFFICES ASSUME IInv, Environment PROVE IInv'
  OBVIOUS
<1>1. TypeOK' BY EnvironmentType DEF IInv
<1>2. ASSUME NEW r \in Requests, AwardRow(r) PROVE IInv'
  BY <1>1, <1>2, AwardInv DEF Environment
<1>3. CASE CreateRow \/ OpenDraft \/ EndTimePasses \/ EndRow
  <2>1. /\ UNCHANGED <<price, bids, offer, rowLock, pc, tx, events>>
        /\ status # "ended" \/ status' = status
        /\ \A q \in Requests : pc[q] \in TxPcs => status' = "active"
    BY <1>3, NoOneAssumption
       DEF Environment, callVars, CreateRow, OpenDraft, ActivateRow, EndTimePasses, EndRow, IInv,
           LockHeld
  <2>2. LockHeld' /\ NothingYet'
    BY <2>1 DEF IInv, LockHeld, NothingYet, Amount, Bidder, Row
  <2>3. TxWrites'
    BY <2>1 DEF IInv, TxWrites, Written, LiveRows
  <2>4. WonOnlyAtEnd'
    BY <2>1 DEF IInv, WonOnlyAtEnd
  <2>5. PriceMatchesLeader'
    BY <2>1 DEF IInv, PriceMatchesLeader, Placed, Leads, Amount, Bidder
  <2>6. AuditAtomic'
    BY <2>1 DEF IInv, AuditAtomic, Row
  <2> QED BY <1>1, <2>2, <2>3, <2>4, <2>5, <2>6 DEF IInv
<1> QED BY <1>2, <1>3 DEF Environment

-----------------------------------------------------------------------------
LEMMA InitInv == Init => IInv
<1> SUFFICES ASSUME Init PROVE IInv
  OBVIOUS
<1>1. TypeOK BY InitType
<1>2. Placed = {} BY DEF Init, StoreInit, Placed
<1> QED BY <1>1, <1>2
   DEF Init, StoreInit, IInv, LockHeld, TxWrites, NothingYet, WonOnlyAtEnd,
       PriceMatchesLeader, AuditAtomic, TxPcs, GatePcs

LEMMA StepInv == IInv /\ [Next]_vars => IInv'
<1> SUFFICES ASSUME IInv, [Next]_vars PROVE IInv'
  OBVIOUS
<1>1. CASE UNCHANGED vars
  <2>1. SameRows /\ UNCHANGED <<pc, tx, rowLock>> /\ TypeOK'
    BY <1>1, StepType DEF vars, storeVars, callVars, SameRows, IInv
  <2>2. LockHeld' /\ TxWrites' /\ NothingYet'
    BY <2>1, RowsFrame DEF IInv, LockHeld, TxWrites, NothingYet, Written, SameRows
  <2> QED BY <2>1, <2>2, RowsFrame DEF IInv
<1>2. CASE Environment BY <1>2, EnvironmentInv
<1>3. ASSUME NEW r \in Requests, CallStep(r) \/ FaultStep(r) PROVE IInv'
  BY <1>3, GateInv, AftermathInv, TxStepInv, CommitInv, DiscardInv
     DEF CallStep, FaultStep, Transaction
<1> QED BY <1>1, <1>2, <1>3 DEF Next

\* What a step of a call does to the rows: nothing, or the COMMIT of its bid.
LEMMA CallShape ==
  ASSUME NEW r \in Requests, CallStep(r) \/ FaultStep(r)
  PROVE  \/ UNCHANGED <<status, price, bids, offer>>
         \/ pc[r] = "commit" /\ ~tx[r].doomed /\ Apply(r)
<1> USE DEF storeVars
<1>1. CASE Gate(r) \/ GateFails(r)
  BY <1>1 DEF Gate, RejectAmount, RejectKey, Admit, ClaimKey, ReadKey, ReclaimKey, GateFails
<1>2. CASE Aftermath(r) \/ NotifyFails(r)
  BY <1>2 DEF Aftermath, MarkKeyFailed, AuditRejection, Broadcast, Notify, NotifyFails,
     CompleteKey
<1>3. CASE Commit(r) \/ CommitFails(r)
  BY <1>3 DEF Commit, CommitFails, Goto, Discard
<1>4. CASE Rollback(r) \/ Crash(r)
  BY <1>4 DEF Rollback, Crash
<1>5. CASE \/ LockRow(r) \/ CheckDuplicate(r) \/ AdvisoryLock(r) \/ Cas(r) \/ Sweep(r)
           \/ Insert(r) \/ Resweep(r) \/ AuditAccepted(r) \/ StatementFails(r)
  BY <1>5 DEF LockRow, CheckDuplicate, AdvisoryLock, Cas, Sweep, Insert, Resweep,
     AuditAccepted, StatementFails
<1> QED BY <1>1, <1>2, <1>3, <1>4, <1>5 DEF CallStep, FaultStep, Transaction

\* What any step does to the rows: that, or an autocommitted statement of another
\* part of the system.
LEMMA StepShape ==
  ASSUME IInv, [Next]_vars
  PROVE  \/ UNCHANGED <<status, price, bids, offer>>
         \/ \E r \in Requests : pc[r] = "commit" /\ ~tx[r].doomed /\ Apply(r)
         \/ CreateRow \/ OpenDraft \/ EndRow
         \/ \E r \in Requests : AwardRow(r)
<1>1. CASE UNCHANGED vars BY <1>1 DEF vars, storeVars
<1>2. CASE Environment BY <1>2 DEF Environment, EndTimePasses
<1>3. CASE \E r \in Requests : CallStep(r) \/ FaultStep(r) BY <1>3, CallShape
<1> QED BY <1>1, <1>2, <1>3 DEF Next

LEMMA Invariant == Spec => []IInv
BY InitInv, StepInv, PTL DEF Spec

\* At every moment exactly one bid leads an auction that has bids, it stands at
\* the auction's price, and every other bid was outbid below it: one winner,
\* however many calls race, fail half way or die.
THEOREM OneLeader == Spec => []PriceMatchesLeader
<1>1. IInv => PriceMatchesLeader BY DEF IInv
<1> QED BY <1>1, Invariant, PTL

\* A bid row is visible if and only if its 'accepted' audit row is.
THEOREM AuditIsAtomic == Spec => []AuditAtomic
<1>1. IInv => AuditAtomic BY DEF IInv
<1> QED BY <1>1, Invariant, PTL

\* The row lock alone decides: the duplicate check, the CAS and the unique
\* index never turn a bid away.
THEOREM LockDecides == Spec => []SecondGatesIdle
BY Invariant, SecondGates, PTL

\* The price only rises, each time to the amount of the bid that takes the
\* lead, only while the auction is active, and no bid returns from 'outbid'.
THEOREM PriceOnlyClimbs == Spec => BidsOnlyClimb
<1> DEFINE Climb ==
      /\ price' >= price
      /\ price' # price => \E r \in Placed' \ Placed : price' = Amount(r)
      /\ \A r \in Placed' \ Placed : status = "active" /\ price < Amount(r)
      /\ \A r \in Placed : bids[r] = "outbid" => bids'[r] = "outbid"
<1>1. IInv /\ [Next]_vars => [Climb]_vars
  <2> SUFFICES ASSUME IInv, [Next]_vars PROVE Climb
    OBVIOUS
  <2>0. price \in Nat /\ \A r \in Requests : Amount(r) \in Nat
    BY AmountType DEF IInv, TypeOK, StoreTypeOK
  <2>1. CASE UNCHANGED <<status, price, bids, offer>>
    BY <2>0, <2>1 DEF Placed
  <2>2. ASSUME NEW r \in Requests, pc[r] = "commit", ~tx[r].doomed, Apply(r) PROVE Climb
    BY <2>0, <2>2, ApplyShape
  <2>3. CASE CreateRow \/ OpenDraft \/ EndRow
    BY <2>0, <2>3 DEF CreateRow, OpenDraft, ActivateRow, EndRow, Placed
  <2>4. ASSUME NEW r \in Requests, AwardRow(r) PROVE Climb
    <3>1. PICK l \in Placed : Leads(l) /\ \A q \in Placed \ {l} : Amount(q) < Amount(l)
      BY <2>4 DEF IInv, PriceMatchesLeader, AwardRow, Top
    <3>2. bids[r] # "outbid"
      BY <2>0, <2>4, <3>1 DEF AwardRow, Top, Leads, Placed
    <3>3. price' = price /\ bids' = [bids EXCEPT ![r] = "won"] /\ r \in Placed
      BY <2>4 DEF AwardRow, Top
    <3>4. Placed' = Placed
      BY <3>3 DEF Placed, IInv, TypeOK, StoreTypeOK
    <3>5. \A q \in Placed : bids[q] = "outbid" => bids'[q] = "outbid"
      BY <3>2, <3>3 DEF Placed, IInv, TypeOK, StoreTypeOK
    <3> QED BY <2>0, <3>3, <3>4, <3>5
  <2> QED BY <2>1, <2>2, <2>3, <2>4, StepShape
<1> QED BY <1>1, Invariant, PTL DEF Spec, BidsOnlyClimb

-----------------------------------------------------------------------------
(* The ascending auction: initial states map to initial states, and every   *)
(* step to a step of the auction or a stutter.                              *)

\* The leader the mapping picks is the only bid that leads.
LEMMA LeaderIs ==
  ASSUME PriceMatchesLeader, NEW r \in Placed, bids[r] \in {"winning", "won"}
  PROVE  Leader = r
<1>1. PICK l \in Placed : \A q \in Placed \ {l} : bids[q] = "outbid"
  BY DEF PriceMatchesLeader
<1>2. \A q \in Placed : bids[q] \in {"winning", "won"} <=> q = r
  BY <1>1
<1> QED BY <1>2 DEF Leader

LEMMA StartMaps == Init => Ascending!Start
<1> SUFFICES ASSUME Init PROVE Ascending!Start
  OBVIOUS
<1>1. IInv /\ Placed = {}
  BY InitInv DEF Init, StoreInit, Placed
<1>2. Phase \in {"new", "open"} BY DEF Init, StoreInit, Phase
<1>3. [r \in Requests |-> Amount(r)] \in [Requests -> Nat]
  BY <1>1, AmountType DEF IInv
<1>4. price = StartingPrice BY DEF Init, StoreInit
<1>5. Leader = NoOne BY <1>1 DEF Leader
<1>6. Winner = NoOne BY <1>1 DEF Winner
<1> QED BY <1>1, <1>2, <1>3, <1>4, <1>5, <1>6 DEF Ascending!Start

LEMMA StepMaps ==
  ASSUME IInv, IInv', [Next]_vars
  PROVE  [Ascending!AuctionNext]_(Ascending!auctionVars)
<1>0. /\ PriceMatchesLeader /\ PriceMatchesLeader'
      /\ WonOnlyAtEnd /\ WonOnlyAtEnd'
  BY DEF IInv
<1>1. CASE UNCHANGED <<status, price, bids, offer>>
  <2>1. Phase' = Phase BY <1>1 DEF Phase
  <2>2. [r \in Requests |-> Amount(r)]' = [r \in Requests |-> Amount(r)]
    BY <1>1 DEF Amount
  <2>3. Placed' = Placed BY <1>1 DEF Placed
  <2>4. Leader' = Leader BY <1>1, <2>3 DEF Leader
  <2>5. Winner' = Winner BY <1>1, <2>3 DEF Winner
  <2> QED BY <1>1, <2>1, <2>2, <2>3, <2>4, <2>5 DEF Ascending!auctionVars
<1>2. ASSUME NEW r \in Requests, pc[r] = "commit", ~tx[r].doomed, Apply(r)
      PROVE  Ascending!Take(r)
  <2>1. /\ status = "active" /\ status' = "active" /\ offer' = offer
        /\ price < Amount(r) /\ price' = Amount(r)
        /\ r \notin Placed /\ Placed' = Placed \cup {r} /\ bids'[r] = "winning"
    BY <1>2, ApplyShape
  <2>2. Phase = "open" /\ Phase' = "open" BY <2>1 DEF Phase
  <2>3. [q \in Requests |-> Amount(q)]' = [q \in Requests |-> Amount(q)]
    BY <2>1 DEF Amount
  <2>4. Leader' = r
    <3>1. \A q \in Placed' : bids'[q] \in {"winning", "won"} <=> q = r
      BY <1>0, <2>1 DEF PriceMatchesLeader
    <3> QED BY <2>1, <3>1 DEF Leader
  <2>5. Winner = NoOne /\ Winner' = NoOne
    <3>1. \A q \in Requests : bids[q] # "won" /\ bids'[q] # "won"
      BY <1>0, <2>1 DEF WonOnlyAtEnd
    <3> QED BY <3>1 DEF Winner, Placed
  <2>6. [q \in Requests |-> Amount(q)][r] > price
    BY <2>1, AmountType DEF IInv, TypeOK, StoreTypeOK
  <2>7. price' = [q \in Requests |-> Amount(q)][r] BY <2>1
  <2> QED BY <2>1, <2>2, <2>3, <2>4, <2>5, <2>6, <2>7 DEF Ascending!Take
<1>3. CASE CreateRow \/ OpenDraft \/ EndRow
  <2>1. UNCHANGED <<price, bids, offer>>
    BY <1>3 DEF CreateRow, OpenDraft, ActivateRow, EndRow
  <2>2. [r \in Requests |-> Amount(r)]' = [r \in Requests |-> Amount(r)]
    BY <2>1 DEF Amount
  <2>3. Placed' = Placed BY <2>1 DEF Placed
  <2>4. Leader' = Leader BY <2>1, <2>3 DEF Leader
  <2>5. Winner' = Winner BY <2>1, <2>3 DEF Winner
  <2>6. \/ Phase' = Phase
        \/ Phase = "new" /\ Phase' = "open"
        \/ Phase = "open" /\ Phase' = "closed"
    BY <1>3 DEF CreateRow, OpenDraft, ActivateRow, EndRow, Phase
  <2> QED BY <2>1, <2>2, <2>3, <2>4, <2>5, <2>6
     DEF Ascending!auctionVars, Ascending!AuctionNext, Ascending!Open, Ascending!Close
<1>4. ASSUME NEW r \in Requests, AwardRow(r) PROVE Ascending!Award
  <2>1. /\ status = "ended" /\ status' = status /\ price' = price /\ offer' = offer
        /\ bids' = [bids EXCEPT ![r] = "won"] /\ r \in Placed
        /\ \A q \in Placed : Amount(q) <= Amount(r)
    BY <1>4 DEF AwardRow, Top
  <2>2. Phase = "closed" /\ Phase' = "closed" BY <2>1 DEF Phase
  <2>3. [q \in Requests |-> Amount(q)]' = [q \in Requests |-> Amount(q)]
    BY <2>1 DEF Amount
  <2>4. Placed' = Placed /\ bids'[r] = "won"
    BY <2>1 DEF Placed, IInv, TypeOK, StoreTypeOK
  <2>5. bids[r] \in {"winning", "won"}
    <3>1. PICK l \in Placed : Leads(l) /\ \A q \in Placed \ {l} : Amount(q) < Amount(l)
      BY <1>0, <2>1 DEF PriceMatchesLeader
    <3>2. l = r
      BY <2>1, <3>1, AmountType DEF IInv, Placed
    <3> QED BY <3>1, <3>2 DEF Leads
  <2>6. Leader = r BY <1>0, <2>1, <2>5, LeaderIs
  <2>7. Leader' = r /\ Winner' = r
    <3>1. \A q \in Placed' : /\ bids'[q] \in {"winning", "won"} <=> q = r
                             /\ bids'[q] = "won" <=> q = r
      BY <1>0, <2>1, <2>4 DEF PriceMatchesLeader
    <3> QED BY <2>1, <2>4, <3>1 DEF Leader, Winner
  <2>8. r # NoOne BY NoOneAssumption DEF Placed
  <2> QED BY <2>1, <2>2, <2>3, <2>4, <2>6, <2>7, <2>8 DEF Ascending!Award
<1> QED BY <1>1, <1>2, <1>3, <1>4, StepShape DEF Ascending!AuctionNext

\* Whatever calls race, whichever statement fails and whenever a process dies,
\* the committed rows go through the states of an ascending auction.
THEOREM BidServiceIsAnEnglishAuction == Spec => ImplementsEnglishAuction
<1>1. Init => Ascending!Start BY StartMaps
<1>2. IInv /\ IInv' /\ [Next]_vars => [Ascending!AuctionNext]_(Ascending!auctionVars)
  BY StepMaps
<1> QED BY <1>1, <1>2, Invariant, PTL
   DEF Spec, ImplementsEnglishAuction, Ascending!AuctionSpec
=============================================================================
