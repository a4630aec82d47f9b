----------------------- MODULE DeploymentEscrowProofs -----------------------
(***************************************************************************)
(* Proofs about the DeploymentEscrow contract: IInv is inductive, so the   *)
(* contract is solvent, a stream's money is conserved and a provider draws *)
(* exactly what the rate allows, for any accounts, ids, amounts and rates. *)
(***************************************************************************)
EXTENDS DeploymentEscrow, TotalsProofs, TLAPS

\* The fee of a payment is a part of it.
LEMMA FeeRange ==
    ASSUME NEW amount \in Nat
    PROVE  Fee(amount) \in Nat /\ Fee(amount) <= amount
BY SMT DEF Fee, FEE_BPS, BPS_DENOM

\* The upfront part of a deposit is a part of it.
LEMMA UpfrontRange ==
    ASSUME NEW amount \in Nat
    PROVE  Upfront(amount) \in Nat /\ Upfront(amount) <= amount
BY SMT DEF Upfront, UPFRONT_BPS, BPS_DENOM

\* What the contract owes is a function into the natural numbers.
LEMMA HeldType ==
    ASSUME TypeOK
    PROVE  EscrowHeld \in [SessionId -> Nat] /\ SessionHeld \in [SessionId -> Nat]
BY DEF TypeOK, Escrow, Session, EscrowHeld, SessionHeld

\* A step that changes one escrow changes the total of the escrows by the difference.
LEMMA EscrowTotalStep ==
    ASSUME TypeOK, TypeOK', NEW id \in SessionId,
           \A j \in SessionId \ {id} : escrows'[j] = escrows[j]
    PROVE  Total(EscrowHeld)' = Total(EscrowHeld) - EscrowHeld[id] + EscrowHeld'[id]
<1>1. EscrowHeld \in [SessionId -> Nat] /\ EscrowHeld' \in [SessionId -> Nat]
  BY HeldType DEF TypeOK, Escrow, EscrowHeld
<1>2. \A j \in SessionId \ {id} : EscrowHeld'[j] = EscrowHeld[j]
  BY DEF EscrowHeld
<1>3. IsFiniteSet(SessionId)
  BY EscrowAssumptions
<1>4. Total(EscrowHeld') = Total(EscrowHeld) - EscrowHeld[id] + EscrowHeld'[id]
  <2> HIDE DEF EscrowHeld
  <2> QED BY <1>1, <1>2, <1>3, TotalUpdate, SMT
<1>5. Total(EscrowHeld)' = Total(EscrowHeld')
  BY DEF Total, Units
<1>6. QED
  BY <1>4, <1>5, Zenon

\* The same for one streaming session.
LEMMA SessionTotalStep ==
    ASSUME TypeOK, TypeOK', NEW id \in SessionId,
           \A j \in SessionId \ {id} : sessions'[j] = sessions[j]
    PROVE  Total(SessionHeld)' = Total(SessionHeld) - SessionHeld[id] + SessionHeld'[id]
<1>1. SessionHeld \in [SessionId -> Nat] /\ SessionHeld' \in [SessionId -> Nat]
  BY HeldType DEF TypeOK, Session, SessionHeld
<1>2. \A j \in SessionId \ {id} : SessionHeld'[j] = SessionHeld[j]
  BY DEF SessionHeld
<1>3. IsFiniteSet(SessionId)
  BY EscrowAssumptions
<1>4. Total(SessionHeld') = Total(SessionHeld) - SessionHeld[id] + SessionHeld'[id]
  <2> HIDE DEF SessionHeld
  <2> QED BY <1>1, <1>2, <1>3, TotalUpdate, SMT
<1>5. Total(SessionHeld)' = Total(SessionHeld')
  BY DEF Total, Units
<1>6. QED
  BY <1>4, <1>5, Zenon

\* The totals are natural numbers, and are those of the escrows and the
\* sessions alone.
LEMMA TotalsType ==
    ASSUME TypeOK
    PROVE  Total(EscrowHeld) \in Nat /\ Total(SessionHeld) \in Nat
BY HeldType, EscrowAssumptions, TotalNat, SMT

LEMMA TotalsUnchanged ==
    /\ UNCHANGED escrows => Total(EscrowHeld)' = Total(EscrowHeld)
    /\ UNCHANGED sessions => Total(SessionHeld)' = Total(SessionHeld)
BY DEF Total, Units, EscrowHeld, SessionHeld

\* Time and rate: what accrues in two consecutive intervals accrues in both together.
LEMMA AccrualAdds ==
    ASSUME NEW r \in Nat, NEW s \in Nat, NEW l \in Nat, NEW t \in Nat
    PROVE  (l - s) * r + (t - l) * r = (t - s) * r
BY SMT

\* Accrual over an interval is a natural number.
LEMMA AccrualNat ==
    ASSUME NEW r \in Nat, NEW l \in Nat, NEW t \in Nat, l <= t
    PROVE  (t - l) * r \in Nat
<1>1. ASSUME NEW x \in Nat PROVE x * r \in Nat
  BY SMT
<1>2. t - l \in Nat
  BY SMT
<1>3. QED
  BY <1>1, <1>2

\* What is pending for a session is a part of what remains of it.
LEMMA PendingRange ==
    ASSUME TypeOK, StreamClock, NEW id \in SessionId
    PROVE  /\ pendingPayment(id) \in Nat
           /\ pendingPayment(id) <= sessions[id].remainingBalance
<1> DEFINE owed == (now - sessions[id].lastPaidAt) * sessions[id].ratePerSecond
<1>1. sessions[id] \in Session /\ now \in Nat /\ sessions[id].lastPaidAt <= now
  BY DEF TypeOK, StreamClock
<1>2. owed \in Nat
  BY <1>1, AccrualNat DEF Session
<1> HIDE DEF owed
<1>3. sessions[id].remainingBalance \in Nat
  BY <1>1 DEF Session
<1>4. pendingPayment(id) =
         IF ~sessions[id].isActive THEN 0
         ELSE IF owed > sessions[id].remainingBalance
              THEN sessions[id].remainingBalance ELSE owed
  BY DEF pendingPayment, owed
<1>5. QED
  BY <1>2, <1>3, <1>4, SMT

-----------------------------------------------------------------------------
(* Each transaction preserves IInv. *)

\* A step that leaves the sessions alone keeps what IInv says of them.
LEMMA StreamsUntouched ==
    ASSUME IInv, UNCHANGED <<sessions, ledger>>, now' \in Nat, now <= now'
    PROVE  StreamClock' /\ StreamConserved' /\ DrawnAtRate'
<1>1. StreamClock'
  BY SMT DEF IInv, StreamClock, TypeOK, Session
<1>2. StreamConserved'
  BY DEF IInv, StreamConserved
<1>3. DrawnAtRate'
  BY DEF IInv, DrawnAtRate
<1>4. QED
  BY <1>1, <1>2, <1>3

LEMMA DepositPreserves ==
    ASSUME IInv, NEW sender \in Address, NEW id \in SessionId,
           NEW provider \in Address, NEW value \in DepositValue,
           deposit(sender, id, provider, value)
    PROVE  IInv'
<1>1. value \in Nat /\ sender # NoAddress /\ escrows[id] = ZeroEscrow
  BY EscrowAssumptions DEF deposit, IInv, EmptyIsZero
<1>2. TypeOK'
  BY <1>1 DEF deposit, IInv, TypeOK, Escrow, EscrowStatus, config
<1>3. EmptyIsZero'
  BY <1>1 DEF deposit, IInv, TypeOK, EmptyIsZero
<1>4. StreamClock' /\ StreamConserved' /\ DrawnAtRate'
  BY StreamsUntouched DEF deposit, IInv, TypeOK
<1>5. Solvency'
  <2>1. Total(EscrowHeld)' = Total(EscrowHeld) - EscrowHeld[id] + EscrowHeld'[id]
    BY <1>2, EscrowTotalStep DEF deposit, IInv, TypeOK
  <2>2. EscrowHeld[id] = 0 /\ EscrowHeld'[id] = value
    BY <1>1 DEF EscrowHeld, deposit, ZeroEscrow, IInv, TypeOK
  <2>3. Total(SessionHeld)' = Total(SessionHeld)
    BY TotalsUnchanged DEF deposit
  <2>4. balance' = balance + value /\ accruedFees' = accruedFees
    BY DEF deposit
  <2>5. QED
    BY <1>1, <2>1, <2>2, <2>3, <2>4, TotalsType, SMT DEF IInv, TypeOK, Solvency
<1>6. QED
  BY <1>2, <1>3, <1>4, <1>5 DEF IInv

LEMMA RefundUserPreserves ==
    ASSUME IInv, NEW id \in SessionId, escrows[id].user # NoAddress,
           escrows[id].status \in {"Pending", "Disputed"}, RefundUser(id)
    PROVE  IInv'
<1>1. TypeOK'
  BY SMT DEF RefundUser, Pays, IInv, TypeOK, Escrow, EscrowStatus, config
<1>2. EmptyIsZero'
  BY DEF RefundUser, IInv, TypeOK, EmptyIsZero, Escrow
<1>3. StreamClock' /\ StreamConserved' /\ DrawnAtRate'
  BY StreamsUntouched DEF RefundUser, IInv, TypeOK
<1>4. Solvency'
  <2>1. Total(EscrowHeld)' = Total(EscrowHeld) - EscrowHeld[id] + EscrowHeld'[id]
    BY <1>1, EscrowTotalStep DEF RefundUser, IInv, TypeOK
  <2>2. EscrowHeld[id] = escrows[id].amount /\ EscrowHeld'[id] = 0
    BY DEF EscrowHeld, RefundUser, IInv, TypeOK, Escrow
  <2>3. Total(SessionHeld)' = Total(SessionHeld)
    BY TotalsUnchanged DEF RefundUser
  <2>4. /\ balance' = balance - escrows[id].amount
        /\ accruedFees' = accruedFees
        /\ escrows[id].amount \in Nat
    BY DEF RefundUser, IInv, TypeOK, Escrow
  <2>5. QED
    BY <2>1, <2>2, <2>3, <2>4, TotalsType, SMT DEF IInv, TypeOK, Solvency
<1>5. QED
  BY <1>1, <1>2, <1>3, <1>4 DEF IInv

LEMMA ReleasePreserves ==
    ASSUME IInv, NEW id \in SessionId, escrows[id].user # NoAddress,
           escrows[id].status \in {"Pending", "Disputed"}, ReleaseToProvider(id)
    PROVE  IInv'
<1> DEFINE amount == escrows[id].amount
           fee == Fee(amount)
<1>1. amount \in Nat /\ fee \in Nat /\ fee <= amount
  BY FeeRange DEF IInv, TypeOK, Escrow
<1>2. /\ amount - fee <= balance
      /\ escrows' = [escrows EXCEPT ![id].status = "Released"]
      /\ accruedFees' = accruedFees + fee
      /\ balance' = balance - (amount - fee)
      /\ UNCHANGED <<sessions, releaseAuthority, proofAuthority, now, ledger>>
  BY DEF ReleaseToProvider, Pays, config
<1> HIDE DEF fee
<1>3. TypeOK'
  BY <1>1, <1>2, SMT DEF IInv, TypeOK, Escrow, EscrowStatus
<1>4. EmptyIsZero'
  BY <1>2 DEF IInv, TypeOK, EmptyIsZero, Escrow
<1>5. StreamClock' /\ StreamConserved' /\ DrawnAtRate'
  BY <1>2, StreamsUntouched DEF IInv, TypeOK
<1>6. Solvency'
  <2>1. Total(EscrowHeld)' = Total(EscrowHeld) - EscrowHeld[id] + EscrowHeld'[id]
    BY <1>2, <1>3, EscrowTotalStep DEF IInv, TypeOK
  <2>2. EscrowHeld[id] = amount /\ EscrowHeld'[id] = 0
    BY <1>2 DEF EscrowHeld, IInv, TypeOK, Escrow
  <2>3. Total(SessionHeld)' = Total(SessionHeld)
    BY <1>2, TotalsUnchanged
  <2> HIDE DEF amount
  <2>4. QED
    BY <1>1, <1>2, <2>1, <2>2, <2>3, TotalsType, SMT DEF IInv, TypeOK, Solvency
<1>7. QED
  BY <1>3, <1>4, <1>5, <1>6 DEF IInv

LEMMA DisputePreserves ==
    ASSUME IInv, NEW sender \in Address, NEW id \in SessionId, dispute(sender, id)
    PROVE  IInv'
<1>1. TypeOK'
  BY DEF dispute, IInv, TypeOK, Escrow, EscrowStatus, config
<1>2. EmptyIsZero'
  BY DEF dispute, IsPending, IInv, TypeOK, EmptyIsZero, Escrow
<1>3. StreamClock' /\ StreamConserved' /\ DrawnAtRate'
  BY StreamsUntouched DEF dispute, IInv, TypeOK
<1>4. Solvency'
  <2>1. EscrowHeld' = EscrowHeld
    BY DEF EscrowHeld, dispute, IsPending, IInv, TypeOK, Escrow
  <2>2. Total(EscrowHeld)' = Total(EscrowHeld)
    BY <2>1 DEF Total, Units
  <2>3. Total(SessionHeld)' = Total(SessionHeld)
    BY TotalsUnchanged DEF dispute
  <2>4. QED
    BY <2>2, <2>3 DEF dispute, IInv, Solvency
<1>5. QED
  BY <1>1, <1>2, <1>3, <1>4 DEF IInv

LEMMA WithdrawFeesPreserves ==
    ASSUME IInv, NEW sender \in Address, withdrawFees(sender)
    PROVE  IInv'
<1>1. TypeOK'
  BY SMT DEF withdrawFees, Pays, IInv, TypeOK, config
<1>2. EmptyIsZero'
  BY DEF withdrawFees, IInv, EmptyIsZero
<1>3. StreamClock' /\ StreamConserved' /\ DrawnAtRate'
  BY StreamsUntouched DEF withdrawFees, IInv, TypeOK
<1>4. Solvency'
  <2>1. Total(EscrowHeld)' = Total(EscrowHeld) /\ Total(SessionHeld)' = Total(SessionHeld)
    BY TotalsUnchanged DEF withdrawFees
  <2>2. QED
    BY <2>1, TotalsType, SMT DEF withdrawFees, IInv, TypeOK, Solvency
<1>5. QED
  BY <1>1, <1>2, <1>3, <1>4 DEF IInv

\* A step that moves no money and changes no record.
LEMMA QuietStepPreserves ==
    ASSUME IInv, UNCHANGED <<escrows, sessions, accruedFees, balance, ledger>>,
           releaseAuthority' \in Address, proofAuthority' \in Address,
           now' \in Nat, now <= now'
    PROVE  IInv'
<1>1. TypeOK'
  BY DEF IInv, TypeOK
<1>2. EmptyIsZero'
  BY DEF IInv, EmptyIsZero
<1>3. StreamClock' /\ StreamConserved' /\ DrawnAtRate'
  BY StreamsUntouched
<1>4. Solvency'
  BY TotalsUnchanged DEF IInv, Solvency
<1>5. QED
  BY <1>1, <1>2, <1>3, <1>4 DEF IInv

LEMMA StartSessionPreserves ==
    ASSUME IInv, NEW sender \in Address, NEW id \in SessionId,
           NEW provider \in Address, NEW rate \in Rate, NEW value \in StreamValue,
           startSession(sender, id, provider, rate, value)
    PROVE  IInv'
<1> DEFINE escrowed == value - Upfront(value)
<1>1. /\ value \in Nat /\ rate \in Nat /\ sender # NoAddress
      /\ sessions[id] = ZeroSession
  BY EscrowAssumptions DEF startSession, IInv, EmptyIsZero
<1>2. escrowed \in Nat /\ balance + value - Upfront(value) = balance + escrowed
  BY <1>1, UpfrontRange, SMT DEF IInv, TypeOK
<1>3. /\ sessions' = [sessions EXCEPT ![id] =
            [user |-> sender, provider |-> provider, ratePerSecond |-> rate,
             remainingBalance |-> escrowed, lastPaidAt |-> now, isActive |-> TRUE]]
      /\ balance' = balance + escrowed
      /\ ledger' = [ledger EXCEPT ![id] =
            [startedAt |-> now, escrowed |-> escrowed, drawn |-> 0, refunded |-> 0]]
      /\ UNCHANGED <<escrows, releaseAuthority, proofAuthority, accruedFees, now>>
  BY <1>2 DEF startSession, config
<1> HIDE DEF escrowed
<1>4. TypeOK'
  BY <1>1, <1>2, <1>3 DEF IInv, TypeOK, Session, Ledger
<1>5. EmptyIsZero'
  BY <1>1, <1>3 DEF IInv, TypeOK, EmptyIsZero
<1>6. StreamClock'
  BY <1>3 DEF IInv, TypeOK, StreamClock
<1>7. StreamConserved'
  BY <1>2, <1>3, SMT DEF IInv, TypeOK, StreamConserved
<1>8. DrawnAtRate'
  <2>1. Least(escrowed, (now - now) * rate) = 0
    BY <1>1, <1>2, SMT DEF Least, IInv, TypeOK
  <2>2. QED
    BY <1>3, <2>1 DEF IInv, TypeOK, DrawnAtRate
<1>9. Solvency'
  <2>1. Total(SessionHeld)' = Total(SessionHeld) - SessionHeld[id] + SessionHeld'[id]
    BY <1>3, <1>4, SessionTotalStep DEF IInv, TypeOK
  <2>2. SessionHeld[id] = 0 /\ SessionHeld'[id] = escrowed
    BY <1>1, <1>3 DEF SessionHeld, ZeroSession, IInv, TypeOK
  <2>3. Total(EscrowHeld)' = Total(EscrowHeld)
    BY <1>3, TotalsUnchanged
  <2>4. QED
    BY <1>2, <1>3, <2>1, <2>2, <2>3, TotalsType, SMT DEF IInv, TypeOK, Solvency
<1>10. QED
  BY <1>4, <1>5, <1>6, <1>7, <1>8, <1>9 DEF IInv

\* What _releaseAccrued makes of an active session: it takes the pending
\* payment out of what remains, and stays on the rate line.
LEMMA DrainedFacts ==
    ASSUME IInv, NEW id \in SessionId, isActiveSession(id)
    PROVE  LET owed == pendingPayment(id)
               d == Drained(id)
               s == sessions[id]
           IN  /\ d \in Session
               /\ d.user = s.user /\ d.provider = s.provider
               /\ d.ratePerSecond = s.ratePerSecond /\ d.isActive
               /\ d.remainingBalance = s.remainingBalance - owed
               /\ ledger[id].startedAt <= d.lastPaidAt /\ d.lastPaidAt <= now
               /\ ledger[id].drawn + owed =
                     Least(ledger[id].escrowed,
                           (d.lastPaidAt - ledger[id].startedAt) * d.ratePerSecond)
<1> DEFINE owed == pendingPayment(id)
           s == sessions[id]
           g == ledger[id]
<1>1. s \in Session /\ g \in Ledger /\ now \in Nat /\ s.isActive
  BY DEF IInv, TypeOK, isActiveSession
<1>2. owed \in Nat /\ owed <= s.remainingBalance
  BY PendingRange DEF IInv
<1>3. g.startedAt <= s.lastPaidAt /\ s.lastPaidAt <= now
  BY DEF IInv, StreamClock
<1>4. s.remainingBalance = g.escrowed - g.drawn
  BY <1>1, SMT DEF IInv, StreamConserved, Session, Ledger
<1>5. g.drawn = Least(g.escrowed, (s.lastPaidAt - g.startedAt) * s.ratePerSecond)
  BY DEF IInv, DrawnAtRate
<1>6. owed = IF (now - s.lastPaidAt) * s.ratePerSecond > g.escrowed - g.drawn
             THEN g.escrowed - g.drawn ELSE (now - s.lastPaidAt) * s.ratePerSecond
  BY <1>1, <1>4 DEF pendingPayment
<1>7. CASE owed = 0
  <2>1. Drained(id) = s
    BY <1>7 DEF Drained
  <2>2. g.drawn + owed = g.drawn /\ s.remainingBalance - owed = s.remainingBalance
    BY <1>1, <1>7, SMT DEF Session, Ledger
  <2>3. QED
    BY <2>1, <2>2, <1>1, <1>3, <1>5
<1>8. CASE owed # 0
  <2>1. Drained(id) = [s EXCEPT !.remainingBalance = @ - owed, !.lastPaidAt = now]
    BY <1>8 DEF Drained
  <2>2. /\ g.startedAt \in Nat /\ g.escrowed \in Nat /\ g.drawn \in Nat
        /\ s.ratePerSecond \in Nat /\ s.lastPaidAt \in Nat /\ s.remainingBalance \in Nat
    BY <1>1 DEF Session, Ledger
  <2> HIDE DEF owed
  <2>3. g.drawn + owed = Least(g.escrowed, (now - g.startedAt) * s.ratePerSecond)
    <3> DEFINE x == (s.lastPaidAt - g.startedAt) * s.ratePerSecond
               y == (now - s.lastPaidAt) * s.ratePerSecond
    <3>1. x \in Nat /\ y \in Nat
      BY <1>1, <1>3, <2>2, AccrualNat
    <3>2. x + y = (now - g.startedAt) * s.ratePerSecond
      BY <1>1, <2>2, AccrualAdds
    <3>3. g.drawn = Least(g.escrowed, x)
      BY <1>5, Zenon
    <3>4. owed = IF y > g.escrowed - g.drawn THEN g.escrowed - g.drawn ELSE y
      BY <1>6, Zenon
    <3> HIDE DEF x, y
    <3>5. g.drawn + owed = Least(g.escrowed, x + y)
      BY <1>2, <1>8, <2>2, <3>1, <3>3, <3>4, SMT DEF Least
    <3>6. QED
      BY <3>2, <3>5, Zenon
  <2>4. s.remainingBalance - owed \in Nat /\ g.startedAt <= now
    BY <1>1, <1>2, <1>3, <2>2, SMT
  <2> DEFINE d == Drained(id)
  <2>5. /\ d \in Session
        /\ d.user = s.user /\ d.provider = s.provider
        /\ d.ratePerSecond = s.ratePerSecond /\ d.isActive
        /\ d.remainingBalance = s.remainingBalance - owed
        /\ d.lastPaidAt = now
    BY <1>1, <2>1, <2>4 DEF Session
  <2> HIDE DEF d
  <2>6. QED
    <3>1. g.drawn + owed = Least(g.escrowed, (d.lastPaidAt - g.startedAt) * d.ratePerSecond)
      BY <2>3, <2>5, Zenon
    <3>2. g.startedAt <= d.lastPaidAt /\ d.lastPaidAt <= now
      BY <1>1, <2>4, <2>5
    <3>3. QED
      BY <3>1, <3>2, <2>5, Zenon DEF owed, d
<1>9. QED
  BY <1>7, <1>8

\* A step that draws owed for the provider of one session, for the fee given,
\* and refunds the rest if it closes the session.
LEMMA SessionStepPreserves ==
    ASSUME IInv, NEW id \in SessionId, sessions[id].user # NoAddress,
           NEW s1 \in Session, s1.user = sessions[id].user,
           NEW owed \in Nat, NEW fee \in Nat, fee <= owed, NEW refunded \in Nat,
           s1.remainingBalance = sessions[id].remainingBalance - owed - refunded,
           (owed - fee) + refunded <= balance,
           s1.isActive => refunded = 0,
           ~s1.isActive => s1.remainingBalance = 0,
           ledger[id].refunded = 0,
           ledger[id].startedAt <= s1.lastPaidAt, s1.lastPaidAt <= now,
           ledger[id].drawn + owed =
              Least(ledger[id].escrowed,
                    (s1.lastPaidAt - ledger[id].startedAt) * s1.ratePerSecond),
           sessions' = [sessions EXCEPT ![id] = s1],
           accruedFees' = accruedFees + fee,
           balance' = balance - (owed - fee) - refunded,
           ledger' = [ledger EXCEPT ![id] = Recorded(id, owed, refunded)],
           UNCHANGED <<escrows, releaseAuthority, proofAuthority, now>>
    PROVE  IInv'
<1>1. ledger[id] \in Ledger /\ sessions[id] \in Session
  BY DEF IInv, TypeOK
<1> DEFINE g1 == Recorded(id, owed, refunded)
<1>2. /\ ledger' = [ledger EXCEPT ![id] = g1] /\ g1 \in Ledger
      /\ g1.startedAt = ledger[id].startedAt /\ g1.escrowed = ledger[id].escrowed
      /\ g1.drawn = ledger[id].drawn + owed /\ g1.refunded = refunded
  <2>1. g1 = [ledger[id] EXCEPT !.drawn = ledger[id].drawn + owed,
                                !.refunded = ledger[id].refunded + refunded]
    BY DEF Recorded
  <2>2. ledger[id].drawn + owed \in Nat /\ ledger[id].refunded + refunded = refunded
    BY <1>1, SMT DEF Ledger
  <2>3. ledger' = [ledger EXCEPT ![id] = g1]
    OBVIOUS
  <2> HIDE DEF g1
  <2>4. QED
    BY <1>1, <2>1, <2>2, <2>3 DEF Ledger
<1> HIDE DEF g1
<1>3. TypeOK'
  <2>1. balance' \in Nat /\ accruedFees' \in Nat
    BY SMT DEF IInv, TypeOK
  <2>2. QED
    BY <1>2, <2>1 DEF IInv, TypeOK
<1>4. EmptyIsZero'
  BY <1>2 DEF IInv, TypeOK, EmptyIsZero
<1>5. StreamClock'
  BY <1>2 DEF IInv, TypeOK, StreamClock
<1>6. StreamConserved'
  <2>1. ledger[id].escrowed = ledger[id].drawn + owed + refunded + s1.remainingBalance
    BY <1>1, SMT DEF IInv, StreamConserved, Session, Ledger
  <2>2. g1.escrowed = g1.drawn + g1.refunded + s1.remainingBalance
    BY <1>1, <1>2, <2>1, SMT
  <2>3. QED
    BY <1>2, <2>2 DEF IInv, TypeOK, StreamConserved
<1>7. DrawnAtRate'
  BY <1>2 DEF IInv, TypeOK, DrawnAtRate
<1>8. Solvency'
  <2>1. Total(SessionHeld)' = Total(SessionHeld) - SessionHeld[id] + SessionHeld'[id]
    BY <1>3, SessionTotalStep DEF IInv, TypeOK
  <2>2. SessionHeld[id] = sessions[id].remainingBalance /\ SessionHeld'[id] = s1.remainingBalance
    BY DEF SessionHeld, IInv, TypeOK
  <2>3. Total(EscrowHeld)' = Total(EscrowHeld)
    BY TotalsUnchanged
  <2>4. s1.remainingBalance \in Nat /\ sessions[id].remainingBalance \in Nat
    BY <1>1 DEF Session
  <2>5. QED
    BY <2>1, <2>2, <2>3, <2>4, TotalsType, SMT DEF IInv, TypeOK, Solvency
<1>9. QED
  BY <1>3, <1>4, <1>5, <1>6, <1>7, <1>8 DEF IInv

LEMMA ReleaseAccruedPreserves ==
    ASSUME IInv, NEW id \in SessionId, isActiveSession(id), _releaseAccrued(id)
    PROVE  IInv'
<1> DEFINE owed == pendingPayment(id)
           fee == Fee(owed)
           s1 == Drained(id)
<1>1. owed \in Nat /\ fee \in Nat /\ fee <= owed /\ (owed = 0 => owed - fee = 0)
  BY PendingRange, FeeRange DEF IInv
<1>2. /\ s1 \in Session /\ s1.user = sessions[id].user /\ s1.isActive
      /\ s1.remainingBalance = sessions[id].remainingBalance - owed
      /\ ledger[id].startedAt <= s1.lastPaidAt /\ s1.lastPaidAt <= now
      /\ ledger[id].drawn + owed =
            Least(ledger[id].escrowed,
                  (s1.lastPaidAt - ledger[id].startedAt) * s1.ratePerSecond)
  BY DrainedFacts, Zenon
<1>3. /\ sessions' = [sessions EXCEPT ![id] = s1]
      /\ accruedFees' = accruedFees + fee
      /\ balance' = balance - (owed - fee)
      /\ ledger' = [ledger EXCEPT ![id] = Recorded(id, owed, 0)]
      /\ UNCHANGED <<escrows, releaseAuthority, proofAuthority, now>>
      /\ owed # 0 => owed - fee <= balance
  BY DEF _releaseAccrued, ProviderPaid, Pays, config
<1>4. sessions[id].user # NoAddress /\ ledger[id].refunded = 0
  BY DEF isActiveSession, IInv, StreamConserved
<1> HIDE DEF owed, fee, s1
<1>5. /\ (owed - fee) + 0 <= balance
      /\ balance' = balance - (owed - fee) - 0
      /\ s1.remainingBalance = sessions[id].remainingBalance - owed - 0
  BY <1>1, <1>2, <1>3, SMT DEF IInv, TypeOK, Session
<1>6. QED
  BY <1>1, <1>2, <1>3, <1>4, <1>5, SessionStepPreserves, 0 \in Nat, Zenon

LEMMA StopSessionPreserves ==
    ASSUME IInv, NEW sender \in Address, NEW id \in SessionId, stopSession(sender, id)
    PROVE  IInv'
<1> DEFINE owed == pendingPayment(id)
           fee == Fee(owed)
           d == Drained(id)
           refundAmount == d.remainingBalance
           s1 == Closed(d)
<1>1. owed \in Nat /\ fee \in Nat /\ fee <= owed /\ (owed = 0 => owed - fee = 0)
  BY PendingRange, FeeRange DEF IInv
<1>2. /\ d \in Session /\ d.user = sessions[id].user
      /\ d.remainingBalance = sessions[id].remainingBalance - owed
      /\ ledger[id].startedAt <= d.lastPaidAt /\ d.lastPaidAt <= now
      /\ ledger[id].drawn + owed =
            Least(ledger[id].escrowed,
                  (d.lastPaidAt - ledger[id].startedAt) * d.ratePerSecond)
  BY DrainedFacts, Zenon DEF stopSession
<1>3. /\ sessions' = [sessions EXCEPT ![id] = s1]
      /\ accruedFees' = accruedFees + fee
      /\ balance' = balance - (owed - fee) - refundAmount
      /\ ledger' = [ledger EXCEPT ![id] = Recorded(id, owed, refundAmount)]
      /\ UNCHANGED <<escrows, releaseAuthority, proofAuthority, now>>
      /\ owed # 0 => owed - fee <= balance
      /\ refundAmount > 0 => (owed - fee) + refundAmount <= balance
  BY DEF stopSession, ProviderPaid, Pays, config
<1>4. sessions[id].user # NoAddress /\ ledger[id].refunded = 0
  BY DEF stopSession, isActiveSession, IInv, StreamConserved
<1> HIDE DEF owed, fee, d
<1>5. /\ s1 \in Session /\ s1.user = d.user /\ s1.lastPaidAt = d.lastPaidAt
      /\ s1.ratePerSecond = d.ratePerSecond
      /\ s1.isActive = FALSE /\ s1.remainingBalance = 0
  BY <1>2 DEF Closed, Session
<1>6. /\ refundAmount \in Nat
      /\ (owed - fee) + refundAmount <= balance
      /\ s1.remainingBalance = sessions[id].remainingBalance - owed - refundAmount
  BY <1>1, <1>2, <1>3, <1>5, SMT DEF IInv, TypeOK, Session
<1> HIDE DEF refundAmount, s1
<1>7. ledger[id].drawn + owed =
            Least(ledger[id].escrowed,
                  (s1.lastPaidAt - ledger[id].startedAt) * s1.ratePerSecond)
  BY <1>2, <1>5, Zenon
<1>8. /\ s1.user = sessions[id].user
      /\ s1.isActive => refundAmount = 0
      /\ ~s1.isActive => s1.remainingBalance = 0
      /\ ledger[id].startedAt <= s1.lastPaidAt /\ s1.lastPaidAt <= now
  BY <1>2, <1>5, Zenon
<1>9. QED
  BY <1>1, <1>3, <1>4, <1>5, <1>6, <1>7, <1>8, SessionStepPreserves, Zenon

LEMMA SlashProviderPreserves ==
    ASSUME IInv, NEW sender \in Address, NEW id \in SessionId, slashProvider(sender, id)
    PROVE  IInv'
<1> DEFINE s == sessions[id]
           refundAmount == s.remainingBalance
           s1 == Closed(s)
<1>1. /\ s \in Session /\ s.user # NoAddress /\ ledger[id].refunded = 0
      /\ ledger[id] \in Ledger
  BY DEF slashProvider, isActiveSession, IInv, TypeOK, StreamConserved
<1>2. /\ sessions' = [sessions EXCEPT ![id] = s1]
      /\ accruedFees' = accruedFees
      /\ balance' = balance - refundAmount
      /\ ledger' = [ledger EXCEPT ![id] = Recorded(id, 0, refundAmount)]
      /\ UNCHANGED <<escrows, releaseAuthority, proofAuthority, now>>
      /\ refundAmount > 0 => refundAmount <= balance
  BY DEF slashProvider, Pays, config
<1>3. /\ s1 \in Session /\ s1.user = s.user /\ s1.lastPaidAt = s.lastPaidAt
      /\ s1.ratePerSecond = s.ratePerSecond
      /\ s1.isActive = FALSE /\ s1.remainingBalance = 0
  BY <1>1 DEF Closed, Session
<1>4. /\ refundAmount \in Nat
      /\ (0 - 0) + refundAmount <= balance
      /\ accruedFees' = accruedFees + 0
      /\ balance' = balance - (0 - 0) - refundAmount
      /\ s1.remainingBalance = s.remainingBalance - 0 - refundAmount
      /\ 0 \in Nat /\ 0 <= 0
      /\ ledger[id].drawn + 0 = ledger[id].drawn
  BY <1>1, <1>2, <1>3, SMT DEF IInv, TypeOK, Session, Ledger
<1>5. /\ s1.isActive => refundAmount = 0
      /\ ~s1.isActive => s1.remainingBalance = 0
      /\ ledger[id].startedAt <= s1.lastPaidAt /\ s1.lastPaidAt <= now
  BY <1>3 DEF IInv, StreamClock
<1>6. ledger[id].drawn + 0 =
            Least(ledger[id].escrowed,
                  (s1.lastPaidAt - ledger[id].startedAt) * s1.ratePerSecond)
  BY <1>3, <1>4, Zenon DEF IInv, DrawnAtRate
<1> HIDE DEF refundAmount, s1
<1>7. QED
  BY <1>1, <1>2, <1>3, <1>4, <1>5, <1>6, SessionStepPreserves, Zenon

-----------------------------------------------------------------------------
\* Nothing is stored and nothing is held before the first transaction.
LEMMA InitIInv == Init => IInv
<1> SUFFICES ASSUME Init PROVE IInv
  OBVIOUS
<1>1. TypeOK
  BY EscrowAssumptions DEF Init, TypeOK, Escrow, Session, Ledger, EscrowStatus,
     ZeroEscrow, ZeroSession, ZeroLedger
<1>2. EmptyIsZero
  BY DEF Init, EmptyIsZero
<1>3. StreamClock /\ StreamConserved
  BY DEF Init, StreamClock, StreamConserved, ZeroSession, ZeroLedger
<1>4. DrawnAtRate
  BY SMT DEF Init, DrawnAtRate, Least, ZeroSession, ZeroLedger
<1>5. Solvency
  <2>1. /\ \A id \in SessionId : EscrowHeld[id] = 0
        /\ \A id \in SessionId : SessionHeld[id] = 0
    BY DEF Init, EscrowHeld, SessionHeld, ZeroEscrow, ZeroSession
  <2>2. Total(EscrowHeld) = 0 /\ Total(SessionHeld) = 0
    BY <1>1, <2>1, HeldType, TotalZero
  <2>3. QED
    BY <2>2, SMT DEF Init, Solvency
<1>6. QED
  BY <1>1, <1>2, <1>3, <1>4, <1>5 DEF IInv

\* Every transaction, and the passing of time, preserves the invariant.
LEMMA NextIInv == IInv /\ [Next]_vars => IInv'
<1> SUFFICES ASSUME IInv, [Next]_vars PROVE IInv'
  OBVIOUS
<1>1. CASE UNCHANGED vars
  BY <1>1, QuietStepPreserves, SMT DEF vars, IInv, TypeOK
<1>2. CASE Tick
  BY <1>2, QuietStepPreserves, SMT DEF Tick, config, IInv, TypeOK
<1>3. ASSUME NEW sender \in Address, EscrowCall(sender) PROVE IInv'
  <2>1. ASSUME NEW id \in SessionId, NEW provider \in Address, NEW value \in DepositValue,
               deposit(sender, id, provider, value)
        PROVE  IInv'
    BY <2>1, DepositPreserves
  <2>2. ASSUME NEW id \in SessionId, refund(sender, id) PROVE IInv'
    BY <2>2, RefundUserPreserves DEF refund, IsPending
  <2>3. ASSUME NEW id \in SessionId, release(sender, id) PROVE IInv'
    BY <2>3, ReleasePreserves DEF release, IsPending
  <2>4. ASSUME NEW id \in SessionId, dispute(sender, id) PROVE IInv'
    BY <2>4, DisputePreserves
  <2>5. ASSUME NEW id \in SessionId, NEW toProvider \in BOOLEAN,
               resolveDispute(sender, id, toProvider)
        PROVE  IInv'
    BY <2>5, ReleasePreserves, RefundUserPreserves DEF resolveDispute
  <2>6. QED
    BY <1>3, <2>1, <2>2, <2>3, <2>4, <2>5 DEF EscrowCall
<1>4. ASSUME NEW sender \in Address, StreamCall(sender) PROVE IInv'
  <2>1. ASSUME NEW id \in SessionId, NEW provider \in Address, NEW rate \in Rate,
               NEW value \in StreamValue, startSession(sender, id, provider, rate, value)
        PROVE  IInv'
    BY <2>1, StartSessionPreserves
  <2>2. ASSUME NEW id \in SessionId, releasePayment(sender, id) PROVE IInv'
    BY <2>2, ReleaseAccruedPreserves DEF releasePayment
  <2>3. ASSUME NEW id \in SessionId, submitProof(sender, id) PROVE IInv'
    BY <2>3, ReleaseAccruedPreserves DEF submitProof
  <2>4. ASSUME NEW id \in SessionId, stopSession(sender, id) PROVE IInv'
    BY <2>4, StopSessionPreserves
  <2>5. QED
    BY <1>4, <2>1, <2>2, <2>3, <2>4 DEF StreamCall
<1>5. ASSUME NEW sender \in Address, AdminCall(sender) PROVE IInv'
  <2>1. CASE withdrawFees(sender)
    BY <2>1, WithdrawFeesPreserves
  <2>2. ASSUME NEW a \in Authority,
               setReleaseAuthority(sender, a) \/ setProofAuthority(sender, a)
        PROVE  IInv'
    BY <2>2, QuietStepPreserves, EscrowAssumptions, SMT
       DEF setReleaseAuthority, setProofAuthority, IInv, TypeOK
  <2>3. QED
    BY <1>5, <2>1, <2>2 DEF AdminCall
<1>6. ASSUME NEW sender \in Address, SlashCall(sender) PROVE IInv'
  BY <1>6, SlashProviderPreserves DEF SlashCall
<1>7. QED
  BY <1>1, <1>2, <1>3, <1>4, <1>5, <1>6 DEF Next

\* The inductive invariant holds in every reachable state.
THEOREM Invariance == Spec => []IInv
BY InitIInv, NextIInv, PTL DEF Spec

\* The contract's variables keep their declared types: in particular no
\* subtraction in a release, a refund or a slash ever underflows.
THEOREM TypeCorrect == Spec => []TypeOK
BY Invariance, PTL DEF IInv

\* The balance is always exactly what the contract owes, for any number of
\* accounts, sessions, amounts and rates.
THEOREM Solvent == Spec => []Solvency
BY Invariance, PTL DEF IInv

\* A stream's money is drawn, refunded or still held.
THEOREM StreamsConserveMoney == Spec => []StreamConserved
BY Invariance, PTL DEF IInv

\* What a provider has drawn is the rate times the time, whatever the
\* schedule of the calls that released it.
THEOREM ProviderDrawsAtRate == Spec => []DrawnAtRate
BY Invariance, PTL DEF IInv

\* What UserCanExit asks of the contract, beside that the call is made: the money
\* that refund and stopSession have to pay.
ExitIsPaid ==
    \A id \in SessionId :
        /\ IsPending(id) /\ escrows[id].user \in Payable => Pays(escrows[id].user, escrows[id].amount)
        /\ isActiveSession(id) /\ {sessions[id].user, sessions[id].provider} \subseteq Payable =>
              LET owed == pendingPayment(id)
              IN  /\ ProviderPaid(id)
                  /\ Pays(sessions[id].user, (owed - Fee(owed)) + Drained(id).remainingBalance)

\* Every transfer of refund, and the two of stopSession together, are covered by
\* the balance, however many other records are paid from it.
THEOREM ExitsArePaid == Spec => []ExitIsPaid
<1>1. IInv => ExitIsPaid
  <2> SUFFICES ASSUME IInv, NEW id \in SessionId
               PROVE  /\ IsPending(id) => escrows[id].amount <= balance
                      /\ isActiveSession(id) =>
                            LET owed == pendingPayment(id)
                            IN  /\ owed - Fee(owed) <= balance
                                /\ (owed - Fee(owed)) + Drained(id).remainingBalance <= balance
    BY DEF ExitIsPaid, Pays, ProviderPaid
  <2>1. /\ EscrowHeld[id] <= Total(EscrowHeld) /\ SessionHeld[id] <= Total(SessionHeld)
        /\ EscrowHeld[id] \in Nat /\ SessionHeld[id] \in Nat
    BY HeldType, TotalBound, EscrowAssumptions DEF IInv
  <2>2. /\ Total(EscrowHeld) \in Nat /\ Total(SessionHeld) \in Nat /\ accruedFees \in Nat
        /\ balance = accruedFees + Total(EscrowHeld) + Total(SessionHeld)
    BY TotalsType DEF IInv, TypeOK, Solvency
  <2>3. EscrowHeld[id] <= balance /\ SessionHeld[id] <= balance
    BY <2>1, <2>2, SMT
  <2>4. IsPending(id) => escrows[id].amount <= balance
    BY <2>3 DEF EscrowHeld, IsPending
  <2>5. ASSUME isActiveSession(id)
        PROVE  LET owed == pendingPayment(id)
               IN  /\ owed - Fee(owed) <= balance
                   /\ (owed - Fee(owed)) + Drained(id).remainingBalance <= balance
    <3> DEFINE owed == pendingPayment(id)
               fee == Fee(owed)
               rest == Drained(id).remainingBalance
    <3>1. owed \in Nat /\ fee \in Nat /\ fee <= owed /\ owed <= SessionHeld[id]
      BY PendingRange, FeeRange DEF IInv, SessionHeld
    <3>2. rest = SessionHeld[id] - owed
      BY <2>5, DrainedFacts DEF SessionHeld
    <3> HIDE DEF owed, fee, rest
    <3>3. owed - fee <= balance /\ (owed - fee) + rest <= balance
      BY <2>1, <2>2, <2>3, <3>1, <3>2, SMT
    <3>4. QED
      BY <3>3 DEF owed, fee, rest
  <2>6. QED
    BY <2>4, <2>5
<1>2. QED
  BY <1>1, Invariance, PTL

\* A settled escrow and a closed session never change again.
THEOREM Finality == Spec => SettlementIsFinal
<1> DEFINE Frozen == \A id \in SessionId :
              /\ IsSettled(id) => escrows'[id] = escrows[id]
              /\ IsClosed(id) => sessions'[id] = sessions[id] /\ ledger'[id] = ledger[id]
<1>1. ASSUME IInv, [Next]_vars PROVE Frozen
  <2> SUFFICES ASSUME NEW k \in SessionId
               PROVE  /\ IsSettled(k) => escrows'[k] = escrows[k]
                      /\ IsClosed(k) => sessions'[k] = sessions[k] /\ ledger'[k] = ledger[k]
    OBVIOUS
  <2>1. escrows \in [SessionId -> Escrow] /\ sessions \in [SessionId -> Session]
        /\ ledger \in [SessionId -> Ledger]
    BY <1>1 DEF IInv, TypeOK
  <2>2. escrows[k].user = NoAddress => escrows[k].status = "Pending"
    BY <1>1 DEF IInv, EmptyIsZero, ZeroEscrow
  <2>3. CASE UNCHANGED vars
    BY <2>3 DEF vars
  <2>4. CASE Tick
    BY <2>4 DEF Tick
  <2>5. ASSUME NEW sender \in Address, EscrowCall(sender)
        PROVE  /\ IsSettled(k) => escrows'[k] = escrows[k]
               /\ sessions'[k] = sessions[k] /\ ledger'[k] = ledger[k]
    BY <2>1, <2>2, <2>5 DEF EscrowCall, deposit, refund, release, dispute, resolveDispute,
       RefundUser, ReleaseToProvider, IsPending, IsSettled
  <2>6. ASSUME NEW sender \in Address, StreamCall(sender) \/ SlashCall(sender)
        PROVE  /\ escrows'[k] = escrows[k]
               /\ IsClosed(k) => sessions'[k] = sessions[k] /\ ledger'[k] = ledger[k]
    <3>1. ASSUME NEW id \in SessionId, NEW provider \in Address, NEW rate \in Rate,
                 NEW value \in StreamValue, startSession(sender, id, provider, rate, value)
          PROVE  /\ escrows'[k] = escrows[k]
                 /\ IsClosed(k) => sessions'[k] = sessions[k] /\ ledger'[k] = ledger[k]
      BY <2>1, <3>1 DEF startSession, IsClosed
    <3>2. ASSUME NEW id \in SessionId, isActiveSession(id), _releaseAccrued(id)
          PROVE  /\ escrows'[k] = escrows[k]
                 /\ IsClosed(k) => sessions'[k] = sessions[k] /\ ledger'[k] = ledger[k]
      BY <2>1, <3>2 DEF _releaseAccrued, isActiveSession, IsClosed
    <3>3. ASSUME NEW id \in SessionId,
                 stopSession(sender, id) \/ slashProvider(sender, id)
          PROVE  /\ escrows'[k] = escrows[k]
                 /\ IsClosed(k) => sessions'[k] = sessions[k] /\ ledger'[k] = ledger[k]
      BY <2>1, <3>3 DEF stopSession, slashProvider, isActiveSession, IsClosed
    <3>4. QED
      BY <2>6, <3>1, <3>2, <3>3 DEF StreamCall, SlashCall, releasePayment, submitProof
  <2>7. ASSUME NEW sender \in Address, AdminCall(sender)
        PROVE  UNCHANGED <<escrows, sessions, ledger>>
    BY <2>7 DEF AdminCall, withdrawFees, setReleaseAuthority, setProofAuthority
  <2>8. QED
    BY <1>1, <2>3, <2>4, <2>5, <2>6, <2>7 DEF Next
<1>2. QED
  BY <1>1, Invariance, PTL DEF Spec, SettlementIsFinal

=============================================================================
