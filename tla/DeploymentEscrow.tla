-------------------------- MODULE DeploymentEscrow --------------------------
(***************************************************************************)
(* The DeploymentEscrow contract: simple escrows (deposit, refund,         *)
(* release, dispute) and streaming sessions, both held in one ETH balance. *)
(*                                                                         *)
(* A transaction is one action: the EVM runs it to the end or reverts it   *)
(* as a whole, so every revert is a conjunct of the guard.  The contract's *)
(* calls to other accounts are the Pays guard: they fail, and revert the   *)
(* transaction, when the recipient takes no ETH or the balance is short.   *)
(***************************************************************************)
EXTENDS Integers, Totals

CONSTANTS
    Address,            \* the accounts that call the contract or are paid by it
    NoAddress,          \* address(0), which marks an empty record
    Payable,            \* the accounts whose receive function accepts ETH
    InitialOwner,
    InitialAuthority,   \* the zkLOUD backend
    SessionId,
    Authority,          \* the accounts the owner may appoint as an authority
    DepositValue,       \* the msg.value a deposit may carry
    StreamValue,        \* the msg.value a startSession may carry
    Rate,               \* the ratePerSecond a session may ask for
    LOCKUP_PERIOD,      \* 24 hours, in units of the model's clock
    MaxTime             \* bound on the model's clock

ASSUME EscrowAssumptions ==
    /\ NoAddress \notin Address
    /\ Payable \subseteq Address
    /\ InitialOwner \in Address
    /\ InitialAuthority \in Authority
    /\ Authority \subseteq Address
    /\ IsFiniteSet(SessionId)
    /\ DepositValue \subseteq Nat
    /\ StreamValue \subseteq Nat
    /\ Rate \subseteq Nat
    /\ LOCKUP_PERIOD \in Nat
    /\ MaxTime \in Nat

VARIABLES
    escrows,            \* sessionId -> Escrow record
    sessions,           \* sessionId -> streaming Session record
    releaseAuthority,
    proofAuthority,
    accruedFees,
    balance,            \* ETH held by the contract
    now,                \* block.timestamp
    ledger              \* history: what each streaming session took in and paid out

config == <<releaseAuthority, proofAuthority>>
vars == <<escrows, sessions, releaseAuthority, proofAuthority, accruedFees,
          balance, now, ledger>>

FEE_BPS == 1000
UPFRONT_BPS == 2000
BPS_DENOM == 10000

EscrowStatus == {"Pending", "Released", "Refunded", "Disputed"}

Escrow ==
    [user : Address \cup {NoAddress}, provider : Address \cup {NoAddress},
     amount : Nat, depositedAt : Nat, status : EscrowStatus]

Session ==
    [user : Address \cup {NoAddress}, provider : Address \cup {NoAddress},
     ratePerSecond : Nat, remainingBalance : Nat, lastPaidAt : Nat,
     isActive : BOOLEAN]

\* What a mapping entry holds before anything is stored in it.
ZeroEscrow ==
    [user |-> NoAddress, provider |-> NoAddress, amount |-> 0,
     depositedAt |-> 0, status |-> "Pending"]

ZeroSession ==
    [user |-> NoAddress, provider |-> NoAddress, ratePerSecond |-> 0,
     remainingBalance |-> 0, lastPaidAt |-> 0, isActive |-> FALSE]

\* History of a streaming session: when it started, what was escrowed after
\* the upfront part, what was drawn for the provider (the fee included) and
\* what was refunded.
Ledger == [startedAt : Nat, escrowed : Nat, drawn : Nat, refunded : Nat]
ZeroLedger == [startedAt |-> 0, escrowed |-> 0, drawn |-> 0, refunded |-> 0]

owner == InitialOwner

Fee(amount) == (amount * FEE_BPS) \div BPS_DENOM
Upfront(amount) == (amount * UPFRONT_BPS) \div BPS_DENOM

\* A transfer out of the contract succeeds.
Pays(to, amount) == to \in Payable /\ amount <= balance

-----------------------------------------------------------------------------
Init ==
    /\ escrows = [id \in SessionId |-> ZeroEscrow]
    /\ sessions = [id \in SessionId |-> ZeroSession]
    /\ releaseAuthority = InitialAuthority
    /\ proofAuthority = InitialAuthority
    /\ accruedFees = 0
    /\ balance = 0
    /\ now = 0
    /\ ledger = [id \in SessionId |-> ZeroLedger]

deposit(sender, id, provider, value) ==
    /\ value # 0
    /\ escrows[id].user = NoAddress
    /\ escrows' = [escrows EXCEPT ![id] =
          [user |-> sender, provider |-> provider, amount |-> value,
           depositedAt |-> now, status |-> "Pending"]]
    /\ balance' = balance + value
    /\ UNCHANGED <<sessions, config, accruedFees, now, ledger>>

\* The transfer of an escrow's whole amount back to its user.
RefundUser(id) ==
    /\ Pays(escrows[id].user, escrows[id].amount)
    /\ escrows' = [escrows EXCEPT ![id].status = "Refunded"]
    /\ balance' = balance - escrows[id].amount
    /\ UNCHANGED <<sessions, config, accruedFees, now, ledger>>

\* The transfer of an escrow's amount, less the protocol fee, to its provider.
ReleaseToProvider(id) ==
    LET fee == Fee(escrows[id].amount)
        netAmount == escrows[id].amount - fee
    IN  /\ Pays(escrows[id].provider, netAmount)
        /\ escrows' = [escrows EXCEPT ![id].status = "Released"]
        /\ accruedFees' = accruedFees + fee
        /\ balance' = balance - netAmount
        /\ UNCHANGED <<sessions, config, now, ledger>>

\* Mutant of IsPending: the status is not checked.
IsStored(id) == escrows[id].user # NoAddress

\* The record exists and nobody has settled or frozen it.
IsPending(id) == escrows[id].user # NoAddress /\ escrows[id].status = "Pending"

refund(sender, id) ==
    /\ IsPending(id)
    /\ sender = escrows[id].user
    /\ now >= escrows[id].depositedAt + LOCKUP_PERIOD
    /\ RefundUser(id)

release(sender, id) ==
    /\ sender \in {releaseAuthority, owner}
    /\ IsPending(id)
    /\ ReleaseToProvider(id)

dispute(sender, id) ==
    /\ sender \in {releaseAuthority, owner}
    /\ IsPending(id)
    /\ escrows' = [escrows EXCEPT ![id].status = "Disputed"]
    /\ UNCHANGED <<sessions, config, accruedFees, balance, now, ledger>>

resolveDispute(sender, id, toProvider) ==
    /\ sender = owner
    /\ escrows[id].user # NoAddress
    /\ escrows[id].status = "Disputed"
    /\ IF toProvider THEN ReleaseToProvider(id) ELSE RefundUser(id)

\* Mutant of withdrawFees: the counter is not reset.
withdrawFeesAgain(sender) ==
    /\ sender = owner
    /\ accruedFees # 0
    /\ Pays(owner, accruedFees)
    /\ balance' = balance - accruedFees
    /\ UNCHANGED <<escrows, sessions, config, accruedFees, now, ledger>>

withdrawFees(sender) ==
    /\ sender = owner
    /\ accruedFees # 0
    /\ Pays(owner, accruedFees)
    /\ accruedFees' = 0
    /\ balance' = balance - accruedFees
    /\ UNCHANGED <<escrows, sessions, config, now, ledger>>

setReleaseAuthority(sender, newAuthority) ==
    /\ sender = owner
    /\ releaseAuthority' = newAuthority
    /\ UNCHANGED <<escrows, sessions, proofAuthority, accruedFees, balance, now, ledger>>

setProofAuthority(sender, newAuthority) ==
    /\ sender = owner
    /\ proofAuthority' = newAuthority
    /\ UNCHANGED <<escrows, sessions, releaseAuthority, accruedFees, balance, now, ledger>>

-----------------------------------------------------------------------------
(* Streaming sessions. *)

startSession(sender, id, provider, rate, value) ==
    /\ value # 0
    /\ rate # 0
    /\ sessions[id].user = NoAddress
    /\ provider \in Payable
    /\ sessions' = [sessions EXCEPT ![id] =
          [user |-> sender, provider |-> provider, ratePerSecond |-> rate,
           remainingBalance |-> value - Upfront(value), lastPaidAt |-> now,
           isActive |-> TRUE]]
    /\ balance' = balance + value - Upfront(value)
    /\ ledger' = [ledger EXCEPT ![id] =
          [startedAt |-> now, escrowed |-> value - Upfront(value),
           drawn |-> 0, refunded |-> 0]]
    /\ UNCHANGED <<escrows, config, accruedFees, now>>

\* The view of the payment accrued since the last release.
pendingPayment(id) ==
    LET s == sessions[id]
        owed == (now - s.lastPaidAt) * s.ratePerSecond
    IN  IF ~s.isActive THEN 0
        ELSE IF owed > s.remainingBalance THEN s.remainingBalance ELSE owed

\* Mutant of Drained: the clock of the stream is not restarted.
DrainedNoClock(id) == [sessions[id] EXCEPT !.remainingBalance = @ - pendingPayment(id)]

\* What _releaseAccrued does to the session record: it draws what is owed and
\* restarts the clock of the stream, or returns early and leaves both alone.
Drained(id) ==
    LET owed == pendingPayment(id)
    IN  IF owed = 0 THEN sessions[id]
        ELSE [sessions[id] EXCEPT !.remainingBalance = @ - owed, !.lastPaidAt = now]

\* The transfer in _releaseAccrued, which an early return skips.
ProviderPaid(id) ==
    LET owed == pendingPayment(id)
    IN  owed # 0 => Pays(sessions[id].provider, owed - Fee(owed))

\* The history of a session after it pays owed for the provider and refunds
\* refundAmount to the user.
Recorded(id, owed, refundAmount) ==
    [ledger[id] EXCEPT !.drawn = @ + owed, !.refunded = @ + refundAmount]

isActiveSession(id) == sessions[id].user # NoAddress /\ sessions[id].isActive

\* Mutant of _releaseAccrued: pays the gross amount and accrues the fee too.
releaseGross(id) ==
    LET owed == pendingPayment(id)
    IN  /\ owed # 0 => Pays(sessions[id].provider, owed)
        /\ sessions' = [sessions EXCEPT ![id] = Drained(id)]
        /\ accruedFees' = accruedFees + Fee(owed)
        /\ balance' = balance - owed
        /\ ledger' = [ledger EXCEPT ![id] = Recorded(id, owed, 0)]
        /\ UNCHANGED <<escrows, config, now>>

_releaseAccrued(id) ==
    LET owed == pendingPayment(id)
    IN  /\ ProviderPaid(id)
        /\ sessions' = [sessions EXCEPT ![id] = Drained(id)]
        /\ accruedFees' = accruedFees + Fee(owed)
        /\ balance' = balance - (owed - Fee(owed))
        /\ ledger' = [ledger EXCEPT ![id] = Recorded(id, owed, 0)]
        /\ UNCHANGED <<escrows, config, now>>

releasePayment(sender, id) ==
    /\ isActiveSession(id)
    /\ _releaseAccrued(id)

submitProof(sender, id) ==
    /\ sender \in {proofAuthority, owner}
    /\ isActiveSession(id)
    /\ _releaseAccrued(id)

\* Mutant of Closed: the refunded balance stays in the record.
ClosedUnzeroed(s) == [s EXCEPT !.isActive = FALSE]

\* A closed session keeps nothing and can never be active again.
Closed(s) == [s EXCEPT !.remainingBalance = 0, !.isActive = FALSE]

\* Both transfers come out of the same balance, the provider's first.
stopSession(sender, id) ==
    LET owed == pendingPayment(id)
        refundAmount == Drained(id).remainingBalance
    IN  /\ isActiveSession(id)
        /\ sender = sessions[id].user
        /\ ProviderPaid(id)
        /\ refundAmount > 0 => Pays(sessions[id].user, (owed - Fee(owed)) + refundAmount)
        /\ sessions' = [sessions EXCEPT ![id] = Closed(Drained(id))]
        /\ accruedFees' = accruedFees + Fee(owed)
        /\ balance' = balance - (owed - Fee(owed)) - refundAmount
        /\ ledger' = [ledger EXCEPT ![id] = Recorded(id, owed, refundAmount)]
        /\ UNCHANGED <<escrows, config, now>>

\* The call to registry.slash changes no state of this contract whether it
\* succeeds or is caught; module Marketplace adds its effect on the registry.
slashProvider(sender, id) ==
    LET refundAmount == sessions[id].remainingBalance
    IN  /\ sender \in {proofAuthority, owner}
        /\ isActiveSession(id)
        /\ refundAmount > 0 => Pays(sessions[id].user, refundAmount)
        /\ sessions' = [sessions EXCEPT ![id] = Closed(sessions[id])]
        /\ balance' = balance - refundAmount
        /\ ledger' = [ledger EXCEPT ![id] = Recorded(id, 0, refundAmount)]
        /\ UNCHANGED <<escrows, config, accruedFees, now>>

\* Blocks advance time; transactions of one block share a timestamp.
Tick ==
    /\ now < MaxTime
    /\ now' = now + 1
    /\ UNCHANGED <<escrows, sessions, config, accruedFees, balance, ledger>>

-----------------------------------------------------------------------------
EscrowCall(sender) ==
    \/ \E id \in SessionId, provider \in Address, value \in DepositValue :
          deposit(sender, id, provider, value)
    \/ \E id \in SessionId : refund(sender, id)
    \/ \E id \in SessionId : release(sender, id)
    \/ \E id \in SessionId : dispute(sender, id)
    \/ \E id \in SessionId, toProvider \in BOOLEAN : resolveDispute(sender, id, toProvider)

StreamCall(sender) ==
    \/ \E id \in SessionId, provider \in Address, rate \in Rate, value \in StreamValue :
          startSession(sender, id, provider, rate, value)
    \/ \E id \in SessionId : releasePayment(sender, id)
    \/ \E id \in SessionId : submitProof(sender, id)
    \/ \E id \in SessionId : stopSession(sender, id)

SlashCall(sender) == \E id \in SessionId : slashProvider(sender, id)

AdminCall(sender) ==
    \/ withdrawFees(sender)
    \/ \E newAuthority \in Authority : setReleaseAuthority(sender, newAuthority)
    \/ \E newAuthority \in Authority : setProofAuthority(sender, newAuthority)

Next ==
    \/ \E sender \in Address :
          EscrowCall(sender) \/ StreamCall(sender) \/ SlashCall(sender) \/ AdminCall(sender)
    \/ Tick

Spec == Init /\ [][Next]_vars

-----------------------------------------------------------------------------
(* Properties. *)

\* Every variable holds a value of the type the contract declares for it.
TypeOK ==
    /\ escrows \in [SessionId -> Escrow]
    /\ sessions \in [SessionId -> Session]
    /\ releaseAuthority \in Address
    /\ proofAuthority \in Address
    /\ accruedFees \in Nat
    /\ balance \in Nat
    /\ now \in Nat
    /\ ledger \in [SessionId -> Ledger]

\* What the contract owes for each escrow and each streaming session.
EscrowHeld ==
    [id \in SessionId |->
        IF escrows[id].status \in {"Pending", "Disputed"} THEN escrows[id].amount ELSE 0]

SessionHeld == [id \in SessionId |-> sessions[id].remainingBalance]

\* The balance is exactly what is owed: the accrued fees, every escrow that is
\* not settled and what remains of every stream.  No sequence of deposits,
\* releases, refunds, slashes and withdrawals pays one record from another's
\* money or leaves ETH that no function can pay out.
Solvency == balance = accruedFees + Total(EscrowHeld) + Total(SessionHeld)

\* The money escrowed for a stream is drawn for the provider, refunded to the
\* user or still held; only an active session holds any, and only a closed one
\* has refunded any.
StreamConserved ==
    \A id \in SessionId :
        /\ ledger[id].escrowed =
              ledger[id].drawn + ledger[id].refunded + sessions[id].remainingBalance
        /\ sessions[id].isActive => ledger[id].refunded = 0
        /\ ~sessions[id].isActive => sessions[id].remainingBalance = 0

Least(a, b) == IF a < b THEN a ELSE b

\* What a provider has drawn depends only on the time of the last release,
\* never on how often anybody called releasePayment or submitProof before it:
\* it is the rate times the elapsed time, cut off at what was escrowed.
DrawnAtRate ==
    \A id \in SessionId :
        ledger[id].drawn = Least(ledger[id].escrowed,
              (sessions[id].lastPaidAt - ledger[id].startedAt) * sessions[id].ratePerSecond)

\* A settled escrow and a closed session are final: no later call of any
\* account, a second deposit or startSession under the same id included,
\* changes them again.
IsSettled(id) == escrows[id].status \in {"Released", "Refunded"}
IsClosed(id) == sessions[id].user # NoAddress /\ ~sessions[id].isActive

SettlementIsFinal ==
    [][\A id \in SessionId :
          /\ IsSettled(id) => escrows'[id] = escrows[id]
          /\ IsClosed(id) => sessions'[id] = sessions[id] /\ ledger'[id] = ledger[id]]_vars

\* The user of a pending escrow can take the whole amount back once the lockup
\* is over, and the user of an active session can stop it at any time, as long
\* as the accounts to be paid accept ETH: whatever the other records did, the
\* contract still has the money to pay.
UserCanExit ==
    \A id \in SessionId :
        /\ /\ IsPending(id)
           /\ escrows[id].user \in Payable
           /\ now >= escrows[id].depositedAt + LOCKUP_PERIOD
           => ENABLED refund(escrows[id].user, id)
        /\ /\ isActiveSession(id)
           /\ {sessions[id].user, sessions[id].provider} \subseteq Payable
           => ENABLED stopSession(sessions[id].user, id)

\* A record without a user is as the mapping's zero value.
EmptyIsZero ==
    \A id \in SessionId :
        /\ escrows[id].user = NoAddress => escrows[id] = ZeroEscrow
        /\ sessions[id].user = NoAddress =>
              sessions[id] = ZeroSession /\ ledger[id] = ZeroLedger

\* A stream is never paid for time before its start or after the present.
StreamClock ==
    \A id \in SessionId :
        /\ ledger[id].startedAt <= sessions[id].lastPaidAt
        /\ sessions[id].lastPaidAt <= now

\* The inductive invariant of the proofs.
IInv ==
    /\ TypeOK
    /\ EmptyIsZero
    /\ StreamClock
    /\ StreamConserved
    /\ DrawnAtRate
    /\ Solvency

=============================================================================
