----------------------------- MODULE Marketplace -----------------------------
(***************************************************************************)
(* The three contracts with the references that their constructors take:   *)
(* JobAuction reads ProviderRegistry and calls                             *)
(* DeploymentEscrow.startSession, and DeploymentEscrow.slashProvider calls *)
(* ProviderRegistry.slash.  A call between contracts is part of the        *)
(* caller's transaction.                                                   *)
(***************************************************************************)
EXTENDS Integers, Sequences, FiniteSets

CONSTANTS
    Account,            \* externally owned accounts, which all accept ETH
    Node,               \* the accounts that run a node and call the registry for it
    EscrowContract,     \* the address of DeploymentEscrow
    AuctionContract,    \* the address of JobAuction, which has no receive function
    NoAddress,
    Deployer,           \* owner of the contracts and, at first, every authority
    SlashAuthority,     \* what setSlashAuthority may be called with
    EscrowAuthority,    \* what setReleaseAuthority and setProofAuthority may be
    Fallback,           \* what setFallbackProvider may be called with
    Client,             \* the accounts that use the escrow directly
    Counterparty,       \* the providers that a client names
    Id,                 \* job ids, which are the session ids of the escrow
    DepositValue,       \* the msg.value of deposit
    SessionValue,       \* the msg.value of a direct startSession
    SessionRate,        \* the ratePerSecond of a direct startSession
    PostValue,          \* the msg.value of postJob
    Duration,           \* the durations of jobs
    PricePerHour,       \* ceilings and bids
    ListPrice,          \* the prices in the registry, which the auction ignores
    StakeValue,         \* the amounts staked and withdrawn
    MIN_STAKE, MaxStake, MaxCount, LOCKUP_PERIOD, BID_WINDOW, MaxTime

Party == Account \cup {EscrowContract, AuctionContract}

ASSUME MarketAssumptions ==
    /\ NoAddress \notin Party
    /\ {EscrowContract, AuctionContract} \cap Account = {}
    /\ IsFiniteSet(Account)
    /\ Node \subseteq Account
    /\ Deployer \in Account
    /\ Deployer \in SlashAuthority
    /\ SlashAuthority \subseteq Party
    /\ Deployer \in EscrowAuthority
    /\ EscrowAuthority \subseteq Account
    /\ Deployer \in Fallback
    /\ Fallback \subseteq Party \cup {NoAddress}
    /\ Client \subseteq Account
    /\ Counterparty \subseteq Party
    /\ IsFiniteSet(Id)
    /\ DepositValue \subseteq Nat
    /\ SessionValue \subseteq Nat
    /\ SessionRate \subseteq Nat
    /\ PostValue \subseteq Nat
    /\ Duration \subseteq Nat
    /\ PricePerHour \subseteq Nat
    /\ ListPrice \subseteq Nat
    /\ StakeValue \subseteq Nat
    /\ MIN_STAKE \in Nat \ {0}
    /\ {MaxStake, MaxCount, LOCKUP_PERIOD, BID_WINDOW, MaxTime} \subseteq Nat

VARIABLES
    providers, providerList, slashAuthority, stakeBalance,          \* ProviderRegistry
    escrows, sessions, releaseAuthority, proofAuthority,
    accruedFees, escrowBalance, ledger,                             \* DeploymentEscrow
    jobs, bids, hasBid, fallbackProvider, auctionBalance, deposits, \* JobAuction
    now                                                             \* block.timestamp

registryVars == <<providers, providerList, slashAuthority, stakeBalance>>
escrowVars == <<escrows, sessions, releaseAuthority, proofAuthority, accruedFees,
                escrowBalance, ledger>>
auctionVars == <<jobs, bids, hasBid, fallbackProvider, auctionBalance, deposits>>
vars == <<registryVars, escrowVars, auctionVars, now>>

R == INSTANCE ProviderRegistry WITH
        Address <- Party, Payable <- Account, InitialOwner <- Deployer,
        InitialSlashAuthority <- Deployer, Authority <- SlashAuthority,
        Endpoint <- {"", "https"}, EmptyEndpoint <- "", Price <- ListPrice,
        Value <- StakeValue, balance <- stakeBalance

E == INSTANCE DeploymentEscrow WITH
        Address <- Party, Payable <- Account, InitialOwner <- Deployer,
        InitialAuthority <- Deployer, Authority <- EscrowAuthority, SessionId <- Id,
        StreamValue <- SessionValue, Rate <- SessionRate,
        balance <- escrowBalance

A == INSTANCE JobAuction WITH
        Address <- Party, Payable <- Account, InitialOwner <- Deployer,
        InitialFallback <- Deployer, JobId <- Id,
        Deposit <- PostValue, Price <- PricePerHour,
        balance <- auctionBalance

Init == R!Init /\ E!Init /\ A!Init

-----------------------------------------------------------------------------
RegistryCall(sender) ==
    /\ (sender \in Node /\ R!ProviderCall(sender)) \/ R!AuthorityCall(sender)
    /\ UNCHANGED <<escrowVars, auctionVars, now>>

\* Every call of the escrow but slashProvider: they reach no other contract.
EscrowCall(sender) ==
    /\ \/ /\ sender \in Client
          /\ \E id \in Id, provider \in Counterparty :
                \/ \E value \in DepositValue : E!deposit(sender, id, provider, value)
                \/ \E rate \in SessionRate, value \in SessionValue :
                      E!startSession(sender, id, provider, rate, value)
       \/ \E id \in Id :
             \/ E!refund(sender, id) \/ E!release(sender, id) \/ E!dispute(sender, id)
             \/ \E toProvider \in BOOLEAN : E!resolveDispute(sender, id, toProvider)
             \/ E!releasePayment(sender, id) \/ E!submitProof(sender, id)
             \/ E!stopSession(sender, id)
       \/ E!AdminCall(sender)
    /\ UNCHANGED <<registryVars, auctionVars>>

\* Mutant of slashProvider: a refund that fails is given up, not reverted.
slashKeepingRefund(sender, id) ==
    /\ sender = proofAuthority
    /\ E!isActiveSession(id)
    /\ sessions' = [sessions EXCEPT ![id] = E!Closed(sessions[id])]
    /\ UNCHANGED <<escrows, releaseAuthority, proofAuthority, accruedFees,
                   escrowBalance, ledger, registryVars, auctionVars, now>>

\* Mutant of slashProvider: the call to the registry is in no try block.
slashProviderOrRevert(sender, id) ==
    /\ E!slashProvider(sender, id)
    /\ R!slash(EscrowContract, sessions[id].provider)
    /\ UNCHANGED auctionVars

\* The registry call is in a try block: when it reverts, its effects are
\* undone and the transaction goes on.
slashProvider(sender, id) ==
    LET provider == sessions[id].provider
    IN  /\ E!slashProvider(sender, id)
        /\ IF R!CanSlash(EscrowContract, provider)
           THEN R!slash(EscrowContract, provider)
           ELSE UNCHANGED registryVars
        /\ UNCHANGED auctionVars

\* The auction declares the registry's record without slashCount, so the
\* ABI decoder reads slashCount as jobsCompleted and jobsCompleted as the
\* flag active, and reverts when that is neither 0 nor 1.
Decodes(records) == \A i \in DOMAIN records : records[i].jobsCompleted \in {0, 1}

_requireSufficientStake(provider) ==
    LET active == R!getActiveProviders
    IN  /\ Decodes(active)
        /\ \E i \in DOMAIN active :
              active[i].wallet = provider /\ active[i].stakedAmount >= MIN_STAKE

submitBid(sender, id, price) ==
    /\ A!submitBid(sender, id, price, _requireSufficientStake(sender))
    /\ UNCHANGED <<registryVars, escrowVars>>

\* Mutant of closeAuction: the award stands when startSession fails.
closeAuctionAnyway(sender, id) ==
    /\ A!closeAuction(sender, id)
    /\ IF sessions[id].user = NoAddress
       THEN E!startSession(AuctionContract, id, A!Award(id).provider, A!Award(id).rate,
                           auctionBalance)
       ELSE UNCHANGED escrowVars
    /\ UNCHANGED registryVars

\* The session is opened by, and belongs to, the auction contract.
closeAuction(sender, id) ==
    /\ A!closeAuction(sender, id)
    /\ E!startSession(AuctionContract, id, A!Award(id).provider, A!Award(id).rate,
                      auctionBalance)
    /\ UNCHANGED registryVars

AuctionCall(sender) ==
    /\ \/ \E id \in Id, price \in PricePerHour, duration \in Duration, value \in PostValue :
             A!postJob(sender, id, price, duration, value)
       \/ \E id \in Id : A!cancelJob(sender, id)
       \/ \E newFallback \in Fallback : A!setFallbackProvider(sender, newFallback)
    /\ UNCHANGED <<registryVars, escrowVars>>

Tick ==
    /\ now < MaxTime
    /\ now' = now + 1
    /\ UNCHANGED <<registryVars, escrowVars, auctionVars>>

Next ==
    \/ \E sender \in Account :
          \/ RegistryCall(sender)
          \/ \E id \in Id : slashProvider(sender, id)
          \/ EscrowCall(sender)
          \/ AuctionCall(sender)
          \/ \E id \in Id, price \in PricePerHour : submitBid(sender, id, price)
          \/ \E id \in Id : closeAuction(sender, id)
    \/ Tick

Spec == Init /\ [][Next]_vars

-----------------------------------------------------------------------------
(* Properties. *)

\* An award and the session it starts are one transaction: an awarded job has
\* a session for the winner at the winning rate, under the job's id, also when
\* somebody else used the id for a session of their own before.
AwardIsSession ==
    \A id \in Id :
        jobs[id].status = "Awarded" =>
            /\ sessions[id].user = AuctionContract
            /\ sessions[id].provider = jobs[id].winningProvider
            /\ sessions[id].ratePerSecond = jobs[id].winningRatePerSecond

\* Nothing that was forwarded for a job ever leaves its session but to the
\* provider: the session's user is the auction, which cannot call stopSession
\* and takes no refund.  So a session of an award is closed only once the
\* provider has drawn everything, whatever proof of misbehaviour there is.
AwardIsSpent ==
    \A id \in Id :
        jobs[id].status = "Awarded" =>
            /\ ledger[id].refunded = 0
            /\ sessions[id].isActive \/ ledger[id].drawn = ledger[id].escrowed

\* A slash always gives the user of a session its remaining balance, whatever
\* the registry makes of it: a provider that never registered or has left, an
\* authority that was taken from the escrow, another slash before.  The bound
\* MaxCount is not the code's, so a state at the bound is left out.
SlashRefundCompletes ==
    \A id \in Id :
        /\ E!isActiveSession(id)
        /\ sessions[id].user \in Account
        /\ providers[sessions[id].provider].slashCount < MaxCount
        => ENABLED slashProvider(proofAuthority, id)

=============================================================================
