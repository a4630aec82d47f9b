-------------------------- MODULE MarketplaceProofs --------------------------
(***************************************************************************)
(* Proofs about the three contracts together, for any accounts, jobs,      *)
(* prices, amounts and times.  The lemmas that each contract takes only    *)
(* steps of its own specification carry over what is proved of it alone;   *)
(* the theorems on awards relate the auction to the escrow.                *)
(***************************************************************************)
EXTENDS Marketplace, FiniteSetTheorems, TLAPS

-----------------------------------------------------------------------------
(* The contracts alone. *)

\* What is proved of each contract on its own, for the accounts of the
\* marketplace, and of the escrow with no bound on the ETH and the rate of
\* a session: those of an award come from the auction.
EscrowProofs == INSTANCE DeploymentEscrowProofs WITH
        Address <- Party, Payable <- Account, InitialOwner <- Deployer,
        InitialAuthority <- Deployer, Authority <- EscrowAuthority, SessionId <- Id,
        StreamValue <- Nat, Rate <- Nat,
        balance <- escrowBalance

RegistryProofs == INSTANCE ProviderRegistryProofs WITH
        Address <- Party, Payable <- Account, InitialOwner <- Deployer,
        InitialSlashAuthority <- Deployer, Authority <- SlashAuthority,
        Endpoint <- {"", "https"}, EmptyEndpoint <- "", Price <- ListPrice,
        Value <- StakeValue, balance <- stakeBalance

AuctionProofs == INSTANCE JobAuctionProofs WITH
        Address <- Party, Payable <- Account, InitialOwner <- Deployer,
        InitialFallback <- Deployer, JobId <- Id,
        Deposit <- PostValue, Price <- PricePerHour,
        balance <- auctionBalance

-----------------------------------------------------------------------------
(* The auction. *)

\* A transaction takes no time.
LEMMA EscrowClock == \A sender : EscrowCall(sender) => UNCHANGED now
<1> SUFFICES ASSUME NEW sender, EscrowCall(sender)
             PROVE  UNCHANGED now
  OBVIOUS
<1>1. ASSUME NEW id, \/ E!refund(sender, id) \/ E!release(sender, id) \/ E!dispute(sender, id)
                     \/ \E toProvider \in BOOLEAN : E!resolveDispute(sender, id, toProvider)
      PROVE  UNCHANGED now
  BY <1>1 DEF E!refund, E!release, E!dispute, E!resolveDispute, E!RefundUser,
     E!ReleaseToProvider
<1>2. ASSUME NEW id, \/ E!releasePayment(sender, id) \/ E!submitProof(sender, id)
                     \/ E!stopSession(sender, id)
      PROVE  UNCHANGED now
  BY <1>2 DEF E!releasePayment, E!submitProof, E!stopSession, E!_releaseAccrued
<1>3. ASSUME NEW id, NEW provider, NEW value, E!deposit(sender, id, provider, value)
      PROVE  UNCHANGED now
  BY <1>3 DEF E!deposit
<1>4. ASSUME NEW id, NEW provider, NEW rate, NEW value,
             E!startSession(sender, id, provider, rate, value)
      PROVE  UNCHANGED now
  BY <1>4 DEF E!startSession
<1>5. E!AdminCall(sender) => UNCHANGED now
  BY DEF E!AdminCall, E!withdrawFees, E!setReleaseAuthority, E!setProofAuthority
<1>6. QED
  BY <1>1, <1>2, <1>3, <1>4, <1>5, Zenon DEF EscrowCall

\* A transaction of the marketplace is a call of the auction or leaves it alone.
LEMMA AuctionStep == [Next]_vars => [A!Next]_(A!vars)
<1> SUFFICES ASSUME Next
             PROVE  [A!Next]_(A!vars)
  BY DEF vars, auctionVars, A!vars
<1> USE DEF auctionVars, A!vars, A!Next, A!Call
<1>1. Account \subseteq Party
  BY DEF Party
<1>2. ASSUME NEW sender \in Account, RegistryCall(sender)
      PROVE  UNCHANGED A!vars
  BY <1>2 DEF RegistryCall
<1>3. ASSUME NEW sender \in Account, NEW id \in Id, slashProvider(sender, id)
      PROVE  UNCHANGED A!vars
  BY <1>3 DEF slashProvider, E!slashProvider
<1>4. ASSUME NEW sender \in Account, EscrowCall(sender)
      PROVE  UNCHANGED A!vars
  BY <1>4, EscrowClock DEF EscrowCall
<1>5. ASSUME NEW sender \in Account, AuctionCall(sender)
      PROVE  A!Next
  <2>1. CASE \E id \in Id, price \in PricePerHour, duration \in Duration, value \in PostValue :
                A!postJob(sender, id, price, duration, value)
    BY <1>1, <2>1
  <2>2. CASE \E id \in Id : A!cancelJob(sender, id)
    BY <1>1, <2>2
  <2>3. CASE \E newFallback \in Fallback : A!setFallbackProvider(sender, newFallback)
    BY <1>1, <2>3
  <2>4. QED
    BY <1>5, <2>1, <2>2, <2>3 DEF AuctionCall
<1>6. ASSUME NEW sender \in Account, NEW id \in Id, NEW price \in PricePerHour,
             submitBid(sender, id, price)
      PROVE  A!Next
  <2>1. _requireSufficientStake(sender) \in BOOLEAN
    BY DEF _requireSufficientStake, Decodes
  <2>2. A!submitBid(sender, id, price, _requireSufficientStake(sender))
    BY <1>6 DEF submitBid
  <2>3. QED
    BY <1>1, <2>1, <2>2
<1>7. ASSUME NEW sender \in Account, NEW id \in Id, closeAuction(sender, id)
      PROVE  A!Next
  BY <1>1, <1>7 DEF closeAuction
<1>8. CASE Tick
  BY <1>8 DEF Tick, A!Tick
<1>9. QED
  BY <1>2, <1>3, <1>4, <1>5, <1>6, <1>7, <1>8 DEF Next

\* The auction takes only steps of its own specification.
LEMMA AuctionRefined == Spec => A!Spec
<1>1. Init => A!Init
  BY DEF Init
<1>2. QED
  BY <1>1, AuctionStep, PTL DEF Spec, A!Spec

\* The two settlements are one operator, instantiated twice.
LEMMA AwardAgrees == \A id : A!Award(id) = AuctionProofs!Award(id)
<1>1. \A s : A!Winner(s) = AuctionProofs!Winner(s)
  BY Zenon DEF A!Winner, A!Beats, AuctionProofs!Winner, AuctionProofs!Beats
<1>2. \A price : A!ratePerSecond(price) = AuctionProofs!ratePerSecond(price)
  BY DEF A!ratePerSecond, A!SECONDS_PER_HOUR, AuctionProofs!ratePerSecond,
     AuctionProofs!SECONDS_PER_HOUR
<1>3. QED
  BY <1>1, <1>2 DEF A!Award, AuctionProofs!Award

\* The auction as its proofs know it.
LEMMA AuctionSpec == Spec => AuctionProofs!Spec
<1>1. ASSUME A!Next
      PROVE  AuctionProofs!Next
  <2> USE DEF A!IsOpen, AuctionProofs!IsOpen
  <2>1. ASSUME NEW sender, A!Call(sender)
        PROVE  AuctionProofs!Call(sender)
    <3>1. ASSUME NEW id, NEW maxPrice, NEW duration, NEW value,
                 A!postJob(sender, id, maxPrice, duration, value)
          PROVE  AuctionProofs!postJob(sender, id, maxPrice, duration, value)
      BY <3>1 DEF A!postJob, AuctionProofs!postJob
    <3>2. ASSUME NEW id, A!cancelJob(sender, id)
          PROVE  AuctionProofs!cancelJob(sender, id)
      BY <3>2 DEF A!cancelJob, AuctionProofs!cancelJob
    <3>3. ASSUME NEW id, NEW price, NEW staked, A!submitBid(sender, id, price, staked)
          PROVE  AuctionProofs!submitBid(sender, id, price, staked)
      BY <3>3 DEF A!submitBid, AuctionProofs!submitBid
    <3>4. ASSUME NEW id, A!closeAuction(sender, id)
          PROVE  AuctionProofs!closeAuction(sender, id)
      BY <3>4, AwardAgrees DEF A!closeAuction, AuctionProofs!closeAuction
    <3>5. ASSUME NEW newFallback, A!setFallbackProvider(sender, newFallback)
          PROVE  AuctionProofs!setFallbackProvider(sender, newFallback)
      BY <3>5 DEF A!setFallbackProvider, A!owner, AuctionProofs!setFallbackProvider,
         AuctionProofs!owner
    <3>6. QED
      BY <2>1, <3>1, <3>2, <3>3, <3>4, <3>5, Zenon DEF A!Call, AuctionProofs!Call
  <2>2. A!Tick => AuctionProofs!Tick
    BY DEF A!Tick, AuctionProofs!Tick
  <2>3. QED
    BY <1>1, <2>1, <2>2, Zenon DEF A!Next, AuctionProofs!Next
<1>2. UNCHANGED A!vars => UNCHANGED AuctionProofs!vars
  BY DEF A!vars, AuctionProofs!vars
<1>3. A!Init => AuctionProofs!Init
  BY DEF A!Init, A!ZeroJob, AuctionProofs!Init, AuctionProofs!ZeroJob
<1>4. [A!Next]_(A!vars) => [AuctionProofs!Next]_(AuctionProofs!vars)
  BY <1>1, <1>2
<1>5. QED
  BY <1>3, <1>4, AuctionRefined, PTL DEF A!Spec, AuctionProofs!Spec

LEMMA AuctionConstants ==
    /\ NoAddress \notin Party
    /\ Account \subseteq Party
    /\ Deployer \in Party
    /\ Deployer \in Fallback
    /\ Fallback \subseteq Party \cup {NoAddress}
    /\ AuctionProofs!IsFiniteSet(Id)
    /\ PostValue \subseteq Nat
    /\ PricePerHour \subseteq Nat
    /\ Duration \subseteq Nat
    /\ BID_WINDOW \in Nat
    /\ MaxTime \in Nat
BY MarketAssumptions DEF Party, IsFiniteSet, AuctionProofs!IsFiniteSet

LEMMA AuctionInvariance == Spec => []AuctionProofs!AuctionInv
<1>1. AuctionProofs!Spec => []AuctionProofs!AuctionInv
  BY AuctionConstants, AuctionProofs!Invariance
<1>2. QED
  BY <1>1, AuctionSpec, PTL

\* In the marketplace as well, every award goes to the lowest bid, and the
\* auction keeps no ETH for jobs that are over.
THEOREM MarketAwardsLowestBid ==
    Spec => [](AuctionProofs!AwardIsLowestBid /\ AuctionProofs!HeldForOpenJobs)
<1>1. /\ AuctionProofs!Spec => []AuctionProofs!AwardIsLowestBid
      /\ AuctionProofs!Spec => []AuctionProofs!HeldForOpenJobs
  BY AuctionConstants, AuctionProofs!LowestBidWins, AuctionProofs!NothingIsLeftBehind
<1>2. QED
  BY <1>1, AuctionSpec, PTL

-----------------------------------------------------------------------------
(* The escrow and the registry. *)

\* A transaction of the marketplace is a call of the escrow or leaves it alone.
LEMMA EscrowStep == AuctionProofs!AuctionInv /\ [Next]_vars => [EscrowProofs!Next]_(EscrowProofs!vars)
<1> SUFFICES ASSUME AuctionProofs!AuctionInv, Next
             PROVE  [EscrowProofs!Next]_(EscrowProofs!vars)
  BY DEF vars, escrowVars, EscrowProofs!vars
<1> USE DEF escrowVars, EscrowProofs!vars
<1>1. /\ Account \subseteq Party /\ AuctionContract \in Party /\ Client \subseteq Party
      /\ Counterparty \subseteq Party /\ SessionValue \subseteq Nat /\ SessionRate \subseteq Nat
  BY MarketAssumptions DEF Party
<1>2. ASSUME NEW sender \in Account, RegistryCall(sender)
      PROVE  UNCHANGED EscrowProofs!vars
  BY <1>2 DEF RegistryCall
<1>3. ASSUME NEW sender \in Account, NEW id \in Id, slashProvider(sender, id)
      PROVE  EscrowProofs!Next
  <2>1. EscrowProofs!slashProvider(sender, id)
    BY <1>3 DEF slashProvider, E!slashProvider, E!isActiveSession, E!Pays, E!Closed, E!Recorded,
       E!config, E!owner, EscrowProofs!slashProvider, EscrowProofs!isActiveSession,
       EscrowProofs!Pays, EscrowProofs!Closed, EscrowProofs!Recorded, EscrowProofs!config,
       EscrowProofs!owner
  <2>2. QED
    BY <1>1, <2>1 DEF EscrowProofs!Next, EscrowProofs!SlashCall
<1>4. ASSUME NEW sender \in Party, NEW id \in Id, NEW provider \in Party, NEW rate \in Nat,
             NEW value \in Nat, E!startSession(sender, id, provider, rate, value)
      PROVE  EscrowProofs!Next
  <2>1. EscrowProofs!startSession(sender, id, provider, rate, value)
    BY <1>4 DEF E!startSession, E!Upfront, E!UPFRONT_BPS, E!BPS_DENOM, E!config,
       EscrowProofs!startSession, EscrowProofs!Upfront, EscrowProofs!UPFRONT_BPS,
       EscrowProofs!BPS_DENOM, EscrowProofs!config
  <2>2. QED
    BY <1>1, <2>1 DEF EscrowProofs!Next, EscrowProofs!StreamCall
<1>5. ASSUME NEW sender \in Account, EscrowCall(sender)
      PROVE  EscrowProofs!Next
  <2>1. ASSUME NEW id \in Id, NEW provider \in Counterparty, NEW rate \in SessionRate,
               NEW value \in SessionValue, E!startSession(sender, id, provider, rate, value)
        PROVE  EscrowProofs!Next
    BY <1>1, <1>4, <2>1
  <2> USE DEF E!pendingPayment, E!ProviderPaid, E!Pays, E!Drained, E!Closed, E!Recorded, E!Fee,
        E!FEE_BPS, E!BPS_DENOM, E!isActiveSession, E!config, E!owner,
        EscrowProofs!pendingPayment, EscrowProofs!ProviderPaid, EscrowProofs!Pays,
        EscrowProofs!Drained, EscrowProofs!Closed, EscrowProofs!Recorded, EscrowProofs!Fee,
        EscrowProofs!FEE_BPS, EscrowProofs!BPS_DENOM, EscrowProofs!isActiveSession,
        EscrowProofs!config, EscrowProofs!owner
  <2>2. ASSUME NEW id \in Id, E!releasePayment(sender, id)
        PROVE  EscrowProofs!Next
    <3>1. EscrowProofs!releasePayment(sender, id)
      BY <2>2 DEF E!releasePayment, E!_releaseAccrued, EscrowProofs!releasePayment,
         EscrowProofs!_releaseAccrued
    <3>2. QED
      BY <1>1, <3>1 DEF EscrowProofs!Next, EscrowProofs!StreamCall
  <2>3. ASSUME NEW id \in Id, E!stopSession(sender, id)
        PROVE  EscrowProofs!Next
    <3>1. EscrowProofs!stopSession(sender, id)
      BY <2>3 DEF E!stopSession, EscrowProofs!stopSession
    <3>2. QED
      BY <1>1, <3>1 DEF EscrowProofs!Next, EscrowProofs!StreamCall
  <2>4. ASSUME E!withdrawFees(sender)
        PROVE  EscrowProofs!Next
    <3>1. EscrowProofs!withdrawFees(sender)
      BY <2>4 DEF E!withdrawFees, EscrowProofs!withdrawFees
    <3>2. QED
      BY <1>1, <3>1 DEF EscrowProofs!Next, EscrowProofs!AdminCall
  <2>5. ASSUME NEW id \in Id, E!submitProof(sender, id)
        PROVE  EscrowProofs!Next
    <3>1. EscrowProofs!submitProof(sender, id)
      BY <2>5 DEF E!submitProof, E!_releaseAccrued, EscrowProofs!submitProof,
         EscrowProofs!_releaseAccrued
    <3>2. QED
      BY <1>1, <3>1 DEF EscrowProofs!Next, EscrowProofs!StreamCall
  <2>6. ASSUME NEW id \in Id, NEW provider \in Counterparty, NEW value \in DepositValue,
               E!deposit(sender, id, provider, value)
        PROVE  EscrowProofs!Next
    <3>1. EscrowProofs!deposit(sender, id, provider, value) /\ provider \in Party
      BY <1>1, <2>6 DEF E!deposit, EscrowProofs!deposit
    <3>2. QED
      BY <1>1, <3>1 DEF EscrowProofs!Next, EscrowProofs!EscrowCall
  <2>7. ASSUME NEW id \in Id,
               \/ E!refund(sender, id) \/ E!release(sender, id) \/ E!dispute(sender, id)
               \/ \E toProvider \in BOOLEAN : E!resolveDispute(sender, id, toProvider)
        PROVE  EscrowProofs!Next
    <3> USE DEF E!IsPending, E!RefundUser, E!ReleaseToProvider, EscrowProofs!IsPending,
          EscrowProofs!RefundUser, EscrowProofs!ReleaseToProvider
    <3>1. E!refund(sender, id) => EscrowProofs!refund(sender, id)
      BY DEF E!refund, EscrowProofs!refund
    <3>2. E!release(sender, id) => EscrowProofs!release(sender, id)
      BY DEF E!release, EscrowProofs!release
    <3>3. E!dispute(sender, id) => EscrowProofs!dispute(sender, id)
      BY DEF E!dispute, EscrowProofs!dispute
    <3>4. ASSUME NEW toProvider \in BOOLEAN, E!resolveDispute(sender, id, toProvider)
          PROVE  EscrowProofs!resolveDispute(sender, id, toProvider)
      BY <3>4 DEF E!resolveDispute, EscrowProofs!resolveDispute
    <3>5. EscrowProofs!EscrowCall(sender)
      BY <2>7, <3>1, <3>2, <3>3, <3>4, Zenon DEF EscrowProofs!EscrowCall
    <3>6. QED
      BY <1>1, <3>5 DEF EscrowProofs!Next
  <2>8. ASSUME NEW newAuthority \in EscrowAuthority,
               \/ E!setReleaseAuthority(sender, newAuthority)
               \/ E!setProofAuthority(sender, newAuthority)
        PROVE  EscrowProofs!Next
    <3>1. \/ EscrowProofs!setReleaseAuthority(sender, newAuthority)
          \/ EscrowProofs!setProofAuthority(sender, newAuthority)
      BY <2>8 DEF E!setReleaseAuthority, E!setProofAuthority,
         EscrowProofs!setReleaseAuthority, EscrowProofs!setProofAuthority
    <3>2. EscrowProofs!AdminCall(sender)
      BY <3>1 DEF EscrowProofs!AdminCall
    <3>3. QED
      BY <1>1, <3>2 DEF EscrowProofs!Next
  <2>9. QED
    BY <1>5, <2>1, <2>2, <2>3, <2>4, <2>5, <2>6, <2>7, <2>8, Zenon DEF EscrowCall, E!AdminCall
<1>6. ASSUME NEW sender \in Account, AuctionCall(sender)
      PROVE  UNCHANGED EscrowProofs!vars
  BY <1>6 DEF AuctionCall, A!postJob, A!cancelJob, A!setFallbackProvider
<1>7. ASSUME NEW sender \in Account, NEW id \in Id, NEW price \in PricePerHour,
             submitBid(sender, id, price)
      PROVE  UNCHANGED EscrowProofs!vars
  BY <1>7 DEF submitBid, A!submitBid
<1>8. ASSUME NEW sender \in Account, NEW id \in Id, closeAuction(sender, id)
      PROVE  EscrowProofs!Next
  <2>1. E!startSession(AuctionContract, id, A!Award(id).provider, A!Award(id).rate, auctionBalance)
    BY <1>8 DEF closeAuction
  <2>2. A!Award(id).provider \in Party
    BY <1>1, <1>8 DEF closeAuction, A!closeAuction
  <2>3. A!Award(id).rate \in Nat /\ auctionBalance \in Nat
    BY AuctionConstants, AwardAgrees, AuctionProofs!AwardIsLowest
       DEF AuctionProofs!AuctionInv, AuctionProofs!TypeOK
  <2>4. QED
    BY <1>1, <1>4, <2>1, <2>2, <2>3
<1>9. CASE Tick
  BY <1>9 DEF Tick, EscrowProofs!Next, EscrowProofs!Tick, EscrowProofs!config
<1>10. QED
  BY <1>2, <1>3, <1>5, <1>6, <1>7, <1>8, <1>9 DEF Next

\* The assumptions that the two contracts make on their constants.
LEMMA EscrowConstants ==
    /\ NoAddress \notin Party
    /\ Account \subseteq Party
    /\ Deployer \in Party
    /\ Deployer \in EscrowAuthority
    /\ EscrowAuthority \subseteq Party
    /\ EscrowProofs!IsFiniteSet(Id)
    /\ DepositValue \subseteq Nat
    /\ Nat \subseteq Nat
    /\ LOCKUP_PERIOD \in Nat
    /\ MaxTime \in Nat
BY MarketAssumptions DEF Party, IsFiniteSet, EscrowProofs!IsFiniteSet

LEMMA RegistryConstants ==
    /\ NoAddress \notin Party
    /\ RegistryProofs!IsFiniteSet(Party)
    /\ Account \subseteq Party
    /\ Deployer \in Party
    /\ Deployer \in SlashAuthority
    /\ SlashAuthority \subseteq Party
    /\ "" \in {"", "https"}
    /\ ListPrice \subseteq Nat
    /\ StakeValue \subseteq Nat
    /\ MIN_STAKE \in Nat \ {0}
    /\ MaxStake \in Nat
    /\ MaxCount \in Nat
<1>1. IsFiniteSet(Party)
  <2>1. IsFiniteSet({EscrowContract}) /\ IsFiniteSet({AuctionContract})
    BY FS_Singleton
  <2>2. IsFiniteSet({EscrowContract} \cup {AuctionContract})
    BY <2>1, FS_Union
  <2>3. IsFiniteSet(Account \cup ({EscrowContract} \cup {AuctionContract}))
    BY <2>2, MarketAssumptions, FS_Union
  <2>4. Party = Account \cup ({EscrowContract} \cup {AuctionContract})
    BY DEF Party
  <2>5. QED
    BY <2>3, <2>4
<1>2. RegistryProofs!IsFiniteSet(Party)
  BY <1>1 DEF IsFiniteSet, RegistryProofs!IsFiniteSet
<1>3. QED
  BY <1>2, MarketAssumptions DEF Party

\* The escrow takes only steps of its own specification: closeAuction
\* and the call to the registry in slashProvider bypass none of its guards.
LEMMA EscrowRefined == Spec => EscrowProofs!Spec
<1>1. Init => EscrowProofs!Init
  BY DEF Init, E!Init, E!ZeroEscrow, E!ZeroSession, E!ZeroLedger, EscrowProofs!Init,
     EscrowProofs!ZeroEscrow, EscrowProofs!ZeroSession, EscrowProofs!ZeroLedger
<1>2. QED
  BY <1>1, AuctionInvariance, EscrowStep, PTL DEF Spec, EscrowProofs!Spec

LEMMA EscrowInvariance == Spec => []EscrowProofs!IInv
<1>1. EscrowProofs!Spec => []EscrowProofs!IInv
  BY EscrowConstants, EscrowProofs!Invariance
<1>2. QED
  BY <1>1, EscrowRefined, PTL

\* Who opened a session, for which provider and at which rate.
SessionKept(id) ==
    /\ sessions'[id].user = sessions[id].user
    /\ sessions'[id].provider = sessions[id].provider
    /\ sessions'[id].ratePerSecond = sessions[id].ratePerSecond

\* A call of the escrow opens a session for an account, or leaves its parties
\* and its rate as they are.
LEMMA SessionStep ==
    ASSUME EscrowProofs!TypeOK, [EscrowProofs!Next]_(EscrowProofs!vars), NEW id \in Id
    PROVE  \/ SessionKept(id)
           \/ sessions[id].user = NoAddress /\ sessions'[id].provider \in Account
<1> DEFINE Goal == \/ SessionKept(id)
                   \/ sessions[id].user = NoAddress /\ sessions'[id].provider \in Account
<1>1. sessions \in [Id -> EscrowProofs!Session]
  BY DEF EscrowProofs!TypeOK
<1>2. sessions[id] \in EscrowProofs!Session
  BY <1>1
<1>3. UNCHANGED sessions => Goal
  BY DEF SessionKept
<1>4. ASSUME NEW sender, EscrowProofs!EscrowCall(sender) \/ EscrowProofs!AdminCall(sender)
      PROVE  Goal
  <2>1. UNCHANGED sessions
    BY <1>4 DEF EscrowProofs!EscrowCall, EscrowProofs!AdminCall, EscrowProofs!deposit,
       EscrowProofs!refund, EscrowProofs!release, EscrowProofs!dispute,
       EscrowProofs!resolveDispute, EscrowProofs!RefundUser, EscrowProofs!ReleaseToProvider,
       EscrowProofs!withdrawFees, EscrowProofs!setReleaseAuthority,
       EscrowProofs!setProofAuthority
  <2>2. QED
    BY <1>3, <2>1
<1>5. ASSUME NEW k \in Id, NEW sender, NEW provider, NEW rate, NEW value,
             EscrowProofs!startSession(sender, k, provider, rate, value)
      PROVE  Goal
  <2>1. /\ sessions[k].user = NoAddress /\ provider \in Account
        /\ sessions' = [sessions EXCEPT ![k] =
              [user |-> sender, provider |-> provider, ratePerSecond |-> rate,
               remainingBalance |-> value - EscrowProofs!Upfront(value), lastPaidAt |-> now,
               isActive |-> TRUE]]
    BY <1>5 DEF EscrowProofs!startSession
  <2>2. CASE k = id
    BY <1>1, <2>1, <2>2
  <2>3. CASE k # id
    BY <1>1, <2>1, <2>3 DEF SessionKept
  <2>4. QED
    BY <2>2, <2>3
<1>6. ASSUME NEW k \in Id, NEW s1, sessions' = [sessions EXCEPT ![k] = s1],
             s1.user = sessions[k].user, s1.provider = sessions[k].provider,
             s1.ratePerSecond = sessions[k].ratePerSecond
      PROVE  Goal
  BY <1>1, <1>6 DEF SessionKept
<1>7. ASSUME NEW k \in Id
      PROVE  LET d == EscrowProofs!Drained(k)
                 s == sessions[k]
             IN  /\ d.user = s.user /\ d.provider = s.provider
                 /\ d.ratePerSecond = s.ratePerSecond
                 /\ EscrowProofs!Closed(d).user = s.user
                 /\ EscrowProofs!Closed(d).provider = s.provider
                 /\ EscrowProofs!Closed(d).ratePerSecond = s.ratePerSecond
                 /\ EscrowProofs!Closed(s).user = s.user
                 /\ EscrowProofs!Closed(s).provider = s.provider
                 /\ EscrowProofs!Closed(s).ratePerSecond = s.ratePerSecond
  <2>1. sessions[k] \in EscrowProofs!Session
    BY <1>1
  <2>2. EscrowProofs!Drained(k) = sessions[k]
        \/ EscrowProofs!Drained(k) =
             [sessions[k] EXCEPT !.remainingBalance = @ - EscrowProofs!pendingPayment(k),
                                 !.lastPaidAt = now]
    BY DEF EscrowProofs!Drained
  <2> HIDE DEF EscrowProofs!Drained
  <2>3. QED
    BY <2>1, <2>2 DEF EscrowProofs!Session, EscrowProofs!Closed
<1>8. ASSUME NEW sender, EscrowProofs!StreamCall(sender) \/ EscrowProofs!SlashCall(sender)
      PROVE  Goal
  <2>1. CASE \E k \in Id : EscrowProofs!releasePayment(sender, k)
                           \/ EscrowProofs!submitProof(sender, k)
    <3>1. PICK k \in Id : sessions' = [sessions EXCEPT ![k] = EscrowProofs!Drained(k)]
      BY <2>1 DEF EscrowProofs!releasePayment, EscrowProofs!submitProof,
         EscrowProofs!_releaseAccrued
    <3>2. QED
      BY <1>6, <1>7, <3>1
  <2>2. CASE \E k \in Id : EscrowProofs!stopSession(sender, k)
    <3>1. PICK k \in Id :
             sessions' = [sessions EXCEPT ![k] = EscrowProofs!Closed(EscrowProofs!Drained(k))]
      BY <2>2 DEF EscrowProofs!stopSession
    <3>2. QED
      BY <1>6, <1>7, <3>1
  <2>3. CASE \E k \in Id : EscrowProofs!slashProvider(sender, k)
    <3>1. PICK k \in Id : sessions' = [sessions EXCEPT ![k] = EscrowProofs!Closed(sessions[k])]
      BY <2>3 DEF EscrowProofs!slashProvider
    <3>2. QED
      BY <1>6, <1>7, <3>1
  <2>4. QED
    BY <1>5, <1>8, <2>1, <2>2, <2>3 DEF EscrowProofs!StreamCall, EscrowProofs!SlashCall
<1>9. CASE EscrowProofs!Tick \/ UNCHANGED EscrowProofs!vars
  BY <1>3, <1>9 DEF EscrowProofs!Tick, EscrowProofs!vars
<1>10. QED
  BY <1>4, <1>8, <1>9 DEF EscrowProofs!Next

\* Every session that was started has a provider with an account of its own.
ProvidersHaveAccounts ==
    \A id \in Id : sessions[id].user # NoAddress => sessions[id].provider \in Account

LEMMA ProviderInvariance == Spec => []ProvidersHaveAccounts
<1>1. EscrowProofs!Init => ProvidersHaveAccounts
  BY DEF EscrowProofs!Init, EscrowProofs!ZeroSession, ProvidersHaveAccounts
<1>2. ASSUME ProvidersHaveAccounts, EscrowProofs!IInv,
             [EscrowProofs!Next]_(EscrowProofs!vars)
      PROVE  ProvidersHaveAccounts'
  <2>1. EscrowProofs!TypeOK
    BY <1>2 DEF EscrowProofs!IInv
  <2>2. ASSUME NEW id \in Id, sessions'[id].user # NoAddress
        PROVE  sessions'[id].provider \in Account
    BY <1>2, <2>1, <2>2, SessionStep DEF SessionKept, ProvidersHaveAccounts
  <2>3. QED
    BY <2>2 DEF ProvidersHaveAccounts
<1>3. QED
  BY <1>1, <1>2, EscrowRefined, EscrowInvariance, PTL DEF EscrowProofs!Spec

\* A transaction of the marketplace is a call of the registry or leaves it
\* alone: the slash of a session's provider comes from the escrow's address.
LEMMA RegistryStep == ProvidersHaveAccounts /\ [Next]_vars => [R!Next]_(R!vars)
<1> SUFFICES ASSUME ProvidersHaveAccounts, Next
             PROVE  [R!Next]_(R!vars)
  BY DEF vars, registryVars, R!vars
<1> USE DEF registryVars, R!vars
<1>1. Account \subseteq Party /\ EscrowContract \in Party
  BY DEF Party
<1>2. ASSUME NEW sender \in Account, RegistryCall(sender)
      PROVE  R!Next
  BY <1>1, <1>2 DEF RegistryCall, R!Next
<1>3. ASSUME NEW sender \in Account, NEW id \in Id, slashProvider(sender, id)
      PROVE  [R!Next]_(R!vars)
  <2>1. sessions[id].provider \in Party
    BY <1>1, <1>3 DEF slashProvider, E!slashProvider, E!isActiveSession, ProvidersHaveAccounts
  <2>2. R!slash(EscrowContract, sessions[id].provider) \/ UNCHANGED R!vars
    BY <1>3 DEF slashProvider
  <2>3. QED
    BY <1>1, <2>1, <2>2 DEF R!Next, R!AuthorityCall
<1>4. ASSUME NEW sender \in Account, EscrowCall(sender) \/ AuctionCall(sender)
      PROVE  UNCHANGED R!vars
  BY <1>4 DEF EscrowCall, AuctionCall
<1>5. ASSUME NEW sender \in Account, NEW id \in Id, NEW price \in PricePerHour,
             submitBid(sender, id, price) \/ closeAuction(sender, id)
      PROVE  UNCHANGED R!vars
  BY <1>5 DEF submitBid, closeAuction
<1>6. ASSUME NEW sender \in Account, NEW id \in Id, closeAuction(sender, id)
      PROVE  UNCHANGED R!vars
  BY <1>6 DEF closeAuction
<1>7. CASE Tick
  BY <1>7 DEF Tick
<1>8. QED
  BY <1>2, <1>3, <1>4, <1>5, <1>6, <1>7 DEF Next

\* The registry takes only steps of its own specification.
LEMMA RegistryRefined == Spec => R!Spec
<1>1. Init => R!Init
  BY DEF Init
<1>2. QED
  BY <1>1, ProviderInvariance, RegistryStep, PTL DEF Spec, R!Spec

\* AwardIsSession for one job.
AwardedSession(id) ==
    jobs[id].status = "Awarded" =>
        /\ sessions[id].user = AuctionContract
        /\ sessions[id].provider = jobs[id].winningProvider
        /\ sessions[id].ratePerSecond = jobs[id].winningRatePerSecond

\* Only closeAuction awards a job.
LEMMA AwardedBefore ==
    ASSUME AuctionProofs!AuctionInv, Next, NEW id \in Id, jobs'[id].status = "Awarded",
           \A sender \in Account : ~closeAuction(sender, id)
    PROVE  jobs'[id] = jobs[id]
<1>1. jobs \in [Id -> AuctionProofs!JobRequest] /\ jobs[id] \in AuctionProofs!JobRequest
  BY DEF AuctionProofs!AuctionInv, AuctionProofs!TypeOK
<1>2. ASSUME UNCHANGED jobs
      PROVE  jobs'[id] = jobs[id]
  BY <1>2
<1>3. ASSUME NEW sender \in Account, AuctionCall(sender)
      PROVE  jobs'[id] = jobs[id]
  <2>1. ASSUME NEW k \in Id, NEW price, NEW duration, NEW value,
               A!postJob(sender, k, price, duration, value)
        PROVE  jobs'[id] = jobs[id]
    BY <1>1, <2>1 DEF A!postJob
  <2>2. ASSUME NEW k \in Id, A!cancelJob(sender, k)
        PROVE  jobs'[id] = jobs[id]
    <3>1. CASE k = id
      <4>1. jobs'[id].status = "Cancelled"
        BY <1>1, <2>2, <3>1 DEF A!cancelJob, AuctionProofs!JobRequest
      <4>2. QED
        BY <4>1
    <3>2. CASE k # id
      BY <1>1, <2>2, <3>2 DEF A!cancelJob
    <3>3. QED
      BY <3>1, <3>2
  <2>3. ASSUME NEW newFallback, A!setFallbackProvider(sender, newFallback)
        PROVE  jobs'[id] = jobs[id]
    BY <2>3 DEF A!setFallbackProvider
  <2>4. QED
    BY <1>3, <2>1, <2>2, <2>3 DEF AuctionCall
<1>4. ASSUME NEW sender \in Account, NEW k \in Id, closeAuction(sender, k)
      PROVE  jobs'[id] = jobs[id]
  <2>1. k # id
    BY <1>4
  <2>2. QED
    BY <1>1, <1>4, <2>1 DEF closeAuction, A!closeAuction
<1>5. ASSUME NEW sender \in Account,
             \/ RegistryCall(sender) \/ EscrowCall(sender)
             \/ \E k \in Id : slashProvider(sender, k)
             \/ \E k \in Id, price \in PricePerHour : submitBid(sender, k, price)
      PROVE  UNCHANGED jobs
  BY <1>5 DEF RegistryCall, EscrowCall, slashProvider, submitBid, A!submitBid, auctionVars
<1>6. Tick => UNCHANGED jobs
  BY DEF Tick, auctionVars
<1>7. QED
  BY <1>2, <1>3, <1>4, <1>5, <1>6 DEF Next

\* The transaction that awards a job starts its session, and no later call
\* changes the parties or the rate of either.
THEOREM AwardsAreSessions == Spec => []AwardIsSession
<1> DEFINE Inv == \A id \in Id : AwardedSession(id)
<1>1. Init => Inv
  BY DEF Init, A!Init, A!ZeroJob, AwardedSession
<1>2. ASSUME Inv, AuctionProofs!AuctionInv, EscrowProofs!IInv, [Next]_vars
      PROVE  Inv'
  <2>1. EscrowProofs!TypeOK /\ sessions \in [Id -> EscrowProofs!Session]
    BY <1>2 DEF EscrowProofs!IInv, EscrowProofs!TypeOK
  <2>2. [EscrowProofs!Next]_(EscrowProofs!vars)
    BY <1>2, EscrowStep
  <2>3. ASSUME NEW id \in Id, jobs'[id] = jobs[id]
        PROVE  AwardedSession(id)'
    <3> SUFFICES ASSUME jobs[id].status = "Awarded"
                 PROVE  AwardedSession(id)'
      BY <2>3 DEF AwardedSession
    <3>1. sessions[id].user = AuctionContract /\ AwardedSession(id)
      BY <1>2 DEF AwardedSession
    <3>2. AuctionContract # NoAddress
      BY MarketAssumptions DEF Party
    <3>3. SessionKept(id)
      BY <2>1, <2>2, <3>1, <3>2, SessionStep
    <3>4. QED
      BY <2>3, <3>1, <3>3 DEF AwardedSession, SessionKept
  <2>4. ASSUME NEW id \in Id, NEW sender \in Account, closeAuction(sender, id)
        PROVE  AwardedSession(id)'
    <3> DEFINE p == A!Award(id).provider
               r == A!Award(id).rate
               s == [user |-> AuctionContract, provider |-> p, ratePerSecond |-> r,
                     remainingBalance |-> auctionBalance - E!Upfront(auctionBalance),
                     lastPaidAt |-> now, isActive |-> TRUE]
    <3>1. sessions' = [sessions EXCEPT ![id] = s]
      BY <2>4 DEF closeAuction, E!startSession
    <3>2. jobs' = [jobs EXCEPT ![id].status = "Awarded", ![id].winningProvider = p,
                               ![id].winningRatePerSecond = r]
      BY <2>4 DEF closeAuction, A!closeAuction
    <3>3. jobs \in [Id -> AuctionProofs!JobRequest] /\ jobs[id] \in AuctionProofs!JobRequest
      BY <1>2 DEF AuctionProofs!AuctionInv, AuctionProofs!TypeOK
    <3> HIDE DEF p, r
    <3>4. jobs'[id].winningProvider = p /\ jobs'[id].winningRatePerSecond = r
      BY <3>2, <3>3 DEF AuctionProofs!JobRequest
    <3>5. /\ sessions'[id].user = AuctionContract
          /\ sessions'[id].provider = p
          /\ sessions'[id].ratePerSecond = r
      BY <2>1, <3>1
    <3>6. QED
      BY <3>4, <3>5 DEF AwardedSession
  <2>5. ASSUME NEW id \in Id
        PROVE  AwardedSession(id)'
    <3>1. CASE \E sender \in Account : closeAuction(sender, id)
      BY <2>4, <3>1
    <3>2. CASE jobs'[id].status # "Awarded"
      BY <3>2 DEF AwardedSession
    <3>3. CASE /\ \A sender \in Account : ~closeAuction(sender, id)
               /\ jobs'[id].status = "Awarded"
      <4>1. jobs'[id] = jobs[id]
        BY <1>2, <3>3, AwardedBefore DEF vars, auctionVars
      <4>2. QED
        BY <2>3, <4>1
    <3>4. QED
      BY <3>1, <3>2, <3>3
  <2>6. QED
    BY <2>5
<1>3. Inv => AwardIsSession
  BY DEF AwardedSession, AwardIsSession
<1>4. QED
  BY <1>1, <1>2, <1>3, AuctionInvariance, EscrowInvariance, PTL DEF Spec

\* A session whose user is a contract has never refunded anything.
NotRefunded(id) ==
    sessions[id].user # NoAddress /\ sessions[id].user \notin Account => ledger[id].refunded = 0

\* stopSession and slashProvider refund only a user that takes ETH.
LEMMA RefundStep ==
    ASSUME EscrowProofs!IInv, [EscrowProofs!Next]_(EscrowProofs!vars), NEW id \in Id,
           NotRefunded(id)
    PROVE  NotRefunded(id)'
<1>1. /\ EscrowProofs!TypeOK
      /\ sessions \in [Id -> EscrowProofs!Session] /\ sessions[id] \in EscrowProofs!Session
      /\ ledger \in [Id -> EscrowProofs!Ledger] /\ ledger[id] \in EscrowProofs!Ledger
  BY DEF EscrowProofs!IInv, EscrowProofs!TypeOK
<1>2. ASSUME UNCHANGED <<sessions, ledger>>
      PROVE  NotRefunded(id)'
  BY <1>2 DEF NotRefunded
<1>3. ASSUME NEW k \in Id, NEW s1, NEW owed, NEW refundAmount \in Nat,
             sessions[k].user # NoAddress, s1.user = sessions[k].user,
             sessions' = [sessions EXCEPT ![k] = s1],
             ledger' = [ledger EXCEPT ![k] = EscrowProofs!Recorded(k, owed, refundAmount)],
             refundAmount > 0 => sessions[k].user \in Account
      PROVE  NotRefunded(id)'
  <2>1. CASE k # id
    <3>1. sessions'[id] = sessions[id] /\ ledger'[id] = ledger[id]
      BY <1>1, <1>3, <2>1
    <3>2. QED
      BY <3>1 DEF NotRefunded
  <2>2. CASE k = id
    <3>1. sessions'[id].user = sessions[id].user
      BY <1>1, <1>3, <2>2
    <3>2. ledger'[id].refunded = ledger[id].refunded + refundAmount
      BY <1>1, <1>3, <2>2 DEF EscrowProofs!Recorded, EscrowProofs!Ledger
    <3>3. QED
      BY <1>3, <2>2, <3>1, <3>2 DEF NotRefunded
  <2>3. QED
    BY <2>1, <2>2
<1>4. ASSUME NEW k \in Id, EscrowProofs!isActiveSession(k)
      PROVE  LET d == EscrowProofs!Drained(k)
             IN  /\ sessions[k].user # NoAddress /\ sessions[k].remainingBalance \in Nat
                 /\ d.user = sessions[k].user /\ d.remainingBalance \in Nat
                 /\ EscrowProofs!Closed(d).user = sessions[k].user
                 /\ EscrowProofs!Closed(sessions[k]).user = sessions[k].user
  <2>1. PICK d : d = EscrowProofs!Drained(k)
    OBVIOUS
  <2>2. d \in EscrowProofs!Session /\ d.user = sessions[k].user
    BY <1>4, <2>1, EscrowConstants, EscrowProofs!DrainedFacts
  <2>3. sessions[k] \in EscrowProofs!Session /\ sessions[k].user # NoAddress
    BY <1>1, <1>4 DEF EscrowProofs!isActiveSession
  <2>4. /\ d.remainingBalance \in Nat /\ sessions[k].remainingBalance \in Nat
        /\ EscrowProofs!Closed(d).user = d.user
        /\ EscrowProofs!Closed(sessions[k]).user = sessions[k].user
    BY <2>2, <2>3 DEF EscrowProofs!Session, EscrowProofs!Closed
  <2>5. QED
    BY <2>1, <2>2, <2>3, <2>4
<1>5. ASSUME NEW k \in Id, NEW sender, NEW provider, NEW rate, NEW value,
             EscrowProofs!startSession(sender, k, provider, rate, value)
      PROVE  NotRefunded(id)'
  <2> DEFINE s1 == [user |-> sender, provider |-> provider, ratePerSecond |-> rate,
                    remainingBalance |-> value - EscrowProofs!Upfront(value),
                    lastPaidAt |-> now, isActive |-> TRUE]
             r1 == [startedAt |-> now, escrowed |-> value - EscrowProofs!Upfront(value),
                    drawn |-> 0, refunded |-> 0]
  <2>1. sessions' = [sessions EXCEPT ![k] = s1] /\ ledger' = [ledger EXCEPT ![k] = r1]
    BY <1>5 DEF EscrowProofs!startSession
  <2>2. r1.refunded = 0
    OBVIOUS
  <2> HIDE DEF s1, r1
  <2>3. CASE k = id
    <3>1. ledger'[id].refunded = 0
      BY <1>1, <2>1, <2>2, <2>3
    <3>2. QED
      BY <3>1 DEF NotRefunded
  <2>4. CASE k # id
    <3>1. sessions'[id] = sessions[id] /\ ledger'[id] = ledger[id]
      BY <1>1, <2>1, <2>4
    <3>2. QED
      BY <3>1 DEF NotRefunded
  <2>5. QED
    BY <2>3, <2>4
<1>6. ASSUME NEW sender, NEW k \in Id,
             EscrowProofs!releasePayment(sender, k) \/ EscrowProofs!submitProof(sender, k)
      PROVE  NotRefunded(id)'
  <2>1. EscrowProofs!isActiveSession(k) /\ EscrowProofs!_releaseAccrued(k)
    BY <1>6 DEF EscrowProofs!releasePayment, EscrowProofs!submitProof
  <2>2. /\ sessions' = [sessions EXCEPT ![k] = EscrowProofs!Drained(k)]
        /\ ledger' = [ledger EXCEPT ![k] =
              EscrowProofs!Recorded(k, EscrowProofs!pendingPayment(k), 0)]
    BY <2>1 DEF EscrowProofs!_releaseAccrued
  <2>3. PICK x \in Nat : x = 0
    OBVIOUS
  <2>4. /\ ledger' = [ledger EXCEPT ![k] =
              EscrowProofs!Recorded(k, EscrowProofs!pendingPayment(k), x)]
        /\ ~(x > 0)
    BY <2>2, <2>3
  <2>5. QED
    BY <1>3, <1>4, <2>1, <2>2, <2>4
<1>7. ASSUME NEW sender, NEW k \in Id, EscrowProofs!stopSession(sender, k)
      PROVE  NotRefunded(id)'
  <2> DEFINE refundAmount == EscrowProofs!Drained(k).remainingBalance
  <2>1. /\ EscrowProofs!isActiveSession(k)
        /\ refundAmount > 0 => sessions[k].user \in Account
        /\ sessions' = [sessions EXCEPT ![k] = EscrowProofs!Closed(EscrowProofs!Drained(k))]
        /\ ledger' = [ledger EXCEPT ![k] =
              EscrowProofs!Recorded(k, EscrowProofs!pendingPayment(k), refundAmount)]
    BY <1>7 DEF EscrowProofs!stopSession, EscrowProofs!Pays
  <2>2. refundAmount \in Nat
    BY <1>4, <2>1
  <2> HIDE DEF refundAmount
  <2>3. QED
    BY <1>3, <1>4, <2>1, <2>2
<1>8. ASSUME NEW sender, NEW k \in Id, EscrowProofs!slashProvider(sender, k)
      PROVE  NotRefunded(id)'
  <2>1. /\ EscrowProofs!isActiveSession(k)
        /\ sessions[k].remainingBalance > 0 => sessions[k].user \in Account
        /\ sessions' = [sessions EXCEPT ![k] = EscrowProofs!Closed(sessions[k])]
        /\ ledger' = [ledger EXCEPT ![k] =
              EscrowProofs!Recorded(k, 0, sessions[k].remainingBalance)]
    BY <1>8 DEF EscrowProofs!slashProvider, EscrowProofs!Pays
  <2>2. QED
    BY <1>3, <1>4, <2>1
<1>9. ASSUME NEW sender, EscrowProofs!EscrowCall(sender) \/ EscrowProofs!AdminCall(sender)
      PROVE  NotRefunded(id)'
  <2>1. UNCHANGED <<sessions, ledger>>
    BY <1>9 DEF EscrowProofs!EscrowCall, EscrowProofs!AdminCall, EscrowProofs!deposit,
       EscrowProofs!refund, EscrowProofs!release, EscrowProofs!dispute,
       EscrowProofs!resolveDispute, EscrowProofs!RefundUser, EscrowProofs!ReleaseToProvider,
       EscrowProofs!withdrawFees, EscrowProofs!setReleaseAuthority,
       EscrowProofs!setProofAuthority
  <2>2. QED
    BY <1>2, <2>1
<1>10. CASE EscrowProofs!Tick \/ UNCHANGED EscrowProofs!vars
  BY <1>2, <1>10 DEF EscrowProofs!Tick, EscrowProofs!vars
<1>11. ASSUME NEW sender, EscrowProofs!StreamCall(sender) \/ EscrowProofs!SlashCall(sender)
       PROVE  NotRefunded(id)'
  BY <1>5, <1>6, <1>7, <1>8, <1>11 DEF EscrowProofs!StreamCall, EscrowProofs!SlashCall
<1>12. QED
  BY <1>9, <1>10, <1>11 DEF EscrowProofs!Next

\* Neither stopSession nor slashProvider takes back the ETH of an award: the
\* auction contract, its user, calls the first never and refuses the refund of both.
THEOREM AwardsAreSpent == Spec => []AwardIsSpent
<1>1. EscrowProofs!Init => \A id \in Id : NotRefunded(id)
  BY DEF EscrowProofs!Init, EscrowProofs!ZeroLedger, NotRefunded
<1>2. EscrowProofs!IInv /\ (\A id \in Id : NotRefunded(id)) /\ [EscrowProofs!Next]_(EscrowProofs!vars)
         => (\A id \in Id : NotRefunded(id))'
  BY RefundStep
<1>3. ASSUME EscrowProofs!IInv, AwardIsSession, \A id \in Id : NotRefunded(id)
      PROVE  AwardIsSpent
  <2> SUFFICES ASSUME NEW id \in Id, jobs[id].status = "Awarded"
               PROVE  /\ ledger[id].refunded = 0
                      /\ sessions[id].isActive \/ ledger[id].drawn = ledger[id].escrowed
    BY DEF AwardIsSpent
  <2>1. sessions[id].user = AuctionContract
    BY <1>3 DEF AwardIsSession
  <2>2. ledger[id].refunded = 0
    BY <1>3, <2>1, MarketAssumptions DEF NotRefunded, Party
  <2>3. /\ ledger[id].drawn \in Nat
        /\ ledger[id].escrowed =
              ledger[id].drawn + ledger[id].refunded + sessions[id].remainingBalance
        /\ ~sessions[id].isActive => sessions[id].remainingBalance = 0
    <3>1. ledger[id] \in EscrowProofs!Ledger
      BY <1>3 DEF EscrowProofs!IInv, EscrowProofs!TypeOK
    <3>2. QED
      BY <1>3, <3>1 DEF EscrowProofs!IInv, EscrowProofs!StreamConserved, EscrowProofs!Ledger
  <2>4. QED
    BY <2>2, <2>3
<1>4. QED
  BY <1>1, <1>2, <1>3, EscrowRefined, EscrowInvariance, AwardsAreSessions, PTL
     DEF EscrowProofs!Spec

\* With the auction and the registry beside it, the balance of the escrow is
\* still exactly what it owes, and every stream conserves its money and is
\* drawn at its rate.
THEOREM MarketEscrowSolvent ==
    Spec => [](EscrowProofs!Solvency /\ EscrowProofs!StreamConserved /\ EscrowProofs!DrawnAtRate)
<1>1. EscrowProofs!IInv =>
         EscrowProofs!Solvency /\ EscrowProofs!StreamConserved /\ EscrowProofs!DrawnAtRate
  BY DEF EscrowProofs!IInv
<1>2. QED
  BY <1>1, EscrowInvariance, PTL

\* With the slashes that the escrow asks for, the registry still holds exactly
\* its providers' stakes, and only those with the minimum stake are active.
THEOREM MarketStakesBacked ==
    Spec => [](RegistryProofs!StakeBacked /\ RegistryProofs!ActiveIsStaked)
<1>1. ASSUME [R!Next]_(R!vars)
      PROVE  [RegistryProofs!Next]_(RegistryProofs!vars)
  <2> USE DEF R!Registered, R!Pays, R!owner, RegistryProofs!Registered, RegistryProofs!Pays,
        RegistryProofs!owner
  <2>1. ASSUME NEW sender, R!ProviderCall(sender)
        PROVE  RegistryProofs!ProviderCall(sender)
    <3>1. ASSUME NEW endpoint, NEW price, NEW value, R!register(sender, endpoint, price, value)
          PROVE  RegistryProofs!register(sender, endpoint, price, value)
      BY <3>1 DEF R!register, RegistryProofs!register
    <3>2. ASSUME NEW endpoint, NEW price, R!update(sender, endpoint, price)
          PROVE  RegistryProofs!update(sender, endpoint, price)
      BY <3>2 DEF R!update, RegistryProofs!update
    <3>3. ASSUME NEW value, R!stake(sender, value)
          PROVE  RegistryProofs!stake(sender, value)
      BY <3>3 DEF R!stake, RegistryProofs!stake
    <3>4. ASSUME NEW amount, R!unstake(sender, amount)
          PROVE  RegistryProofs!unstake(sender, amount)
      BY <3>4 DEF R!unstake, RegistryProofs!unstake
    <3>5. R!deactivate(sender) \/ R!reactivate(sender)
             => RegistryProofs!deactivate(sender) \/ RegistryProofs!reactivate(sender)
      BY DEF R!deactivate, R!reactivate, RegistryProofs!deactivate, RegistryProofs!reactivate
    <3>6. QED
      BY <2>1, <3>1, <3>2, <3>3, <3>4, <3>5, Zenon DEF R!ProviderCall,
         RegistryProofs!ProviderCall
  <2>2. ASSUME NEW sender, R!AuthorityCall(sender)
        PROVE  RegistryProofs!AuthorityCall(sender)
    <3>1. ASSUME NEW wallet, R!slash(sender, wallet)
          PROVE  RegistryProofs!slash(sender, wallet)
      BY <3>1 DEF R!slash, R!CanSlash, RegistryProofs!slash, RegistryProofs!CanSlash
    <3>2. ASSUME NEW wallet, R!recordJobCompleted(sender, wallet)
          PROVE  RegistryProofs!recordJobCompleted(sender, wallet)
      BY <3>2 DEF R!recordJobCompleted, RegistryProofs!recordJobCompleted
    <3>3. ASSUME NEW newAuthority, R!setSlashAuthority(sender, newAuthority)
          PROVE  RegistryProofs!setSlashAuthority(sender, newAuthority)
      BY <3>3 DEF R!setSlashAuthority, RegistryProofs!setSlashAuthority
    <3>4. QED
      BY <2>2, <3>1, <3>2, <3>3, Zenon DEF R!AuthorityCall, RegistryProofs!AuthorityCall
  <2>3. R!Next => RegistryProofs!Next
    BY <2>1, <2>2, Zenon DEF R!Next, RegistryProofs!Next
  <2>4. UNCHANGED R!vars => UNCHANGED RegistryProofs!vars
    BY DEF R!vars, RegistryProofs!vars
  <2>5. QED
    BY <1>1, <2>3, <2>4
<1>2. R!Init => RegistryProofs!Init
  BY DEF R!Init, R!ZeroProvider, RegistryProofs!Init, RegistryProofs!ZeroProvider
<1>3. Spec => RegistryProofs!Spec
  BY <1>1, <1>2, RegistryRefined, PTL DEF R!Spec, RegistryProofs!Spec
<1>4. RegistryProofs!Spec => []RegistryProofs!IInv
  BY RegistryConstants, RegistryProofs!Invariance
<1>5. RegistryProofs!IInv => RegistryProofs!StakeBacked /\ RegistryProofs!ActiveIsStaked
  BY DEF RegistryProofs!IInv
<1>6. QED
  BY <1>3, <1>4, <1>5, PTL

=============================================================================
