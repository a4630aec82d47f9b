----------------------- MODULE ProviderRegistryProofs -----------------------
(***************************************************************************)
(* Proofs about the ProviderRegistry contract: the stakes are backed by    *)
(* the balance, an active provider has the minimum stake and the list of   *)
(* providers is exact, for any number of accounts and any amounts.         *)
(***************************************************************************)
EXTENDS ProviderRegistry, TotalsProofs, TLAPS

\* A step that changes one provider's record changes the total stake by the
\* difference.
LEMMA StakeTotalStep ==
    ASSUME TypeOK, TypeOK', NEW a \in Address,
           \A b \in Address \ {a} : providers'[b] = providers[b]
    PROVE  Total(StakeHeld)' = Total(StakeHeld) - StakeHeld[a] + StakeHeld'[a]
<1>1. StakeHeld \in [Address -> Nat] /\ StakeHeld' \in [Address -> Nat]
  BY DEF TypeOK, Provider, StakeHeld
<1>2. \A b \in Address \ {a} : StakeHeld'[b] = StakeHeld[b]
  BY DEF StakeHeld
<1>3. IsFiniteSet(Address)
  BY RegistryAssumptions
<1>4. Total(StakeHeld') = Total(StakeHeld) - StakeHeld[a] + StakeHeld'[a]
  <2> HIDE DEF StakeHeld
  <2> QED BY <1>1, <1>2, <1>3, TotalUpdate, SMT
<1>5. Total(StakeHeld)' = Total(StakeHeld')
  BY DEF Total, Units
<1>6. QED
  BY <1>4, <1>5, Zenon

\* The total stake is a natural number.
LEMMA StakeTotalNat ==
    ASSUME TypeOK PROVE Total(StakeHeld) \in Nat
<1>1. StakeHeld \in [Address -> Nat]
  BY DEF TypeOK, Provider, StakeHeld
<1>2. QED
  BY <1>1, RegistryAssumptions, TotalNat

\* A step that replaces the record of one registered provider by p1, whose
\* activity its stake justifies, and moves the difference in or out.
LEMMA RecordStepPreserves ==
    ASSUME IInv, NEW a \in Address, Registered(a),
           NEW p1 \in Provider, p1.wallet = providers[a].wallet,
           p1.active => p1.stakedAmount >= MIN_STAKE,
           providers' = [providers EXCEPT ![a] = p1],
           balance' = balance + p1.stakedAmount - providers[a].stakedAmount,
           balance' \in Nat,
           UNCHANGED <<providerList, slashAuthority>>
    PROVE  IInv'
<1>1. TypeOK'
  BY DEF IInv, TypeOK
<1>2. providers[a].wallet = a
  BY DEF IInv, OwnRecord, Registered, ZeroProvider
<1>3. OwnRecord'
  BY <1>2 DEF IInv, TypeOK, OwnRecord
<1>4. ActiveIsStaked'
  BY DEF IInv, TypeOK, ActiveIsStaked
<1>5. ListIsRegistered'
  BY DEF IInv, TypeOK, ListIsRegistered, Registered
<1>6. StakeBacked'
  <2>1. Total(StakeHeld)' = Total(StakeHeld) - StakeHeld[a] + StakeHeld'[a]
    BY <1>1, StakeTotalStep DEF IInv, TypeOK
  <2>2. StakeHeld[a] = providers[a].stakedAmount /\ StakeHeld'[a] = p1.stakedAmount
    BY DEF StakeHeld, IInv, TypeOK
  <2>3. p1.stakedAmount \in Nat /\ providers[a].stakedAmount \in Nat
    BY DEF IInv, TypeOK, Provider
  <2>4. QED
    BY <2>1, <2>2, <2>3, StakeTotalNat, SMT DEF IInv, TypeOK, StakeBacked
<1>7. QED
  BY <1>1, <1>3, <1>4, <1>5, <1>6 DEF IInv

LEMMA RegisterPreserves ==
    ASSUME IInv, NEW sender \in Address, NEW endpoint \in Endpoint,
           NEW price \in Price, NEW value \in Value,
           register(sender, endpoint, price, value)
    PROVE  IInv'
<1> DEFINE p1 == [wallet |-> sender, endpoint |-> endpoint, pricePerHour |-> price,
                  stakedAmount |-> value, slashCount |-> 0, jobsCompleted |-> 0,
                  active |-> TRUE]
<1>1. /\ value \in Nat /\ price \in Nat /\ MIN_STAKE <= value /\ sender # NoAddress
      /\ providers[sender] = ZeroProvider
  BY RegistryAssumptions, SMT DEF register, IInv, OwnRecord, Registered
<1>2. /\ providers' = [providers EXCEPT ![sender] = p1]
      /\ providerList' = Append(providerList, sender)
      /\ balance' = balance + value
      /\ slashAuthority' = slashAuthority
  BY DEF register
<1>3. p1 \in Provider /\ p1.wallet = sender /\ p1.stakedAmount = value
  BY <1>1 DEF Provider
<1> HIDE DEF p1
<1>4. TypeOK'
  BY <1>1, <1>2, <1>3 DEF IInv, TypeOK
<1>5. OwnRecord'
  BY <1>2, <1>3 DEF IInv, TypeOK, OwnRecord
<1>6. ActiveIsStaked'
  BY <1>1, <1>2, <1>3 DEF IInv, TypeOK, ActiveIsStaked
<1>7. ListIsRegistered'
  <2> DEFINE n == Len(providerList)
  <2>1. /\ n \in Nat /\ DOMAIN providerList = 1 .. n
        /\ DOMAIN providerList' = 1 .. n + 1
        /\ providerList'[n + 1] = sender
        /\ \A i \in 1 .. n : providerList'[i] = providerList[i]
    BY <1>2 DEF IInv, TypeOK
  <2>2. \A i \in 1 .. n : providerList[i] # sender
    BY <1>1, <2>1 DEF IInv, ListIsRegistered, Registered, ZeroProvider
  <2>3. \A a \in Address : Registered(a)' <=> Registered(a) \/ a = sender
    BY <1>1, <1>2, <1>3 DEF Registered, IInv, TypeOK
  <2> HIDE DEF n
  <2>4. ASSUME NEW i \in 1 .. n + 1, NEW j \in 1 .. n + 1, providerList'[i] = providerList'[j]
        PROVE  i = j
    <3>1. (i \in 1 .. n \/ i = n + 1) /\ (j \in 1 .. n \/ j = n + 1)
      BY <2>1, SMT
    <3>2. QED
      BY <2>1, <2>2, <2>4, <3>1 DEF IInv, ListIsRegistered
  <2>5. ASSUME NEW a \in Address
        PROVE  Registered(a)' <=> \E i \in 1 .. n + 1 : providerList'[i] = a
    <3>1. Registered(a) <=> \E i \in 1 .. n : providerList[i] = a
      BY <2>1 DEF IInv, ListIsRegistered
    <3>2. \A i \in 1 .. n + 1 : i \in 1 .. n \/ i = n + 1
      BY <2>1, SMT
    <3>3. n + 1 \in 1 .. n + 1 /\ \A i \in 1 .. n : i \in 1 .. n + 1
      BY <2>1, SMT
    <3>4. QED
      BY <2>1, <2>3, <3>1, <3>2, <3>3, Zenon
  <2>6. QED
    BY <2>1, <2>4, <2>5, Zenon DEF ListIsRegistered
<1>8. StakeBacked'
  <2>1. Total(StakeHeld)' = Total(StakeHeld) - StakeHeld[sender] + StakeHeld'[sender]
    BY <1>2, <1>4, StakeTotalStep DEF IInv, TypeOK
  <2>2. StakeHeld[sender] = 0 /\ StakeHeld'[sender] = value
    BY <1>1, <1>2, <1>3 DEF StakeHeld, ZeroProvider, IInv, TypeOK
  <2>3. QED
    BY <1>1, <1>2, <2>1, <2>2, StakeTotalNat, SMT DEF IInv, TypeOK, StakeBacked
<1>9. QED
  BY <1>4, <1>5, <1>6, <1>7, <1>8 DEF IInv

LEMMA UpdatePreserves ==
    ASSUME IInv, NEW sender \in Address, NEW endpoint \in Endpoint, NEW price \in Price,
           update(sender, endpoint, price)
    PROVE  IInv'
<1> DEFINE p == providers[sender]
           p1 == [p EXCEPT !.endpoint = endpoint, !.pricePerHour = price]
<1>1. p \in Provider /\ price \in Nat /\ balance \in Nat
  BY RegistryAssumptions DEF IInv, TypeOK
<1>2. /\ p1 \in Provider /\ p1.wallet = p.wallet
      /\ p1.stakedAmount = p.stakedAmount /\ p1.active = p.active
  BY <1>1 DEF Provider
<1>3. providers' = [providers EXCEPT ![sender] = p1]
  BY DEF update, IInv, TypeOK, Provider
<1>4. p1.active => p1.stakedAmount >= MIN_STAKE
  BY <1>2 DEF IInv, ActiveIsStaked
<1> HIDE DEF p1
<1>5. balance' = balance + p1.stakedAmount - p.stakedAmount /\ balance' \in Nat
  BY <1>1, <1>2, SMT DEF update, Provider
<1>6. QED
  BY <1>2, <1>3, <1>4, <1>5, RecordStepPreserves DEF update

LEMMA StakePreserves ==
    ASSUME IInv, NEW sender \in Address, NEW value \in Value, stake(sender, value)
    PROVE  IInv'
<1> DEFINE p == providers[sender]
           total == p.stakedAmount + value
           p1 == [p EXCEPT !.stakedAmount = total, !.active = p.active \/ total >= MIN_STAKE]
<1>1. p \in Provider /\ value \in Nat /\ balance \in Nat /\ MIN_STAKE \in Nat
  BY RegistryAssumptions DEF IInv, TypeOK
<1>2. total \in Nat /\ p.stakedAmount \in Nat /\ p.stakedAmount <= total /\ p.active \in BOOLEAN
  BY <1>1, SMT DEF Provider
<1>3. p.active => p.stakedAmount >= MIN_STAKE
  BY DEF IInv, ActiveIsStaked
<1>4. providers' = [providers EXCEPT ![sender] = p1] /\ balance' = balance + value
  BY DEF stake, IInv, TypeOK, Provider
<1>5. balance' = balance + total - p.stakedAmount /\ balance' \in Nat
  BY <1>1, <1>2, <1>4, SMT
<1> HIDE DEF total
<1>6. /\ p1 \in Provider /\ p1.wallet = p.wallet /\ p1.stakedAmount = total
      /\ p1.active = (p.active \/ total >= MIN_STAKE)
  BY <1>1, <1>2 DEF Provider
<1>7. p1.active => p1.stakedAmount >= MIN_STAKE
  BY <1>1, <1>2, <1>3, <1>6, SMT
<1> HIDE DEF p1
<1>8. QED
  BY <1>4, <1>5, <1>6, <1>7, RecordStepPreserves DEF stake

LEMMA UnstakePreserves ==
    ASSUME IInv, NEW sender \in Address, NEW amount \in Value, unstake(sender, amount)
    PROVE  IInv'
<1> DEFINE p == providers[sender]
           remaining == p.stakedAmount - amount
           p1 == [p EXCEPT !.stakedAmount = remaining,
                           !.active = p.active /\ remaining >= MIN_STAKE]
<1>1. p \in Provider /\ amount \in Nat /\ balance \in Nat /\ MIN_STAKE \in Nat
  BY RegistryAssumptions DEF IInv, TypeOK
<1>2. remaining \in Nat /\ p.stakedAmount \in Nat /\ p.active \in BOOLEAN
  BY <1>1, SMT DEF unstake, Provider
<1>3. providers' = [providers EXCEPT ![sender] = p1] /\ balance' = balance - amount
  BY DEF unstake, IInv, TypeOK, Provider
<1>4. balance' = balance + remaining - p.stakedAmount /\ balance' \in Nat
  BY <1>1, <1>2, <1>3, SMT DEF unstake, Pays
<1> HIDE DEF remaining
<1>5. /\ p1 \in Provider /\ p1.wallet = p.wallet /\ p1.stakedAmount = remaining
      /\ p1.active => p1.stakedAmount >= MIN_STAKE
  BY <1>1, <1>2 DEF Provider
<1> HIDE DEF p1
<1>6. QED
  BY <1>3, <1>4, <1>5, RecordStepPreserves DEF unstake

LEMMA DeactivatePreserves ==
    ASSUME IInv, NEW sender \in Address, deactivate(sender)
    PROVE  IInv'
<1> DEFINE p == providers[sender]
           p1 == [p EXCEPT !.active = FALSE]
<1>1. p \in Provider /\ balance \in Nat
  BY DEF IInv, TypeOK
<1>2. /\ p1 \in Provider /\ p1.wallet = p.wallet
      /\ p1.stakedAmount = p.stakedAmount /\ ~p1.active
  BY <1>1 DEF Provider
<1>3. providers' = [providers EXCEPT ![sender] = p1]
  BY DEF deactivate, IInv, TypeOK, Provider
<1> HIDE DEF p1
<1>4. balance' = balance + p1.stakedAmount - p.stakedAmount /\ balance' \in Nat
  BY <1>1, <1>2, SMT DEF deactivate, Provider
<1>5. QED
  BY <1>2, <1>3, <1>4, RecordStepPreserves DEF deactivate

LEMMA ReactivatePreserves ==
    ASSUME IInv, NEW sender \in Address, reactivate(sender)
    PROVE  IInv'
<1> DEFINE p == providers[sender]
           p1 == [p EXCEPT !.active = TRUE]
<1>1. p \in Provider /\ balance \in Nat
  BY DEF IInv, TypeOK
<1>2. /\ p1 \in Provider /\ p1.wallet = p.wallet /\ p1.stakedAmount = p.stakedAmount
      /\ p1.stakedAmount >= MIN_STAKE
  BY <1>1 DEF Provider, reactivate
<1>3. providers' = [providers EXCEPT ![sender] = p1]
  BY DEF reactivate, IInv, TypeOK, Provider
<1> HIDE DEF p1
<1>4. balance' = balance + p1.stakedAmount - p.stakedAmount /\ balance' \in Nat
  BY <1>1, <1>2, SMT DEF reactivate, Provider
<1>5. QED
  BY <1>2, <1>3, <1>4, RecordStepPreserves DEF reactivate

LEMMA SlashPreserves ==
    ASSUME IInv, NEW sender \in Address, NEW wallet \in Address, slash(sender, wallet)
    PROVE  IInv'
<1> DEFINE p == providers[wallet]
           cut == p.stakedAmount \div 2
           left == p.stakedAmount - cut
           p1 == [p EXCEPT !.stakedAmount = left, !.slashCount = p.slashCount + 1,
                           !.active = p.active /\ left >= MIN_STAKE]
<1>1. /\ p \in Provider /\ balance \in Nat /\ MIN_STAKE \in Nat
      /\ p.stakedAmount \in Nat /\ p.slashCount \in Nat /\ p.active \in BOOLEAN
  BY RegistryAssumptions DEF IInv, TypeOK, Provider
<1>2. cut \in Nat /\ cut <= p.stakedAmount
  BY <1>1, SMT
<1>3. /\ providers' = [providers EXCEPT ![wallet] = p1]
      /\ balance' = balance - cut /\ cut <= balance
  BY DEF slash, CanSlash, Pays, IInv, TypeOK, Provider
<1> HIDE DEF cut
<1>4. left \in Nat /\ balance' = balance + left - p.stakedAmount /\ balance' \in Nat
  BY <1>1, <1>2, <1>3, SMT
<1> HIDE DEF left
<1>5. /\ p1 \in Provider /\ p1.wallet = p.wallet /\ p1.stakedAmount = left
      /\ p1.active => p1.stakedAmount >= MIN_STAKE
  <2> DEFINE count == p.slashCount + 1
             stays == p.active /\ left >= MIN_STAKE
  <2>1. count \in Nat /\ stays \in BOOLEAN
    BY <1>1, SMT
  <2>2. p1 = [p EXCEPT !.stakedAmount = left, !.slashCount = count, !.active = stays]
    OBVIOUS
  <2>3. stays => left >= MIN_STAKE
    OBVIOUS
  <2> HIDE DEF p1, count, stays
  <2>4. QED
    BY <1>1, <1>4, <2>1, <2>2, <2>3 DEF Provider
<1> HIDE DEF p1
<1>6. QED
  BY <1>3, <1>4, <1>5, RecordStepPreserves DEF slash, CanSlash

LEMMA RecordJobPreserves ==
    ASSUME IInv, NEW sender \in Address, NEW wallet \in Address,
           recordJobCompleted(sender, wallet)
    PROVE  IInv'
<1> DEFINE p == providers[wallet]
           p1 == [p EXCEPT !.jobsCompleted = p.jobsCompleted + 1]
<1>1. p \in Provider /\ balance \in Nat
  BY DEF IInv, TypeOK
<1>2. /\ p1 \in Provider /\ p1.wallet = p.wallet
      /\ p1.stakedAmount = p.stakedAmount /\ p1.active = p.active
  BY <1>1 DEF Provider
<1>3. providers' = [providers EXCEPT ![wallet] = p1]
  BY DEF recordJobCompleted, IInv, TypeOK, Provider
<1>4. p1.active => p1.stakedAmount >= MIN_STAKE
  BY <1>2 DEF IInv, ActiveIsStaked
<1> HIDE DEF p1
<1>5. balance' = balance + p1.stakedAmount - p.stakedAmount /\ balance' \in Nat
  BY <1>1, <1>2, SMT DEF recordJobCompleted, Provider
<1>6. QED
  BY <1>2, <1>3, <1>4, <1>5, RecordStepPreserves DEF recordJobCompleted

\* A step that changes no record and moves no money.
LEMMA QuietStepPreserves ==
    ASSUME IInv, UNCHANGED <<providers, providerList, balance>>, slashAuthority' \in Address
    PROVE  IInv'
<1>1. TypeOK' /\ OwnRecord' /\ ActiveIsStaked' /\ ListIsRegistered'
  BY DEF IInv, TypeOK, OwnRecord, ActiveIsStaked, ListIsRegistered, Registered
<1>2. StakeBacked'
  BY DEF IInv, StakeBacked, Total, Units, StakeHeld
<1>3. QED
  BY <1>1, <1>2 DEF IInv

-----------------------------------------------------------------------------
\* Nobody is registered and nothing is staked before the first transaction.
LEMMA InitIInv == Init => IInv
<1> SUFFICES ASSUME Init PROVE IInv
  OBVIOUS
<1>1. TypeOK
  BY RegistryAssumptions DEF Init, TypeOK, Provider, ZeroProvider
<1>2. OwnRecord /\ ActiveIsStaked
  BY DEF Init, OwnRecord, ActiveIsStaked, ZeroProvider
<1>3. ListIsRegistered
  <2>1. DOMAIN providerList = {}
    BY DEF Init
  <2>2. \A a \in Address : ~Registered(a)
    BY DEF Init, Registered, ZeroProvider
  <2>3. QED
    BY <2>1, <2>2, Zenon DEF ListIsRegistered
<1>4. StakeBacked
  <2>1. StakeHeld \in [Address -> Nat] /\ \A a \in Address : StakeHeld[a] = 0
    BY DEF Init, StakeHeld, ZeroProvider
  <2>2. Total(StakeHeld) = 0
    BY <2>1, TotalZero
  <2>3. QED
    BY <2>2 DEF Init, StakeBacked
<1>5. QED
  BY <1>1, <1>2, <1>3, <1>4 DEF IInv

\* Every transaction preserves the invariant.
LEMMA NextIInv == IInv /\ [Next]_vars => IInv'
<1> SUFFICES ASSUME IInv, [Next]_vars PROVE IInv'
  OBVIOUS
<1>1. CASE UNCHANGED vars
  BY <1>1, QuietStepPreserves DEF vars, IInv, TypeOK
<1>2. ASSUME NEW sender \in Address, ProviderCall(sender) PROVE IInv'
  BY <1>2, RegisterPreserves, UpdatePreserves, StakePreserves, UnstakePreserves,
     DeactivatePreserves, ReactivatePreserves, Zenon DEF ProviderCall
<1>3. ASSUME NEW sender \in Address, AuthorityCall(sender) PROVE IInv'
  <2>1. ASSUME NEW a \in Authority, setSlashAuthority(sender, a) PROVE IInv'
    BY <2>1, QuietStepPreserves, RegistryAssumptions DEF setSlashAuthority
  <2>2. QED
    BY <1>3, <2>1, SlashPreserves, RecordJobPreserves, Zenon DEF AuthorityCall
<1>4. QED
  BY <1>1, <1>2, <1>3 DEF Next

\* The inductive invariant holds in every reachable state.
THEOREM Invariance == Spec => []IInv
BY InitIInv, NextIInv, PTL DEF Spec

\* The contract's variables keep their declared types: no withdrawal and no
\* slash underflows a stake or the balance.
THEOREM TypeCorrect == Spec => []TypeOK
BY Invariance, PTL DEF IInv

\* The balance is always the sum of the stakes, for any number of providers.
THEOREM StakesAreBacked == Spec => []StakeBacked
BY Invariance, PTL DEF IInv

\* No sequence of slashes, withdrawals and reactivations leaves a provider
\* active below the minimum stake.
THEOREM ActiveProvidersAreStaked == Spec => []ActiveIsStaked
BY Invariance, PTL DEF IInv

\* The enumeration list is exactly the set of registered wallets.
THEOREM ListIsExact == Spec => []ListIsRegistered
BY Invariance, PTL DEF IInv

\* What ProviderCanLeave asks of the contract, beside that the call is made.
LeaveIsPaid ==
    \A a \in Payable :
        providers[a].stakedAmount > 0 => Registered(a) /\ Pays(a, providers[a].stakedAmount)

\* unstake can pay a provider its whole stake, whatever the others withdrew and
\* however often any of them was slashed.
THEOREM StakesArePaid == Spec => []LeaveIsPaid
<1>1. IInv => LeaveIsPaid
  <2> SUFFICES ASSUME IInv, NEW a \in Payable, providers[a].stakedAmount > 0
               PROVE  Registered(a) /\ providers[a].stakedAmount <= balance
    BY DEF LeaveIsPaid, Pays
  <2>1. a \in Address /\ a # NoAddress
    BY RegistryAssumptions
  <2>2. StakeHeld \in [Address -> Nat] /\ StakeHeld[a] = providers[a].stakedAmount
    BY <2>1 DEF IInv, TypeOK, Provider, StakeHeld
  <2>3. StakeHeld[a] <= Total(StakeHeld)
    BY <2>1, <2>2, TotalBound, RegistryAssumptions
  <2>4. Registered(a)
    <3>1. providers[a] # ZeroProvider
      BY DEF ZeroProvider
    <3>2. QED
      BY <2>1, <3>1 DEF IInv, OwnRecord, Registered
  <2>5. QED
    BY <2>2, <2>3, <2>4 DEF IInv, StakeBacked
<1>2. QED
  BY <1>1, Invariance, PTL

=============================================================================
