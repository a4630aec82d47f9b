-------------------------- MODULE ProviderRegistry --------------------------
(***************************************************************************)
(* The ProviderRegistry contract: providers register with a stake, top it  *)
(* up, withdraw it, pause and resume, and are slashed by an authority.     *)
(* One transaction is one action; a revert is a guard that does not hold.  *)
(***************************************************************************)
EXTENDS Integers, Sequences, Totals

CONSTANTS
    Address,
    NoAddress,              \* address(0), which marks an empty record
    Payable,                \* the accounts whose receive function accepts ETH
    InitialOwner,           \* owner and treasury
    InitialSlashAuthority,
    Authority,              \* the accounts the owner may appoint as slash authority
    Endpoint,
    EmptyEndpoint,          \* the empty string
    Price,
    Value,                  \* the amounts a caller may send or withdraw
    MIN_STAKE,              \* 0.01 ether, in units of the model
    MaxStake,               \* bound on one provider's stake
    MaxCount                \* bound on the slash and job counters

ASSUME RegistryAssumptions ==
    /\ NoAddress \notin Address
    /\ IsFiniteSet(Address)
    /\ Payable \subseteq Address
    /\ InitialOwner \in Address
    /\ InitialSlashAuthority \in Authority
    /\ Authority \subseteq Address
    /\ EmptyEndpoint \in Endpoint
    /\ Price \subseteq Nat
    /\ Value \subseteq Nat
    /\ MIN_STAKE \in Nat \ {0}
    /\ MaxStake \in Nat
    /\ MaxCount \in Nat

VARIABLES
    providers,          \* address -> Provider record
    providerList,       \* every registered address, in order of registration
    slashAuthority,
    balance             \* ETH held by the contract

vars == <<providers, providerList, slashAuthority, balance>>

Provider ==
    [wallet : Address \cup {NoAddress}, endpoint : Endpoint, pricePerHour : Nat,
     stakedAmount : Nat, slashCount : Nat, jobsCompleted : Nat, active : BOOLEAN]

\* What the mapping holds for an address that never registered.
ZeroProvider ==
    [wallet |-> NoAddress, endpoint |-> EmptyEndpoint, pricePerHour |-> 0,
     stakedAmount |-> 0, slashCount |-> 0, jobsCompleted |-> 0, active |-> FALSE]

owner == InitialOwner

Registered(a) == providers[a].wallet # NoAddress

\* A transfer out of the contract succeeds.
Pays(to, amount) == to \in Payable /\ amount <= balance

Init ==
    /\ providers = [a \in Address |-> ZeroProvider]
    /\ providerList = <<>>
    /\ slashAuthority = InitialSlashAuthority
    /\ balance = 0

register(sender, endpoint, price, value) ==
    /\ ~Registered(sender)
    /\ value >= MIN_STAKE
    /\ value <= MaxStake
    /\ endpoint # EmptyEndpoint
    /\ providers' = [providers EXCEPT ![sender] =
          [wallet |-> sender, endpoint |-> endpoint, pricePerHour |-> price,
           stakedAmount |-> value, slashCount |-> 0, jobsCompleted |-> 0,
           active |-> TRUE]]
    /\ providerList' = Append(providerList, sender)
    /\ balance' = balance + value
    /\ UNCHANGED slashAuthority

update(sender, endpoint, price) ==
    /\ Registered(sender)
    /\ endpoint # EmptyEndpoint
    /\ providers' = [providers EXCEPT ![sender].endpoint = endpoint,
                                      ![sender].pricePerHour = price]
    /\ UNCHANGED <<providerList, slashAuthority, balance>>

\* A top-up reactivates an inactive provider whose stake is now sufficient.
stake(sender, value) ==
    LET total == providers[sender].stakedAmount + value
    IN  /\ Registered(sender)
        /\ value # 0
        /\ total <= MaxStake
        /\ providers' = [providers EXCEPT
              ![sender].stakedAmount = total,
              ![sender].active = @ \/ total >= MIN_STAKE]
        /\ balance' = balance + value
        /\ UNCHANGED <<providerList, slashAuthority>>

\* Mutant of unstake: only an active provider may withdraw.
unstakeActive(sender, amount) ==
    LET remaining == providers[sender].stakedAmount - amount
    IN  /\ providers[sender].active
        /\ amount # 0
        /\ amount <= providers[sender].stakedAmount
        /\ Pays(sender, amount)
        /\ providers' = [providers EXCEPT
              ![sender].stakedAmount = remaining,
              ![sender].active = @ /\ remaining >= MIN_STAKE]
        /\ balance' = balance - amount
        /\ UNCHANGED <<providerList, slashAuthority>>

unstake(sender, amount) ==
    LET remaining == providers[sender].stakedAmount - amount
    IN  /\ Registered(sender)
        /\ amount # 0
        /\ amount <= providers[sender].stakedAmount
        /\ Pays(sender, amount)
        /\ providers' = [providers EXCEPT
              ![sender].stakedAmount = remaining,
              ![sender].active = @ /\ remaining >= MIN_STAKE]
        /\ balance' = balance - amount
        /\ UNCHANGED <<providerList, slashAuthority>>

deactivate(sender) ==
    /\ Registered(sender)
    /\ providers' = [providers EXCEPT ![sender].active = FALSE]
    /\ UNCHANGED <<providerList, slashAuthority, balance>>

reactivate(sender) ==
    /\ Registered(sender)
    /\ providers[sender].stakedAmount >= MIN_STAKE
    /\ providers' = [providers EXCEPT ![sender].active = TRUE]
    /\ UNCHANGED <<providerList, slashAuthority, balance>>

\* The conditions under which slash does not revert.
CanSlash(sender, wallet) ==
    /\ sender \in {slashAuthority, owner}
    /\ Registered(wallet)
    /\ Pays(owner, providers[wallet].stakedAmount \div 2)

\* Mutant of slash: halves the stake, so that an odd one loses a unit.
slashHalving(sender, wallet) ==
    LET half == providers[wallet].stakedAmount \div 2
    IN  /\ CanSlash(sender, wallet)
        /\ providers[wallet].slashCount < MaxCount
        /\ providers' = [providers EXCEPT
              ![wallet].stakedAmount = half,
              ![wallet].slashCount = @ + 1,
              ![wallet].active = @ /\ half >= MIN_STAKE]
        /\ balance' = balance - half
        /\ UNCHANGED <<providerList, slashAuthority>>

\* Mutant of slash: a provider that falls below the minimum stays active.
slashKeepingActive(sender, wallet) ==
    LET slashAmount == providers[wallet].stakedAmount \div 2
    IN  /\ CanSlash(sender, wallet)
        /\ providers[wallet].slashCount < MaxCount
        /\ providers' = [providers EXCEPT
              ![wallet].stakedAmount = @ - slashAmount,
              ![wallet].slashCount = @ + 1]
        /\ balance' = balance - slashAmount
        /\ UNCHANGED <<providerList, slashAuthority>>

\* Half of the stake, rounded down, goes to the treasury.
slash(sender, wallet) ==
    LET slashAmount == providers[wallet].stakedAmount \div 2
        left == providers[wallet].stakedAmount - slashAmount
    IN  /\ CanSlash(sender, wallet)
        /\ providers[wallet].slashCount < MaxCount
        /\ providers' = [providers EXCEPT
              ![wallet].stakedAmount = left,
              ![wallet].slashCount = @ + 1,
              ![wallet].active = @ /\ left >= MIN_STAKE]
        /\ balance' = balance - slashAmount
        /\ UNCHANGED <<providerList, slashAuthority>>

recordJobCompleted(sender, wallet) ==
    /\ sender \in {slashAuthority, owner}
    /\ Registered(wallet)
    /\ providers[wallet].jobsCompleted < MaxCount
    /\ providers' = [providers EXCEPT ![wallet].jobsCompleted = @ + 1]
    /\ UNCHANGED <<providerList, slashAuthority, balance>>

setSlashAuthority(sender, newAuthority) ==
    /\ sender = owner
    /\ slashAuthority' = newAuthority
    /\ UNCHANGED <<providers, providerList, balance>>

\* The records that the view returns, in order of registration.
getActiveProviders ==
    LET accepting(a) == providers[a].active /\ providers[a].stakedAmount >= MIN_STAKE
        listed == SelectSeq(providerList, accepting)
    IN  [i \in DOMAIN listed |-> providers[listed[i]]]

ProviderCall(sender) ==
    \/ \E endpoint \in Endpoint, price \in Price, value \in Value :
          register(sender, endpoint, price, value)
    \/ \E endpoint \in Endpoint, price \in Price : update(sender, endpoint, price)
    \/ \E value \in Value : stake(sender, value)
    \/ \E amount \in Value : unstake(sender, amount)
    \/ deactivate(sender)
    \/ reactivate(sender)

AuthorityCall(sender) ==
    \/ \E wallet \in Address : slash(sender, wallet)
    \/ \E wallet \in Address : recordJobCompleted(sender, wallet)
    \/ \E newAuthority \in Authority : setSlashAuthority(sender, newAuthority)

Next == \E sender \in Address : ProviderCall(sender) \/ AuthorityCall(sender)

Spec == Init /\ [][Next]_vars

-----------------------------------------------------------------------------
(* Properties. *)

\* Every variable holds a value of the type the contract declares for it.
TypeOK ==
    /\ providers \in [Address -> Provider]
    /\ providerList \in Seq(Address)
    /\ slashAuthority \in Address
    /\ balance \in Nat

StakeHeld == [a \in Address |-> providers[a].stakedAmount]

\* The balance is exactly the sum of the stakes: withdrawals and slashes,
\* halves of odd stakes included, take from one provider what leaves the contract.
StakeBacked == balance = Total(StakeHeld)

\* A provider that accepts jobs has the minimum stake, however often it was
\* slashed, withdrew, topped up, paused and resumed.
ActiveIsStaked ==
    \A a \in Address : providers[a].active => providers[a].stakedAmount >= MIN_STAKE

\* The enumeration list holds every registered wallet exactly once.
ListIsRegistered ==
    /\ \A i, j \in DOMAIN providerList : providerList[i] = providerList[j] => i = j
    /\ \A a \in Address : Registered(a) <=> \E i \in DOMAIN providerList : providerList[i] = a

\* A provider can always withdraw its whole remaining stake, whatever the
\* others did: the stake of one never paid for another.
ProviderCanLeave ==
    \A a \in Payable :
        providers[a].stakedAmount > 0 => ENABLED unstake(a, providers[a].stakedAmount)

\* A record is empty, or belongs to the account it is stored under.
OwnRecord ==
    \A a \in Address : providers[a].wallet = a \/ providers[a] = ZeroProvider

\* The inductive invariant of the proofs.
IInv ==
    /\ TypeOK
    /\ OwnRecord
    /\ ActiveIsStaked
    /\ ListIsRegistered
    /\ StakeBacked

=============================================================================
