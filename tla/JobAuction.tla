----------------------------- MODULE JobAuction -----------------------------
(***************************************************************************)
(* The JobAuction contract: a user posts a job with a deposit, providers   *)
(* bid during a window, and after it anyone may close the auction, which   *)
(* forwards the ETH to DeploymentEscrow.startSession.                      *)
(*                                                                         *)
(* The two contracts it calls appear here only through the outcome of the  *)
(* call: staked is the answer of _requireSufficientStake, and closeAuction *)
(* carries the conditions of startSession that this contract can break.    *)
(* Module Marketplace joins the three contracts.                           *)
(***************************************************************************)
EXTENDS Integers, Sequences, Totals

CONSTANTS
    Address,
    NoAddress,          \* address(0)
    Payable,            \* the accounts whose receive function accepts ETH
    InitialOwner,
    InitialFallback,    \* COMPUT3's own provider, or NoAddress
    Fallback,           \* what setFallbackProvider may be called with
    JobId,
    Deposit,            \* the msg.value of postJob
    Price,              \* ceilings and bids, in wei per hour
    Duration,
    BID_WINDOW,         \* 30 seconds, in units of the model's clock
    MaxTime             \* bound on the model's clock

ASSUME AuctionAssumptions ==
    /\ NoAddress \notin Address
    /\ Payable \subseteq Address
    /\ InitialOwner \in Address
    /\ InitialFallback \in Fallback
    /\ Fallback \subseteq Address \cup {NoAddress}
    /\ IsFiniteSet(JobId)
    /\ Deposit \subseteq Nat
    /\ Price \subseteq Nat
    /\ Duration \subseteq Nat
    /\ BID_WINDOW \in Nat
    /\ MaxTime \in Nat

VARIABLES
    jobs,               \* jobId -> JobRequest
    bids,               \* jobId -> list of bids
    hasBid,             \* jobId -> the providers that have bid
    fallbackProvider,
    balance,            \* ETH held by the contract, for all jobs together
    now,                \* block.timestamp
    deposits            \* history: jobId -> the msg.value it was posted with

vars == <<jobs, bids, hasBid, fallbackProvider, balance, now, deposits>>

SECONDS_PER_HOUR == 3600

JobStatus == {"Open", "Awarded", "Cancelled"}

JobRequest ==
    [user : Address \cup {NoAddress}, depositedAt : Nat, maxPricePerHour : Nat,
     status : JobStatus, winningProvider : Address \cup {NoAddress},
     winningRatePerSecond : Nat]

Bid == [provider : Address, pricePerHour : Nat, submittedAt : Nat]

ZeroJob ==
    [user |-> NoAddress, depositedAt |-> 0, maxPricePerHour |-> 0,
     status |-> "Open", winningProvider |-> NoAddress, winningRatePerSecond |-> 0]

owner == InitialOwner

Init ==
    /\ jobs = [id \in JobId |-> ZeroJob]
    /\ bids = [id \in JobId |-> <<>>]
    /\ hasBid = [id \in JobId |-> {}]
    /\ fallbackProvider = InitialFallback
    /\ balance = 0
    /\ now = 0
    /\ deposits = [id \in JobId |-> 0]

IsOpen(id) == jobs[id].user # NoAddress /\ jobs[id].status = "Open"

\* The view that tells whether a job still takes bids.
isBidWindowOpen(id) == IsOpen(id) /\ now <= jobs[id].depositedAt + BID_WINDOW

postJob(sender, id, maxPrice, duration, value) ==
    /\ value # 0
    /\ duration # 0
    /\ jobs[id].user = NoAddress
    /\ jobs' = [jobs EXCEPT ![id] =
          [user |-> sender, depositedAt |-> now, maxPricePerHour |-> maxPrice,
           status |-> "Open", winningProvider |-> NoAddress,
           winningRatePerSecond |-> 0]]
    /\ balance' = balance + value
    /\ deposits' = [deposits EXCEPT ![id] = value]
    /\ UNCHANGED <<bids, hasBid, fallbackProvider, now>>

\* Mutant of cancelJob: the status is not checked.
cancelAnyJob(sender, id) ==
    /\ sender = jobs[id].user
    /\ now > jobs[id].depositedAt + BID_WINDOW \/ bids[id] = <<>>
    /\ sender \in Payable
    /\ jobs' = [jobs EXCEPT ![id].status = "Cancelled"]
    /\ balance' = 0
    /\ UNCHANGED <<bids, hasBid, fallbackProvider, now, deposits>>

\* Mutant of cancelJob: a user that refuses the refund is left without it.
cancelWithoutRefund(sender, id) ==
    /\ IsOpen(id)
    /\ sender = jobs[id].user
    /\ now > jobs[id].depositedAt + BID_WINDOW \/ bids[id] = <<>>
    /\ jobs' = [jobs EXCEPT ![id].status = "Cancelled"]
    /\ balance' = IF sender \in Payable THEN 0 ELSE balance
    /\ UNCHANGED <<bids, hasBid, fallbackProvider, now, deposits>>

\* Refunds the balance of the contract, whatever jobs it was deposited for.
cancelJob(sender, id) ==
    /\ IsOpen(id)
    /\ sender = jobs[id].user
    /\ now > jobs[id].depositedAt + BID_WINDOW \/ bids[id] = <<>>
    /\ sender \in Payable
    /\ jobs' = [jobs EXCEPT ![id].status = "Cancelled"]
    /\ balance' = 0
    /\ UNCHANGED <<bids, hasBid, fallbackProvider, now, deposits>>

submitBid(sender, id, price, staked) ==
    /\ IsOpen(id)
    /\ now <= jobs[id].depositedAt + BID_WINDOW
    /\ sender \notin hasBid[id]
    /\ price <= jobs[id].maxPricePerHour
    /\ staked
    /\ hasBid' = [hasBid EXCEPT ![id] = @ \cup {sender}]
    /\ bids' = [bids EXCEPT ![id] =
          Append(@, [provider |-> sender, pricePerHour |-> price, submittedAt |-> now])]
    /\ UNCHANGED <<jobs, fallbackProvider, balance, now, deposits>>

\* Mutant of Beats: the last of several equal bids wins.
BeatsOrTies(b, best) == b.pricePerHour <= best.pricePerHour

\* A bid that the settlement loop prefers to the best one so far.
Beats(b, best) ==
    \/ b.pricePerHour < best.pricePerHour
    \/ b.pricePerHour = best.pricePerHour /\ b.submittedAt < best.submittedAt

\* The settlement loop: the best bid among the first i.
Winner(s) ==
    LET best[i \in 1 .. Len(s)] ==
            IF i = 1 THEN s[1]
            ELSE IF Beats(s[i], best[i - 1]) THEN s[i] ELSE best[i - 1]
    IN  best[Len(s)]

\* The loop of the lowestBid view, which looks at prices only.
lowestBid(s) ==
    LET best[i \in 1 .. Len(s)] ==
            IF i = 1 THEN s[1]
            ELSE IF s[i].pricePerHour < best[i - 1].pricePerHour THEN s[i] ELSE best[i - 1]
    IN  best[Len(s)]

\* Wei per hour to wei per second, at least 1.
ratePerSecond(price) ==
    IF price \div SECONDS_PER_HOUR = 0 THEN 1 ELSE price \div SECONDS_PER_HOUR

\* Whom an auction is awarded to and at what rate: the winning bid, or
\* COMPUT3's own node at the user's ceiling when there is none.
Award(id) ==
    IF bids[id] = <<>>
    THEN [provider |-> fallbackProvider, rate |-> ratePerSecond(jobs[id].maxPricePerHour)]
    ELSE [provider |-> Winner(bids[id]).provider,
          rate |-> ratePerSecond(Winner(bids[id]).pricePerHour)]

\* Mutant of closeAuction: the auction may be closed in the last second of its window.
closeAuctionEarly(sender, id) ==
    /\ IsOpen(id)
    /\ now >= jobs[id].depositedAt + BID_WINDOW
    /\ Award(id).provider # NoAddress
    /\ balance # 0
    /\ Award(id).provider \in Payable
    /\ jobs' = [jobs EXCEPT ![id].status = "Awarded",
                            ![id].winningProvider = Award(id).provider,
                            ![id].winningRatePerSecond = Award(id).rate]
    /\ balance' = 0
    /\ UNCHANGED <<bids, hasBid, fallbackProvider, now, deposits>>

\* Forwards the balance of the contract; startSession refuses a zero deposit
\* and a provider that does not take the upfront payment.
closeAuction(sender, id) ==
    /\ IsOpen(id)
    /\ now > jobs[id].depositedAt + BID_WINDOW
    /\ Award(id).provider # NoAddress
    /\ balance # 0
    /\ Award(id).provider \in Payable
    /\ jobs' = [jobs EXCEPT ![id].status = "Awarded",
                            ![id].winningProvider = Award(id).provider,
                            ![id].winningRatePerSecond = Award(id).rate]
    /\ balance' = 0
    /\ UNCHANGED <<bids, hasBid, fallbackProvider, now, deposits>>

setFallbackProvider(sender, newFallback) ==
    /\ sender = owner
    /\ fallbackProvider' = newFallback
    /\ UNCHANGED <<jobs, bids, hasBid, balance, now, deposits>>

Tick ==
    /\ now < MaxTime
    /\ now' = now + 1
    /\ UNCHANGED <<jobs, bids, hasBid, fallbackProvider, balance, deposits>>

Call(sender) ==
    \/ \E id \in JobId, maxPrice \in Price, duration \in Duration, value \in Deposit :
          postJob(sender, id, maxPrice, duration, value)
    \/ \E id \in JobId : cancelJob(sender, id)
    \/ \E id \in JobId, price \in Price, staked \in BOOLEAN : submitBid(sender, id, price, staked)
    \/ \E id \in JobId : closeAuction(sender, id)
    \/ \E newFallback \in Fallback : setFallbackProvider(sender, newFallback)

Next == (\E sender \in Address : Call(sender)) \/ Tick

Spec == Init /\ [][Next]_vars

-----------------------------------------------------------------------------
(* Properties. *)

\* Every variable holds a value of the type the contract declares for it.
TypeOK ==
    /\ jobs \in [JobId -> JobRequest]
    /\ bids \in [JobId -> Seq(Bid)]
    /\ hasBid \in [JobId -> SUBSET Address]
    /\ fallbackProvider \in Address \cup {NoAddress}
    /\ balance \in Nat
    /\ now \in Nat
    /\ deposits \in [JobId -> Nat]

\* The award goes to the bid that the lowestBid view shows, although the view
\* has no rule for equal prices and the settlement does, and no provider is
\* awarded more per second than the user's ceiling (or the floor of one wei).
AwardIsLowestBid ==
    \A id \in JobId :
        jobs[id].status = "Awarded" =>
            /\ jobs[id].winningRatePerSecond <= ratePerSecond(jobs[id].maxPricePerHour)
            /\ bids[id] # <<>> =>
                  /\ jobs[id].winningProvider = lowestBid(bids[id]).provider
                  /\ \A i \in DOMAIN bids[id] :
                        jobs[id].winningRatePerSecond <= ratePerSecond(bids[id][i].pricePerHour)

\* Blocks are atomic to bidders as well: no bid is made in the block that
\* settles the job, before or after the settlement, so nobody can see the
\* bids and undercut them while the auction closes.  The view, submitBid,
\* closeAuction and cancelJob each compare the time for themselves, and agree.
SettledAfterBids ==
    [][\A id \in JobId :
          /\ bids'[id] # bids[id] => isBidWindowOpen(id)
          /\ jobs[id].status = "Open" /\ jobs'[id].status # "Open" /\ bids[id] # <<>> =>
                /\ ~isBidWindowOpen(id)
                /\ \A i \in DOMAIN bids[id] : bids[id][i].submittedAt < now]_vars

\* An awarded or a cancelled job never changes again, nor do its bids.
OutcomeIsFinal ==
    [][\A id \in JobId :
          jobs[id].status # "Open" => jobs'[id] = jobs[id] /\ bids'[id] = bids[id]]_vars

\* The contract holds no more than was deposited for the jobs that are open:
\* only a job that is open can take ETH out again, so what was kept beyond
\* would go to the user or the winner of some later job, or to nobody.
HeldForOpenJobs ==
    balance <= Total([id \in JobId |-> IF IsOpen(id) THEN deposits[id] ELSE 0])

\* What the comment in cancelJob says: the refund is the ETH held for this job.
CancelRefundsDeposit ==
    [][\A id \in JobId :
          jobs[id].status = "Open" /\ jobs'[id].status = "Cancelled"
             => balance - balance' = deposits[id]]_vars

=============================================================================
