---------------------------- MODULE JobAuctionProofs ----------------------------
(***************************************************************************)
(* Proofs about JobAuction, for any accounts, jobs, prices, deposits and   *)
(* times.  The settlement loop of the auction is a recursion over the      *)
(* bids; the proofs about it are by induction over sets of numbers.        *)
(***************************************************************************)
EXTENDS JobAuction, TotalsProofs, WellFoundedInduction, TLAPS

-----------------------------------------------------------------------------
(* The settlement loop. *)

\* Induction over the numbers, with the property given by its extension.
LEMMA Induction ==
    ASSUME NEW S, 0 \in S, \A n \in Nat : n \in S => n + 1 \in S
    PROVE  \A n \in Nat : n \in S
<1> DEFINE T == {n \in Nat : n \notin S}
           less == OpToRel(<, Nat)
<1> SUFFICES ASSUME T # {}
             PROVE  FALSE
  OBVIOUS
<1>1. IsWellFoundedOn(less, Nat)
  BY NatLessThanWellFounded
<1>2. T \subseteq Nat
  OBVIOUS
<1>3. PICK x \in T : \A y \in T : <<y, x>> \notin less
  <2> HIDE DEF T, less
  <2> QED
    BY <1>1, <1>2, WFMin
<1>4. \A y \in T : ~(y < x)
  BY <1>3 DEF OpToRel
<1>5. x # 0 /\ x \in Nat
  BY <1>3
<1>6. x - 1 \in Nat /\ x - 1 < x /\ x = (x - 1) + 1
  BY <1>5
<1>7. x - 1 \in S
  BY <1>4, <1>6
<1>8. QED
  BY <1>3, <1>6, <1>7

InTimeOrder(s) == \A i, j \in DOMAIN s : i <= j => s[i].submittedAt <= s[j].submittedAt

\* x is one of the first k bids of s, and none of them is lower.
LowestOf(x, s, k) ==
    /\ \E j \in 1 .. k : x = s[j]
    /\ \A j \in 1 .. k : x.pricePerHour <= s[j].pricePerHour

\* g holds, for every i, the bid that the loop of lowestBid, or of the
\* settlement, has found after the first i bids of s.
LowestLoop(g, s, n) ==
    g = [i \in 1 .. n |->
            IF i = 1 THEN s[1]
            ELSE IF s[i].pricePerHour < g[i - 1].pricePerHour THEN s[i] ELSE g[i - 1]]

WinnerLoop(g, s, n) ==
    g = [i \in 1 .. n |->
            IF i = 1 THEN s[1] ELSE IF Beats(s[i], g[i - 1]) THEN s[i] ELSE g[i - 1]]

\* The loop of lowestBid comes to an end.
LEMMA LowestLoopExists ==
    ASSUME NEW s \in Seq(Bid)
    PROVE  \A k \in Nat : \E g : LowestLoop(g, s, k + 1)
<1> DEFINE S == {k \in Nat : \E g : LowestLoop(g, s, k + 1)}
<1>1. 0 \in S
  <2>1. LowestLoop([i \in 1 .. 1 |-> s[1]], s, 0 + 1)
    BY DEF LowestLoop
  <2>2. QED
    BY <2>1
<1>2. ASSUME NEW k \in Nat, k \in S
      PROVE  k + 1 \in S
  <2>1. PICK g : LowestLoop(g, s, k + 1)
    BY <1>2
  <2> DEFINE x == IF s[k + 2].pricePerHour < g[k + 1].pricePerHour THEN s[k + 2] ELSE g[k + 1]
             h == [i \in 1 .. k + 2 |-> IF i = k + 2 THEN x ELSE g[i]]
  <2>2. /\ h[k + 2] = x /\ h[k + 1] = g[k + 1]
        /\ \A i \in 1 .. k + 1 : h[i] = g[i]
        /\ \A i \in 1 .. k + 1 : g[i] = IF i = 1 THEN s[1]
               ELSE IF s[i].pricePerHour < g[i - 1].pricePerHour THEN s[i] ELSE g[i - 1]
    BY <2>1 DEF LowestLoop
  <2>3. ASSUME NEW i \in 1 .. k + 2
        PROVE  h[i] = IF i = 1 THEN s[1]
                      ELSE IF s[i].pricePerHour < h[i - 1].pricePerHour THEN s[i] ELSE h[i - 1]
    <3>1. CASE i = k + 2
      <4>1. i # 1 /\ i - 1 = k + 1
        BY <3>1
      <4>2. QED
        BY <2>2, <3>1, <4>1
    <3>2. CASE i = 1
      BY <2>2, <3>2
    <3>3. CASE i # k + 2 /\ i # 1
      <4>1. i \in 1 .. k + 1 /\ i - 1 \in 1 .. k + 1
        BY <3>3
      <4>2. QED
        BY <2>2, <3>3, <4>1
    <3>4. QED
      BY <3>1, <3>2, <3>3
  <2>4. h = [i \in 1 .. k + 2 |-> h[i]] /\ (k + 1) + 1 = k + 2
    OBVIOUS
  <2> HIDE DEF h
  <2>5. LowestLoop(h, s, (k + 1) + 1)
    BY <2>3, <2>4 DEF LowestLoop
  <2>6. QED
    BY <2>5
<1>3. \A k \in Nat : k \in S
  <2> HIDE DEF S
  <2> QED
    BY <1>1, <1>2, Induction
<1>4. QED
  BY <1>3

\* After k bids the loop of lowestBid holds the lowest of them.
LEMMA LoopIsLowest ==
    ASSUME NEW s \in Seq(Bid), NEW n \in 1 .. Len(s), NEW g, LowestLoop(g, s, n)
    PROVE  \A i \in 1 .. n : LowestOf(g[i], s, i)
<1> DEFINE S == {k \in Nat : k + 1 <= n => LowestOf(g[k + 1], s, k + 1)}
<1>1. /\ \A i \in 1 .. n : g[i] = IF i = 1 THEN s[1]
             ELSE IF s[i].pricePerHour < g[i - 1].pricePerHour THEN s[i] ELSE g[i - 1]
      /\ n \in Nat /\ n <= Len(s)
  BY DEF LowestLoop
<1>2. \A i \in 1 .. n : s[i].pricePerHour \in Nat
  <2>1. \A i \in 1 .. n : s[i] \in Bid
    BY <1>1
  <2>2. QED
    BY <2>1 DEF Bid
<1>3. 0 \in S
  BY <1>1, <1>2 DEF LowestOf
<1>4. ASSUME NEW k \in Nat, k \in S
      PROVE  k + 1 \in S
  <2> SUFFICES ASSUME k + 2 <= n
               PROVE  LowestOf(g[k + 2], s, k + 2)
    OBVIOUS
  <2>1. LowestOf(g[k + 1], s, k + 1)
    BY <1>4
  <2>2. PICK j \in 1 .. k + 1 : g[k + 1] = s[j]
    BY <2>1 DEF LowestOf
  <2>3. g[k + 2] = IF s[k + 2].pricePerHour < g[k + 1].pricePerHour THEN s[k + 2] ELSE g[k + 1]
    <3>1. k + 2 \in 1 .. n /\ k + 2 # 1 /\ (k + 2) - 1 = k + 1
      BY <1>1
    <3>2. QED
      BY <1>1, <3>1
  <2>4. s[k + 2].pricePerHour \in Nat /\ s[j].pricePerHour \in Nat
        /\ \A i \in 1 .. k + 2 : s[i].pricePerHour \in Nat
    BY <1>1, <1>2
  <2>5. \A i \in 1 .. k + 1 : s[j].pricePerHour <= s[i].pricePerHour
    BY <2>1, <2>2 DEF LowestOf
  <2>6. CASE s[k + 2].pricePerHour < g[k + 1].pricePerHour
    <3>1. g[k + 2] = s[k + 2] /\ \A i \in 1 .. k + 2 : s[k + 2].pricePerHour <= s[i].pricePerHour
      BY <2>2, <2>3, <2>4, <2>5, <2>6
    <3>2. QED
      BY <3>1 DEF LowestOf
  <2>7. CASE ~(s[k + 2].pricePerHour < g[k + 1].pricePerHour)
    <3>1. g[k + 2] = s[j] /\ \A i \in 1 .. k + 2 : s[j].pricePerHour <= s[i].pricePerHour
      BY <2>2, <2>3, <2>4, <2>5, <2>7
    <3>2. QED
      BY <3>1 DEF LowestOf
  <2>8. QED
    BY <2>6, <2>7
<1>5. \A k \in Nat : k \in S
  <2> HIDE DEF S
  <2> QED
    BY <1>3, <1>4, Induction
<1>6. ASSUME NEW i \in 1 .. n
      PROVE  LowestOf(g[i], s, i)
  <2>1. i - 1 \in Nat /\ (i - 1) + 1 = i /\ i <= n
    BY <1>1
  <2>2. i - 1 \in S
    BY <1>5, <2>1
  <2>3. QED
    BY <2>1, <2>2
<1>7. QED
  BY <1>6

\* Two loops that start alike and go on alike.
Alike(g, h, n) ==
    g[1] = h[1] /\ \A i \in 1 .. n : i # 1 /\ g[i - 1] = h[i - 1] => g[i] = h[i]

LEMMA LoopIsUnique ==
    ASSUME NEW n \in Nat, NEW g, NEW h, Alike(g, h, n)
    PROVE  \A i \in 1 .. n : g[i] = h[i]
<1> DEFINE S == {k \in Nat : k + 1 <= n => g[k + 1] = h[k + 1]}
<1>1. 0 \in S
  BY DEF Alike
<1>2. ASSUME NEW k \in Nat, k \in S
      PROVE  k + 1 \in S
  <2> SUFFICES ASSUME k + 2 <= n
               PROVE  g[k + 2] = h[k + 2]
    OBVIOUS
  <2>1. k + 2 \in 1 .. n /\ k + 2 # 1 /\ (k + 2) - 1 = k + 1 /\ g[k + 1] = h[k + 1]
    BY <1>2
  <2>2. QED
    BY <2>1 DEF Alike
<1>3. \A k \in Nat : k \in S
  <2> HIDE DEF S
  <2> QED
    BY <1>1, <1>2, Induction
<1>4. ASSUME NEW i \in 1 .. n
      PROVE  g[i] = h[i]
  <2>1. i - 1 \in Nat /\ (i - 1) + 1 = i /\ i <= n
    OBVIOUS
  <2>2. i - 1 \in S
    BY <1>3, <2>1
  <2>3. QED
    BY <2>1, <2>2
<1>5. QED
  BY <1>4

\* Of bids in the order of their times the settlement, which breaks ties by
\* time, finds the bid that lowestBid shows, which breaks none; and no bid is
\* lower.
LEMMA Settlement ==
    ASSUME NEW s \in Seq(Bid), s # <<>>, InTimeOrder(s)
    PROVE  /\ Winner(s) = lowestBid(s)
           /\ LowestOf(Winner(s), s, Len(s))
<1> DEFINE n == Len(s)
<1>1. n \in Nat /\ n >= 1 /\ DOMAIN s = 1 .. n /\ n \in 1 .. Len(s)
  OBVIOUS
<1>2. PICK g : LowestLoop(g, s, n)
  <2>1. n - 1 \in Nat /\ (n - 1) + 1 = n
    BY <1>1
  <2> HIDE DEF n
  <2>2. QED
    BY <2>1, LowestLoopExists
<1>3. \A i \in 1 .. n : LowestOf(g[i], s, i)
  BY <1>1, <1>2, LoopIsLowest
<1>4. \A i \in 1 .. n : s[i].pricePerHour \in Nat /\ s[i].submittedAt \in Nat
  <2>1. \A i \in 1 .. n : s[i] \in Bid
    BY <1>1
  <2>2. QED
    BY <2>1 DEF Bid
<1> HIDE DEF n
<1>5. ASSUME NEW i \in 1 .. n, i # 1
      PROVE  Beats(s[i], g[i - 1]) <=> s[i].pricePerHour < g[i - 1].pricePerHour
  <2>1. i - 1 \in 1 .. n /\ \A j \in 1 .. i - 1 : j \in 1 .. n /\ j <= i
    BY <1>1, <1>5
  <2>2. PICK j \in 1 .. i - 1 : g[i - 1] = s[j]
    BY <1>3, <2>1 DEF LowestOf
  <2>3. s[j].submittedAt <= s[i].submittedAt
    BY <1>1, <2>1, <2>2 DEF InTimeOrder
  <2>4. QED
    BY <1>4, <2>1, <2>2, <2>3 DEF Beats
<1>6. WinnerLoop(g, s, n)
  <2>1. g = [i \in 1 .. n |-> g[i]]
    BY <1>2 DEF LowestLoop
  <2>2. \A i \in 1 .. n : g[i] = IF i = 1 THEN s[1]
            ELSE IF s[i].pricePerHour < g[i - 1].pricePerHour THEN s[i] ELSE g[i - 1]
    BY <1>2 DEF LowestLoop
  <2>3. \A i \in 1 .. n : g[i] = IF i = 1 THEN s[1]
            ELSE IF Beats(s[i], g[i - 1]) THEN s[i] ELSE g[i - 1]
    BY <1>5, <2>2
  <2>4. QED
    BY <2>1, <2>3 DEF WinnerLoop
<1>7. ASSUME NEW h, LowestLoop(h, s, n) \/ WinnerLoop(h, s, n)
      PROVE  h[n] = g[n]
  <2>1. g[1] = s[1] /\ h[1] = s[1]
    BY <1>1, <1>2, <1>7 DEF LowestLoop, WinnerLoop
  <2>2. ASSUME NEW i \in 1 .. n, i # 1, g[i - 1] = h[i - 1]
        PROVE  g[i] = h[i]
    <3>1. CASE LowestLoop(h, s, n)
      BY <1>2, <2>2, <3>1 DEF LowestLoop
    <3>2. CASE WinnerLoop(h, s, n)
      BY <1>6, <2>2, <3>2 DEF WinnerLoop
    <3>3. QED
      BY <1>7, <3>1, <3>2
  <2>3. Alike(g, h, n)
    BY <2>1, <2>2 DEF Alike
  <2>4. n \in Nat /\ n \in 1 .. n
    BY <1>1
  <2>5. \A i \in 1 .. n : g[i] = h[i]
    BY <2>3, <2>4, LoopIsUnique
  <2>6. QED
    BY <2>4, <2>5
<1>8. \E h : LowestLoop(h, s, n) /\ lowestBid(s) = h[n]
  <2> DEFINE h == CHOOSE f : LowestLoop(f, s, n)
  <2>1. LowestLoop(h, s, n)
    BY <1>2
  <2>2. lowestBid(s) = h[n]
    BY Zenon DEF lowestBid, LowestLoop, n
  <2>3. QED
    BY <2>1, <2>2
<1>9. \E h : WinnerLoop(h, s, n) /\ Winner(s) = h[n]
  <2> DEFINE h == CHOOSE f : WinnerLoop(f, s, n)
  <2>1. WinnerLoop(h, s, n)
    BY <1>6
  <2>2. Winner(s) = h[n]
    BY Zenon DEF Winner, WinnerLoop, n
  <2>3. QED
    BY <2>1, <2>2
<1>10. Winner(s) = g[n] /\ lowestBid(s) = g[n]
  BY <1>7, <1>8, <1>9
<1>11. QED
  BY <1>1, <1>3, <1>10 DEF n

-----------------------------------------------------------------------------
(* The auction. *)

\* The bids of a job come in the order of their times, not after its window,
\* and keep to its ceiling; only a job that was posted takes bids or is settled.
JobInv(id) ==
    /\ InTimeOrder(bids[id])
    /\ \A i \in DOMAIN bids[id] :
          /\ bids[id][i].submittedAt <= now
          /\ bids[id][i].submittedAt <= jobs[id].depositedAt + BID_WINDOW
          /\ bids[id][i].pricePerHour <= jobs[id].maxPricePerHour
    /\ jobs[id].user = NoAddress => bids[id] = <<>> /\ jobs[id].status = "Open"

\* AwardIsLowestBid for one job.
AwardInv(id) ==
    jobs[id].status = "Awarded" =>
        /\ jobs[id].winningRatePerSecond <= ratePerSecond(jobs[id].maxPricePerHour)
        /\ bids[id] # <<>> =>
              /\ jobs[id].winningProvider = lowestBid(bids[id]).provider
              /\ \A i \in DOMAIN bids[id] :
                    jobs[id].winningRatePerSecond <= ratePerSecond(bids[id][i].pricePerHour)

AuctionInv ==
    /\ TypeOK
    /\ \A id \in JobId : JobInv(id) /\ AwardInv(id)

\* A higher price per hour is no lower rate per second.
LEMMA RateMonotone ==
    ASSUME NEW a \in Nat, NEW b \in Nat, a <= b
    PROVE  /\ ratePerSecond(a) \in Nat /\ ratePerSecond(b) \in Nat
           /\ ratePerSecond(a) # 0
           /\ ratePerSecond(a) <= ratePerSecond(b)
<1>1. a \div 3600 \in Nat /\ b \div 3600 \in Nat /\ a \div 3600 <= b \div 3600
  OBVIOUS
<1>2. QED
  BY <1>1 DEF ratePerSecond, SECONDS_PER_HOUR

LEMMA InitInv == Init => AuctionInv
<1> SUFFICES ASSUME Init
             PROVE  AuctionInv
  OBVIOUS
<1>1. TypeOK
  <2>1. ZeroJob \in JobRequest /\ <<>> \in Seq(Bid) /\ InitialFallback \in Address \cup {NoAddress}
    BY AuctionAssumptions DEF ZeroJob, JobRequest, JobStatus
  <2>2. QED
    BY <2>1 DEF Init, TypeOK
<1>2. ASSUME NEW id \in JobId
      PROVE  JobInv(id) /\ AwardInv(id)
  <2>1. jobs[id] = ZeroJob /\ bids[id] = <<>>
    BY DEF Init
  <2>2. QED
    BY <2>1 DEF JobInv, AwardInv, InTimeOrder, ZeroJob
<1>3. QED
  BY <1>1, <1>2 DEF AuctionInv

\* A job that a step leaves alone, at the same time or later.
LEMMA JobKept ==
    ASSUME AuctionInv, NEW id \in JobId, jobs'[id] = jobs[id], bids'[id] = bids[id],
           now' \in Nat, now <= now'
    PROVE  JobInv(id)' /\ AwardInv(id)'
<1>1. JobInv(id) /\ AwardInv(id) /\ bids[id] \in Seq(Bid) /\ now \in Nat
  BY DEF AuctionInv, TypeOK
<1>2. \A i \in DOMAIN bids[id] : bids[id][i].submittedAt \in Nat
  <2>1. \A i \in DOMAIN bids[id] : bids[id][i] \in Bid
    BY <1>1
  <2>2. QED
    BY <2>1 DEF Bid
<1>3. JobInv(id)'
  BY <1>1, <1>2 DEF JobInv, InTimeOrder
<1>4. AwardInv(id)'
  BY <1>1 DEF AwardInv
<1>5. QED
  BY <1>3, <1>4

LEMMA PostJobStep ==
    ASSUME AuctionInv, NEW sender \in Address, NEW id \in JobId, NEW maxPrice \in Price,
           NEW duration, NEW value \in Deposit, postJob(sender, id, maxPrice, duration, value)
    PROVE  AuctionInv'
<1> DEFINE j == [user |-> sender, depositedAt |-> now, maxPricePerHour |-> maxPrice,
                 status |-> "Open", winningProvider |-> NoAddress, winningRatePerSecond |-> 0]
<1>1. /\ TypeOK /\ JobInv(id)
      /\ jobs[id].user = NoAddress /\ jobs' = [jobs EXCEPT ![id] = j]
      /\ balance' = balance + value
      /\ deposits' = [deposits EXCEPT ![id] = value]
      /\ UNCHANGED <<bids, hasBid, fallbackProvider, now>>
  BY DEF postJob, AuctionInv
<1>2. j \in JobRequest /\ maxPrice \in Nat /\ value \in Nat /\ sender # NoAddress
  BY <1>1, AuctionAssumptions DEF JobRequest, JobStatus, TypeOK
<1>3. j.status = "Open" /\ j.user = sender
  OBVIOUS
<1> HIDE DEF j
<1>4. TypeOK'
  <2>1. balance' \in Nat /\ deposits' \in [JobId -> Nat]
    BY <1>1, <1>2 DEF TypeOK
  <2>2. jobs' \in [JobId -> JobRequest]
    BY <1>1, <1>2 DEF TypeOK
  <2>3. QED
    BY <1>1, <2>1, <2>2 DEF TypeOK
<1>5. jobs'[id] = j /\ bids'[id] = <<>>
  BY <1>1 DEF TypeOK, JobInv
<1>6. JobInv(id)' /\ AwardInv(id)'
  BY <1>2, <1>3, <1>5 DEF JobInv, AwardInv, InTimeOrder
<1>7. ASSUME NEW k \in JobId, k # id
      PROVE  JobInv(k)' /\ AwardInv(k)'
  <2>1. now' \in Nat /\ now <= now' /\ jobs'[k] = jobs[k] /\ bids'[k] = bids[k]
    BY <1>1, <1>7 DEF TypeOK
  <2>2. QED
    BY <2>1, JobKept
<1>8. QED
  BY <1>4, <1>6, <1>7 DEF AuctionInv

LEMMA CancelJobStep ==
    ASSUME AuctionInv, NEW sender \in Address, NEW id \in JobId, cancelJob(sender, id)
    PROVE  AuctionInv'
<1>1. /\ TypeOK /\ JobInv(id) /\ IsOpen(id)
      /\ jobs' = [jobs EXCEPT ![id].status = "Cancelled"] /\ balance' = 0
      /\ UNCHANGED <<bids, hasBid, fallbackProvider, now, deposits>>
  BY DEF cancelJob, AuctionInv
<1>2. /\ jobs[id] \in JobRequest /\ jobs'[id] = [jobs[id] EXCEPT !.status = "Cancelled"]
      /\ jobs[id].user # NoAddress
  BY <1>1 DEF TypeOK, IsOpen
<1>3. /\ jobs'[id] \in JobRequest /\ jobs'[id].status = "Cancelled"
      /\ jobs'[id].user = jobs[id].user /\ jobs'[id].maxPricePerHour = jobs[id].maxPricePerHour
      /\ jobs'[id].depositedAt = jobs[id].depositedAt
  BY <1>2 DEF JobRequest, JobStatus
<1>4. TypeOK'
  <2>1. jobs' \in [JobId -> JobRequest]
    BY <1>1, <1>3 DEF TypeOK
  <2>2. QED
    BY <1>1, <2>1 DEF TypeOK
<1>5. JobInv(id)' /\ AwardInv(id)'
  BY <1>1, <1>2, <1>3 DEF JobInv, AwardInv, InTimeOrder
<1>6. ASSUME NEW k \in JobId, k # id
      PROVE  JobInv(k)' /\ AwardInv(k)'
  <2>1. now' \in Nat /\ now <= now' /\ jobs'[k] = jobs[k] /\ bids'[k] = bids[k]
    BY <1>1, <1>6 DEF TypeOK
  <2>2. QED
    BY <2>1, JobKept
<1>7. QED
  BY <1>4, <1>5, <1>6 DEF AuctionInv

LEMMA SubmitBidStep ==
    ASSUME AuctionInv, NEW sender \in Address, NEW id \in JobId, NEW price \in Price,
           NEW staked, submitBid(sender, id, price, staked)
    PROVE  AuctionInv'
<1> DEFINE b == [provider |-> sender, pricePerHour |-> price, submittedAt |-> now]
           s == bids[id]
           t == Append(s, b)
<1>1. /\ TypeOK /\ JobInv(id) /\ IsOpen(id)
      /\ price <= jobs[id].maxPricePerHour /\ now <= jobs[id].depositedAt + BID_WINDOW
      /\ hasBid' = [hasBid EXCEPT ![id] = @ \cup {sender}]
      /\ bids' = [bids EXCEPT ![id] = t]
      /\ UNCHANGED <<jobs, fallbackProvider, balance, now, deposits>>
  BY DEF submitBid, AuctionInv
<1>2. /\ price \in Nat /\ now \in Nat /\ s \in Seq(Bid)
  BY <1>1, AuctionAssumptions DEF TypeOK
<1>3. b \in Bid /\ b.submittedAt = now /\ b.pricePerHour = price
  BY <1>2 DEF Bid
<1>4. \A i \in DOMAIN s : s[i].submittedAt \in Nat
  <2>1. \A i \in DOMAIN s : s[i] \in Bid
    BY <1>2
  <2>2. QED
    BY <2>1 DEF Bid
<1> HIDE DEF b
<1>5. /\ t \in Seq(Bid) /\ Len(s) \in Nat /\ DOMAIN s = 1 .. Len(s)
      /\ DOMAIN t = 1 .. Len(s) + 1 /\ t[Len(s) + 1] = b
      /\ \A i \in 1 .. Len(s) : t[i] = s[i]
  BY <1>2, <1>3
<1>6. bids'[id] = t /\ jobs'[id] = jobs[id]
  BY <1>1 DEF TypeOK
<1>7. TypeOK'
  <2>1. bids' \in [JobId -> Seq(Bid)]
    BY <1>1, <1>5 DEF TypeOK
  <2>2. hasBid' \in [JobId -> SUBSET Address]
    BY <1>1 DEF TypeOK
  <2>3. QED
    BY <1>1, <2>1, <2>2 DEF TypeOK
<1> HIDE DEF t
<1>8. JobInv(id)' /\ AwardInv(id)'
  <2>1. /\ \A i, j \in DOMAIN s : i <= j => s[i].submittedAt <= s[j].submittedAt
        /\ \A i \in DOMAIN s :
              /\ s[i].submittedAt <= now
              /\ s[i].submittedAt <= jobs[id].depositedAt + BID_WINDOW
              /\ s[i].pricePerHour <= jobs[id].maxPricePerHour
    BY <1>1 DEF JobInv, InTimeOrder
  <2> HIDE DEF s
  <2>2. ASSUME NEW i \in DOMAIN t, NEW j \in DOMAIN t, i <= j
        PROVE  t[i].submittedAt <= t[j].submittedAt
    <3>1. CASE j \in 1 .. Len(s)
      <4>1. i \in DOMAIN s /\ j \in DOMAIN s
        BY <1>5, <2>2, <3>1
      <4>2. QED
        BY <1>5, <2>1, <2>2, <4>1
    <3>2. CASE j = Len(s) + 1 /\ i \in 1 .. Len(s)
      BY <1>3, <1>5, <2>1, <3>2
    <3>3. CASE i = Len(s) + 1 /\ j = Len(s) + 1
      BY <1>2, <1>3, <1>5, <3>3
    <3>4. QED
      BY <1>5, <2>2, <3>1, <3>2, <3>3
  <2>3. \A i \in DOMAIN t :
           /\ t[i].submittedAt <= now
           /\ t[i].submittedAt <= jobs[id].depositedAt + BID_WINDOW
           /\ t[i].pricePerHour <= jobs[id].maxPricePerHour
    BY <1>1, <1>2, <1>3, <1>5, <2>1
  <2>4. JobInv(id)'
    BY <1>1, <1>6, <2>2, <2>3 DEF JobInv, InTimeOrder, IsOpen
  <2>5. AwardInv(id)'
    BY <1>1, <1>6 DEF AwardInv, IsOpen
  <2>6. QED
    BY <2>4, <2>5
<1>9. ASSUME NEW k \in JobId, k # id
      PROVE  JobInv(k)' /\ AwardInv(k)'
  <2>1. now' \in Nat /\ now <= now' /\ jobs'[k] = jobs[k] /\ bids'[k] = bids[k]
    BY <1>1, <1>9 DEF TypeOK
  <2>2. QED
    BY <2>1, JobKept
<1>10. QED
  BY <1>7, <1>8, <1>9 DEF AuctionInv

\* What an open job that has its bids in order is awarded to: a rate that no
\* bid and no ceiling undercuts.
LEMMA AwardIsLowest ==
    ASSUME AuctionInv, NEW id \in JobId
    PROVE  /\ Award(id).provider \in Address \cup {NoAddress}
           /\ Award(id).rate \in Nat \ {0}
           /\ Award(id).rate <= ratePerSecond(jobs[id].maxPricePerHour)
           /\ bids[id] # <<>> =>
                 /\ Award(id).provider = lowestBid(bids[id]).provider
                 /\ \A i \in DOMAIN bids[id] :
                       Award(id).rate <= ratePerSecond(bids[id][i].pricePerHour)
<1> DEFINE s == bids[id]
           ceiling == jobs[id].maxPricePerHour
<1>1. JobInv(id) /\ s \in Seq(Bid) /\ jobs[id] \in JobRequest
      /\ fallbackProvider \in Address \cup {NoAddress}
  BY DEF AuctionInv, TypeOK
<1>2. ceiling \in Nat
  BY <1>1 DEF JobRequest
<1>3. CASE s = <<>>
  <2>1. Award(id).provider = fallbackProvider /\ Award(id).rate = ratePerSecond(ceiling)
    BY <1>3 DEF Award
  <2>2. QED
    BY <1>1, <1>2, <1>3, <2>1, RateMonotone
<1>4. CASE s # <<>>
  <2> DEFINE w == Winner(s)
  <2>1. w = lowestBid(s) /\ LowestOf(w, s, Len(s))
    BY <1>1, <1>4, Settlement DEF JobInv
  <2>2. Award(id).provider = w.provider /\ Award(id).rate = ratePerSecond(w.pricePerHour)
    BY <1>4 DEF Award
  <2> HIDE DEF w
  <2>3. DOMAIN s = 1 .. Len(s) /\ \A i \in DOMAIN s : s[i] \in Bid
    BY <1>1
  <2>4. \A i \in DOMAIN s : s[i].pricePerHour \in Nat /\ s[i].provider \in Address
    BY <2>3 DEF Bid
  <2>5. PICK j \in DOMAIN s : w = s[j]
    BY <2>1, <2>3 DEF LowestOf
  <2>6. /\ w.pricePerHour \in Nat /\ w.provider \in Address
        /\ w.pricePerHour <= ceiling
        /\ \A i \in DOMAIN s : w.pricePerHour <= s[i].pricePerHour
    BY <1>1, <2>1, <2>3, <2>4, <2>5 DEF LowestOf, JobInv
  <2>7. \A i \in DOMAIN s :
           ratePerSecond(w.pricePerHour) <= ratePerSecond(s[i].pricePerHour)
    BY <2>4, <2>6, RateMonotone
  <2>8. ratePerSecond(w.pricePerHour) \in Nat \ {0}
        /\ ratePerSecond(w.pricePerHour) <= ratePerSecond(ceiling)
    BY <1>2, <2>6, RateMonotone
  <2>9. QED
    BY <2>1, <2>2, <2>6, <2>7, <2>8
<1>5. QED
  BY <1>3, <1>4

LEMMA CloseAuctionStep ==
    ASSUME AuctionInv, NEW sender \in Address, NEW id \in JobId, closeAuction(sender, id)
    PROVE  AuctionInv'
<1> DEFINE award == Award(id)
           p == award.provider
           r == award.rate
<1>1. /\ TypeOK /\ JobInv(id) /\ IsOpen(id)
      /\ jobs' = [jobs EXCEPT ![id].status = "Awarded", ![id].winningProvider = p,
                              ![id].winningRatePerSecond = r]
      /\ balance' = 0
      /\ UNCHANGED <<bids, hasBid, fallbackProvider, now, deposits>>
  BY DEF closeAuction, AuctionInv
<1>2. /\ p \in Address \cup {NoAddress} /\ r \in Nat
      /\ r <= ratePerSecond(jobs[id].maxPricePerHour)
      /\ bids[id] # <<>> => p = lowestBid(bids[id]).provider
      /\ bids[id] # <<>> => \A i \in DOMAIN bids[id] :
            r <= ratePerSecond(bids[id][i].pricePerHour)
  BY AwardIsLowest
<1> HIDE DEF p, r
<1>3. /\ jobs[id] \in JobRequest /\ jobs[id].user # NoAddress
      /\ jobs'[id] = [jobs[id] EXCEPT !.status = "Awarded", !.winningProvider = p,
                                      !.winningRatePerSecond = r]
  BY <1>1 DEF TypeOK, IsOpen
<1>4. /\ jobs'[id] \in JobRequest /\ jobs'[id].status = "Awarded"
      /\ jobs'[id].user = jobs[id].user /\ jobs'[id].maxPricePerHour = jobs[id].maxPricePerHour
      /\ jobs'[id].depositedAt = jobs[id].depositedAt
      /\ jobs'[id].winningProvider = p /\ jobs'[id].winningRatePerSecond = r
  BY <1>2, <1>3 DEF JobRequest, JobStatus
<1>5. TypeOK'
  <2>1. jobs' \in [JobId -> JobRequest]
    BY <1>1, <1>4 DEF TypeOK
  <2>2. QED
    BY <1>1, <2>1 DEF TypeOK
<1>6. JobInv(id)'
  BY <1>1, <1>3, <1>4 DEF JobInv, InTimeOrder
<1>7. AwardInv(id)'
  <2>1. bids' = bids
    BY <1>1
  <2>2. QED
    BY <1>2, <1>4, <2>1 DEF AwardInv
<1>8. ASSUME NEW k \in JobId, k # id
      PROVE  JobInv(k)' /\ AwardInv(k)'
  <2>1. now' \in Nat /\ now <= now' /\ jobs'[k] = jobs[k] /\ bids'[k] = bids[k]
    BY <1>1, <1>8 DEF TypeOK
  <2>2. QED
    BY <2>1, JobKept
<1>9. QED
  BY <1>5, <1>6, <1>7, <1>8 DEF AuctionInv

LEMMA NextInv == AuctionInv /\ [Next]_vars => AuctionInv'
<1> SUFFICES ASSUME AuctionInv, [Next]_vars
             PROVE  AuctionInv'
  OBVIOUS
<1>1. ASSUME NEW sender \in Address, NEW id \in JobId, NEW maxPrice \in Price,
             NEW duration \in Duration, NEW value \in Deposit,
             postJob(sender, id, maxPrice, duration, value)
      PROVE  AuctionInv'
  BY <1>1, PostJobStep
<1>2. ASSUME NEW sender \in Address, NEW id \in JobId, cancelJob(sender, id)
      PROVE  AuctionInv'
  BY <1>2, CancelJobStep
<1>3. ASSUME NEW sender \in Address, NEW id \in JobId, NEW price \in Price,
             NEW staked \in BOOLEAN, submitBid(sender, id, price, staked)
      PROVE  AuctionInv'
  BY <1>3, SubmitBidStep
<1>4. ASSUME NEW sender \in Address, NEW id \in JobId, closeAuction(sender, id)
      PROVE  AuctionInv'
  BY <1>4, CloseAuctionStep
<1>5. ASSUME NEW sender \in Address, NEW newFallback \in Fallback,
             setFallbackProvider(sender, newFallback)
      PROVE  AuctionInv'
  <2>1. newFallback \in Address \cup {NoAddress}
    BY AuctionAssumptions
  <2>2. TypeOK'
    BY <1>5, <2>1 DEF setFallbackProvider, TypeOK, AuctionInv
  <2>3. ASSUME NEW k \in JobId
        PROVE  JobInv(k)' /\ AwardInv(k)'
    <3>1. now' \in Nat /\ now <= now' /\ jobs'[k] = jobs[k] /\ bids'[k] = bids[k]
      BY <1>5 DEF setFallbackProvider, TypeOK, AuctionInv
    <3>2. QED
      BY <3>1, JobKept
  <2>4. QED
    BY <2>2, <2>3 DEF AuctionInv
<1>6. CASE Tick \/ UNCHANGED vars
  <2>1. TypeOK'
    BY <1>6 DEF Tick, vars, TypeOK, AuctionInv
  <2>2. ASSUME NEW k \in JobId
        PROVE  JobInv(k)' /\ AwardInv(k)'
    <3>1. now' \in Nat /\ now <= now' /\ jobs'[k] = jobs[k] /\ bids'[k] = bids[k]
      BY <1>6 DEF Tick, vars, TypeOK, AuctionInv
    <3>2. QED
      BY <3>1, JobKept
  <2>3. QED
    BY <2>1, <2>2 DEF AuctionInv
<1>7. QED
  BY <1>1, <1>2, <1>3, <1>4, <1>5, <1>6 DEF Next, Call

LEMMA Invariance == Spec => []AuctionInv
BY InitInv, NextInv, PTL DEF Spec

\* Every variable of the JobAuction contract holds a value of its type,
\* whatever the other contracts answer.
THEOREM AuctionTypes == Spec => []TypeOK
<1>1. AuctionInv => TypeOK
  BY DEF AuctionInv
<1>2. QED
  BY <1>1, Invariance, PTL

\* closeAuction awards a job to the bid that the lowestBid view shows, at a
\* rate that no bid and not the user's ceiling undercuts.
THEOREM LowestBidWins == Spec => []AwardIsLowestBid
<1>1. AuctionInv => AwardIsLowestBid
  BY DEF AuctionInv, AwardInv, AwardIsLowestBid
<1>2. QED
  BY <1>1, Invariance, PTL

\* Neither closeAuction nor cancelJob nor submitBid touches a job that was
\* awarded or cancelled.
THEOREM OutcomeFinality == Spec => OutcomeIsFinal
<1>1. ASSUME AuctionInv, [Next]_vars, NEW id \in JobId, jobs[id].status # "Open"
      PROVE  jobs'[id] = jobs[id] /\ bids'[id] = bids[id]
  <2> USE DEF TypeOK, AuctionInv, JobInv, IsOpen
  <2>1. ASSUME NEW k \in JobId, NEW sender, NEW maxPrice, NEW duration, NEW value,
               postJob(sender, k, maxPrice, duration, value)
        PROVE  jobs'[id] = jobs[id] /\ bids'[id] = bids[id]
    BY <1>1, <2>1 DEF postJob
  <2>2. ASSUME NEW k \in JobId, NEW sender, cancelJob(sender, k)
        PROVE  jobs'[id] = jobs[id] /\ bids'[id] = bids[id]
    BY <1>1, <2>2 DEF cancelJob
  <2>3. ASSUME NEW k \in JobId, NEW sender, NEW price, NEW staked,
               submitBid(sender, k, price, staked)
        PROVE  jobs'[id] = jobs[id] /\ bids'[id] = bids[id]
    BY <1>1, <2>3 DEF submitBid
  <2>4. ASSUME NEW k \in JobId, NEW sender, closeAuction(sender, k)
        PROVE  jobs'[id] = jobs[id] /\ bids'[id] = bids[id]
    BY <1>1, <2>4 DEF closeAuction
  <2>5. ASSUME NEW sender, NEW newFallback, setFallbackProvider(sender, newFallback)
        PROVE  jobs'[id] = jobs[id] /\ bids'[id] = bids[id]
    BY <2>5 DEF setFallbackProvider
  <2>6. CASE Tick \/ UNCHANGED vars
    BY <2>6 DEF Tick, vars
  <2>7. QED
    BY <1>1, <2>1, <2>2, <2>3, <2>4, <2>5, <2>6 DEF Next, Call
<1>2. AuctionInv /\ [Next]_vars =>
         [\A id \in JobId : jobs[id].status # "Open"
              => jobs'[id] = jobs[id] /\ bids'[id] = bids[id]]_vars
  BY <1>1
<1>3. QED
  BY <1>2, Invariance, PTL DEF Spec, OutcomeIsFinal

\* A job is settled in a later block than its last bid, and bids are made
\* only while the isBidWindowOpen view says that they are taken.
THEOREM BidsComeBeforeSettlement == Spec => SettledAfterBids
<1>1. ASSUME AuctionInv, [Next]_vars, NEW id \in JobId, bids'[id] # bids[id]
      PROVE  isBidWindowOpen(id)
  <2> USE DEF TypeOK, AuctionInv, IsOpen, isBidWindowOpen
  <2>1. ASSUME NEW k \in JobId, NEW sender, NEW price, NEW staked,
               submitBid(sender, k, price, staked)
        PROVE  isBidWindowOpen(id)
    BY <1>1, <2>1 DEF submitBid
  <2>2. CASE UNCHANGED bids
    BY <1>1, <2>2
  <2>3. QED
    BY <1>1, <2>1, <2>2 DEF Next, Call, postJob, cancelJob, closeAuction, setFallbackProvider,
       Tick, vars
<1>2. ASSUME AuctionInv, [Next]_vars, NEW id \in JobId, jobs[id].status = "Open",
             jobs'[id].status # "Open", bids[id] # <<>>
      PROVE  now > jobs[id].depositedAt + BID_WINDOW
  <2> USE DEF TypeOK, AuctionInv
  <2>1. ASSUME NEW k \in JobId, NEW sender, NEW maxPrice, NEW duration, NEW value,
               postJob(sender, k, maxPrice, duration, value)
        PROVE  FALSE
    BY <1>2, <2>1 DEF postJob
  <2>2. ASSUME NEW k \in JobId, NEW sender, cancelJob(sender, k)
        PROVE  now > jobs[id].depositedAt + BID_WINDOW
    <3>1. k = id
      BY <1>2, <2>2 DEF cancelJob
    <3>2. QED
      BY <1>2, <2>2, <3>1 DEF cancelJob
  <2>3. ASSUME NEW k \in JobId, NEW sender, closeAuction(sender, k)
        PROVE  now > jobs[id].depositedAt + BID_WINDOW
    <3>1. k = id
      BY <1>2, <2>3 DEF closeAuction
    <3>2. QED
      BY <2>3, <3>1 DEF closeAuction
  <2>4. CASE UNCHANGED jobs
    BY <1>2, <2>4
  <2>5. QED
    BY <1>2, <2>1, <2>2, <2>3, <2>4 DEF Next, Call, submitBid, setFallbackProvider, Tick, vars
<1>3. ASSUME AuctionInv, NEW id \in JobId, now > jobs[id].depositedAt + BID_WINDOW
      PROVE  /\ ~isBidWindowOpen(id)
             /\ \A i \in DOMAIN bids[id] : bids[id][i].submittedAt < now
  <2>1. JobInv(id) /\ bids[id] \in Seq(Bid) /\ jobs[id] \in JobRequest /\ now \in Nat
    BY <1>3 DEF AuctionInv, TypeOK
  <2>2. jobs[id].depositedAt + BID_WINDOW \in Nat
    BY <2>1, AuctionAssumptions DEF JobRequest
  <2>3. \A i \in DOMAIN bids[id] : bids[id][i] \in Bid
    BY <2>1
  <2>4. \A i \in DOMAIN bids[id] : bids[id][i].submittedAt \in Nat
    BY <2>3 DEF Bid
  <2>5. QED
    BY <1>3, <2>1, <2>2, <2>4 DEF JobInv, isBidWindowOpen
<1>4. AuctionInv /\ [Next]_vars =>
         [\A id \in JobId :
             /\ bids'[id] # bids[id] => isBidWindowOpen(id)
             /\ jobs[id].status = "Open" /\ jobs'[id].status # "Open" /\ bids[id] # <<>> =>
                   /\ ~isBidWindowOpen(id)
                   /\ \A i \in DOMAIN bids[id] : bids[id][i].submittedAt < now]_vars
  BY <1>1, <1>2, <1>3
<1>5. QED
  BY <1>4, Invariance, PTL DEF Spec, SettledAfterBids

-----------------------------------------------------------------------------
(* The balance. *)

\* What is held for each job.
Held == [id \in JobId |-> IF IsOpen(id) THEN deposits[id] ELSE 0]

LEMMA HeldType ==
    ASSUME TypeOK
    PROVE  Held \in [JobId -> Nat] /\ Total(Held) \in Nat
<1>1. Held \in [JobId -> Nat]
  BY DEF Held, TypeOK
<1>2. QED
  BY <1>1, AuctionAssumptions, TotalNat

\* A payout empties the contract, a deposit is one for a job that becomes open.
LEMMA HeldStep ==
    ASSUME TypeOK, TypeOK', HeldForOpenJobs, [Next]_vars
    PROVE  HeldForOpenJobs'
<1> USE DEF HeldForOpenJobs
<1>1. /\ Held \in [JobId -> Nat] /\ Total(Held) \in Nat
      /\ balance <= Total(Held) /\ balance \in Nat
  BY HeldType DEF Held, TypeOK
<1>2. PICK g : g = Held'
  OBVIOUS
<1>3. g \in [JobId -> Nat] /\ Total(g) \in Nat
  <2>1. g \in [JobId -> Nat]
    BY <1>2 DEF Held, TypeOK
  <2>2. QED
    BY <2>1, AuctionAssumptions, TotalNat
<1>4. HeldForOpenJobs' <=> balance' <= Total(g)
  BY <1>2 DEF Held
<1>5. CASE balance' = 0
  BY <1>3, <1>4, <1>5
<1>6. CASE UNCHANGED <<jobs, balance, deposits>>
  <2>1. g = Held
    BY <1>2, <1>6 DEF Held, IsOpen
  <2>2. QED
    BY <1>1, <1>4, <1>6, <2>1
<1>7. ASSUME NEW sender \in Address, NEW id \in JobId, NEW maxPrice \in Price,
             NEW duration \in Duration, NEW value \in Deposit,
             postJob(sender, id, maxPrice, duration, value)
      PROVE  HeldForOpenJobs'
  <2>1. /\ jobs[id].user = NoAddress /\ sender # NoAddress /\ value \in Nat
        /\ jobs' = [jobs EXCEPT ![id] =
              [user |-> sender, depositedAt |-> now, maxPricePerHour |-> maxPrice,
               status |-> "Open", winningProvider |-> NoAddress, winningRatePerSecond |-> 0]]
        /\ deposits' = [deposits EXCEPT ![id] = value]
        /\ balance' = balance + value
    BY <1>7, AuctionAssumptions DEF postJob
  <2>2. \A k \in JobId \ {id} : g[k] = Held[k]
    BY <1>2, <2>1 DEF Held, IsOpen, TypeOK
  <2>3. Held[id] = 0 /\ g[id] = value
    BY <1>2, <2>1 DEF Held, IsOpen, TypeOK
  <2>4. Total(g) = Total(Held) - Held[id] + g[id]
    BY <1>1, <1>3, <2>2, AuctionAssumptions, TotalUpdate
  <2>5. QED
    BY <1>1, <1>3, <1>4, <2>1, <2>3, <2>4
<1>8. QED
  <2>1. ASSUME NEW sender \in Address, NEW id \in JobId,
               cancelJob(sender, id) \/ closeAuction(sender, id)
        PROVE  balance' = 0
    BY <2>1 DEF cancelJob, closeAuction
  <2>2. ASSUME NEW sender \in Address, NEW id \in JobId, NEW price, NEW staked,
               submitBid(sender, id, price, staked)
        PROVE  UNCHANGED <<jobs, balance, deposits>>
    BY <2>2 DEF submitBid
  <2>3. ASSUME NEW sender \in Address, NEW newFallback, setFallbackProvider(sender, newFallback)
        PROVE  UNCHANGED <<jobs, balance, deposits>>
    BY <2>3 DEF setFallbackProvider
  <2>4. Tick \/ UNCHANGED vars => UNCHANGED <<jobs, balance, deposits>>
    BY DEF Tick, vars
  <2>5. QED
    BY <1>5, <1>6, <1>7, <2>1, <2>2, <2>3, <2>4 DEF Next, Call

\* No ETH is left behind in the contract when its jobs are over: cancelJob and
\* closeAuction pay out all of it or revert (JobAuction.sol: require(ok)).
THEOREM NothingIsLeftBehind == Spec => []HeldForOpenJobs
<1>1. Init => HeldForOpenJobs
  <2> SUFFICES ASSUME Init
               PROVE  HeldForOpenJobs
    OBVIOUS
  <2>1. TypeOK /\ balance = 0
    BY InitInv DEF Init, AuctionInv
  <2>2. QED
    BY <2>1, HeldType DEF HeldForOpenJobs, Held
<1>2. QED
  BY <1>1, HeldStep, AuctionTypes, PTL DEF Spec

=============================================================================
