------------------------- MODULE RateLimiterProofs -------------------------
(***************************************************************************)
(* What the limiter of RateLimiter admits and refuses, for every limit and *)
(* every interval.                                                         *)
(*                                                                         *)
(* The messages since the last refill are the last ones received: their    *)
(* number is what is missing of the tokens, and none of them is older than *)
(* the refill (Epoch).  The accepted ones among them are at most Limit, so *)
(* what was accepted Limit places before the last refill lies before the   *)
(* refill that preceded it, an interval earlier (Burst).                   *)
(***************************************************************************)
EXTENDS RateLimiter, TLAPS

Epoch(k) ==
    /\ k \in 0..Len(received)
    /\ tokens = Limit - (Len(received) - k)
    /\ \A i \in (k + 1)..Len(received) : received[i] >= lastRefill

Burst(a) ==
    /\ a \in 0..Len(accepted)
    /\ Len(accepted) - a = IF tokens >= 0 THEN Limit - tokens ELSE Limit
    /\ \A i \in 1..a : accepted[i] <= lastRefill
    /\ \A i \in 1..a : i <= a - Limit => accepted[i] <= lastRefill - Interval

LimiterInv ==
    /\ LimiterTypeOK
    /\ lastRefill <= now
    /\ \E k \in Nat : Epoch(k)

BurstInv ==
    /\ \E a \in Nat : Burst(a)
    /\ \A i \in DOMAIN accepted : accepted[i] <= now
    /\ AtMostTwoBursts

-----------------------------------------------------------------------------

(* The invariant holds when the connection is made.                        *)
LEMMA LimiterStarts == LimiterInit => LimiterInv /\ BurstInv
<1> SUFFICES ASSUME LimiterInit PROVE LimiterInv /\ BurstInv
  OBVIOUS
<1> USE LimiterAssumption DEF LimiterInit
<1>1. LimiterTypeOK
  BY DEF LimiterTypeOK
<1>2. Epoch(0)
  BY DEF Epoch
<1>3. Burst(0)
  BY DEF Burst
<1>4. AtMostTwoBursts
  BY DEF AtMostTwoBursts
<1> QED BY <1>1, <1>2, <1>3, <1>4 DEF LimiterInv, BurstInv

(* A received message keeps the account of the tokens: it joins the        *)
(* messages since the last refill, or is the first after a new one.        *)
LEMMA ReceiveKeepsInv == LimiterInv /\ Receive => LimiterInv'
<1> SUFFICES ASSUME LimiterInv, Receive PROVE LimiterInv'
  OBVIOUS
<1> USE LimiterAssumption
<1>1. /\ now \in Nat /\ tokens \in Int /\ tokens <= Limit /\ lastRefill \in Nat
      /\ received \in Seq(Nat) /\ accepted \in Seq(Nat) /\ lastRefill <= now
  BY DEF LimiterInv, LimiterTypeOK
<1>2. /\ tokens' = Left /\ received' = Append(received, now) /\ now' = now
      /\ lastRefill' = IF RefillDue THEN now ELSE lastRefill
      /\ accepted' = accepted \/ accepted' = Append(accepted, now)
  BY DEF Receive, Accept, Refuse
<1>3. /\ Len(received') = Len(received) + 1
      /\ received'[Len(received) + 1] = now
      /\ \A i \in 1..Len(received) : received'[i] = received[i]
  BY <1>1, <1>2
<1>4. LimiterTypeOK'
  <2>1. tokens' \in Int /\ tokens' <= Limit
    BY <1>1, <1>2 DEF Left, RefillDue
  <2>2. received' \in Seq(Nat) /\ accepted' \in Seq(Nat)
    <3>1. Append(received, now) \in Seq(Nat) /\ Append(accepted, now) \in Seq(Nat)
      BY <1>1
    <3> QED BY <1>1, <1>2, <3>1, Zenon
  <2>3. now' \in Nat /\ lastRefill' \in Nat
    BY <1>1, <1>2
  <2> QED BY <2>1, <2>2, <2>3 DEF LimiterTypeOK
<1>5. lastRefill' <= now'
  BY <1>1, <1>2
<1>6. PICK k \in Nat : Epoch(k)
  BY DEF LimiterInv
<1>7. CASE RefillDue
  <2>1. PICK m \in Nat : m = Len(received)
    BY <1>1
  <2>2. Epoch(m)'
    BY <1>1, <1>2, <1>3, <1>7, <2>1 DEF Epoch, Left
  <2> QED BY <1>4, <1>5, <2>2 DEF LimiterInv
<1>8. CASE ~RefillDue
  <2>1. k \in 0..Len(received')
    BY <1>1, <1>3, <1>6 DEF Epoch
  <2>2. tokens' = Limit - (Len(received') - k)
    BY <1>1, <1>2, <1>3, <1>6, <1>8 DEF Epoch, Left
  <2>3. ASSUME NEW i \in (k + 1)..Len(received') PROVE received'[i] >= lastRefill'
    BY <1>1, <1>2, <1>3, <1>6, <1>8 DEF Epoch
  <2> QED BY <1>4, <1>5, <2>1, <2>2, <2>3 DEF LimiterInv, Epoch
<1> QED BY <1>7, <1>8

(* Time passes without any effect on the account.                          *)
LEMMA TickKeepsInv == LimiterInv /\ Tick => LimiterInv'
BY DEF LimiterInv, LimiterTypeOK, Tick, Epoch

(* The account of the tokens holds at all times.                           *)
THEOREM LimiterTypeCorrect == LimiterSpec => []LimiterTypeOK
<1>1. LimiterInit => LimiterInv
  BY LimiterStarts
<1>2. LimiterInv /\ [LimiterNext]_limiterVars => LimiterInv'
  <2>1. ASSUME LimiterInv, UNCHANGED limiterVars PROVE LimiterInv'
    BY <2>1 DEF limiterVars, LimiterInv, LimiterTypeOK, Epoch
  <2> QED BY <2>1, ReceiveKeepsInv, TickKeepsInv DEF LimiterNext
<1>3. LimiterInv => LimiterTypeOK
  BY DEF LimiterInv
<1> QED BY <1>1, <1>2, <1>3, PTL DEF LimiterSpec

-----------------------------------------------------------------------------

(* A step that refuses a message has Limit messages since the last refill, *)
(* which was less than an interval ago.                                    *)
LEMMA RefusedInExcess ==
    LimiterInv /\ Receive /\ accepted' = accepted =>
        /\ Len(received) >= Limit
        /\ now - received'[Len(received') - Limit] < Interval
<1> SUFFICES ASSUME LimiterInv, Receive, accepted' = accepted
             PROVE  /\ Len(received) >= Limit
                    /\ now - received'[Len(received') - Limit] < Interval
  OBVIOUS
<1> USE LimiterAssumption
<1>1. /\ now \in Nat /\ tokens \in Int /\ lastRefill \in Nat
      /\ received \in Seq(Nat) /\ accepted \in Seq(Nat)
  BY DEF LimiterInv, LimiterTypeOK
<1>2. Append(accepted, now) # accepted
  BY <1>1
<1>3. Left < 0 /\ received' = Append(received, now)
  BY <1>2 DEF Receive, Accept, Refuse
<1>4. ~RefillDue /\ tokens <= 0
  BY <1>1, <1>3 DEF Left
<1>5. PICK k \in Nat : Epoch(k)
  BY DEF LimiterInv
<1>6. Len(received) - k >= Limit
  BY <1>1, <1>4, <1>5 DEF Epoch
<1>7. /\ Len(received') - Limit \in (k + 1)..Len(received)
      /\ received'[Len(received') - Limit] = received[Len(received') - Limit]
  BY <1>1, <1>3, <1>5, <1>6 DEF Epoch
<1>8. received[Len(received') - Limit] >= lastRefill /\ received[Len(received') - Limit] \in Nat
  BY <1>1, <1>5, <1>7 DEF Epoch
<1> QED BY <1>1, <1>4, <1>5, <1>6, <1>7, <1>8 DEF RefillDue, Epoch

(* A message is refused only when the client has exceeded the limit within *)
(* an interval, for every limit and interval.                              *)
THEOREM RefusesOnlyExcess == LimiterSpec => OnlyExcessRefused
<1>1. LimiterInit => LimiterInv
  BY LimiterStarts
<1>2. LimiterInv /\ [LimiterNext]_limiterVars => LimiterInv'
  <2>1. ASSUME LimiterInv, UNCHANGED limiterVars PROVE LimiterInv'
    BY <2>1 DEF limiterVars, LimiterInv, LimiterTypeOK, Epoch
  <2> QED BY <2>1, ReceiveKeepsInv, TickKeepsInv DEF LimiterNext
<1>3. LimiterInv /\ [LimiterNext]_limiterVars =>
         [received' # received /\ accepted' = accepted =>
            /\ Len(received) >= Limit
            /\ now - received'[Len(received') - Limit] < Interval]_limiterVars
  <2>1. Tick => received' = received
    BY DEF Tick
  <2> QED BY <2>1, RefusedInExcess DEF LimiterNext, limiterVars
<1> QED BY <1>1, <1>2, <1>3, PTL DEF LimiterSpec, OnlyExcessRefused

-----------------------------------------------------------------------------

(* A received message keeps the account of the accepted ones.              *)
LEMMA ReceiveKeepsBursts == LimiterInv /\ BurstInv /\ Receive => BurstInv'
<1> SUFFICES ASSUME LimiterInv, BurstInv, Receive PROVE BurstInv'
  OBVIOUS
<1> USE LimiterAssumption
<1>1. /\ now \in Nat /\ tokens \in Int /\ tokens <= Limit /\ lastRefill \in Nat
      /\ accepted \in Seq(Nat) /\ lastRefill <= now
  BY DEF LimiterInv, LimiterTypeOK
<1>2. /\ tokens' = Left /\ lastRefill' = IF RefillDue THEN now ELSE lastRefill
      /\ \/ Left >= 0 /\ accepted' = Append(accepted, now)
         \/ Left < 0 /\ accepted' = accepted
      /\ Left \in Int
  BY <1>1 DEF Receive, Accept, Refuse, Left
<1>3. PICK a \in Nat : Burst(a)
  BY DEF BurstInv
<1>4. /\ a <= Len(accepted)
      /\ Len(accepted) - a = IF tokens >= 0 THEN Limit - tokens ELSE Limit
      /\ Len(accepted) - a <= Limit
  BY <1>1, <1>3 DEF Burst
<1>5. \A i \in 1..Len(accepted) : accepted[i] \in Nat
  BY <1>1
<1>6. \A i \in 1..a : /\ accepted[i] <= lastRefill
                      /\ i <= a - Limit => accepted[i] <= lastRefill - Interval
  BY <1>3 DEF Burst
<1>7. \A i, j \in 1..Len(accepted) : j - i >= 2 * Limit => accepted[j] - accepted[i] >= Interval
  BY <1>1 DEF BurstInv, AtMostTwoBursts
<1>8. \A i \in 1..Len(accepted) : accepted[i] <= now
  BY <1>1 DEF BurstInv
<1>9. CASE Left < 0
  <2>1. ~RefillDue /\ tokens <= 0 /\ accepted' = accepted
    BY <1>1, <1>2, <1>9 DEF Left
  <2>2. Len(accepted) - a = Limit /\ tokens' < 0
    BY <1>1, <1>2, <1>4, <1>9, <2>1
  <2>3. Burst(a)'
    BY <1>1, <1>2, <1>3, <2>1, <2>2 DEF Burst, Left
  <2>4. now' = now
    BY DEF Receive
  <2> QED BY <1>3, <1>8, <2>1, <2>3, <2>4 DEF BurstInv, AtMostTwoBursts
<1>10. CASE Left >= 0
  <2>1. /\ accepted' = Append(accepted, now)
        /\ Len(accepted') = Len(accepted) + 1
        /\ accepted'[Len(accepted) + 1] = now
        /\ \A i \in 1..Len(accepted) : accepted'[i] = accepted[i]
        /\ DOMAIN accepted' = 1..(Len(accepted) + 1)
    <3>1. accepted' = Append(accepted, now)
      BY <1>2, <1>10
    <3> QED BY <1>1, <3>1
  <2>2. \A i \in 1..Len(accepted) :
           Len(accepted) + 1 - i >= 2 * Limit => now - accepted[i] >= Interval
    <3> SUFFICES ASSUME NEW i \in 1..Len(accepted), Len(accepted) + 1 - i >= 2 * Limit
                 PROVE  now - accepted[i] >= Interval
      OBVIOUS
    <3>1. CASE RefillDue
      <4>1. i \in 1..a
        BY <1>1, <1>4
      <4> QED BY <1>1, <1>5, <1>6, <3>1, <4>1 DEF RefillDue
    <3>2. CASE ~RefillDue
      <4>1. Len(accepted) + 1 - a <= Limit
        BY <1>1, <1>4, <1>10, <3>2 DEF Left
      <4>2. i \in 1..a /\ i <= a - Limit
        BY <1>1, <1>4, <4>1
      <4> QED BY <1>1, <1>5, <1>6, <4>2
    <3> QED BY <3>1, <3>2
  <2>3. AtMostTwoBursts'
    <3> SUFFICES ASSUME NEW i \in 1..(Len(accepted) + 1), NEW j \in 1..(Len(accepted) + 1),
                        j - i >= 2 * Limit
                 PROVE  accepted'[j] - accepted'[i] >= Interval
      BY <2>1 DEF AtMostTwoBursts
    <3>1. i \in 1..Len(accepted)
      BY <1>1
    <3>2. CASE j \in 1..Len(accepted)
      BY <1>7, <2>1, <3>1, <3>2
    <3>3. CASE j = Len(accepted) + 1
      BY <2>1, <2>2, <3>1, <3>3
    <3> QED BY <1>1, <3>2, <3>3
  <2>4. (\A i \in DOMAIN accepted : accepted[i] <= now)'
    BY <1>1, <1>8, <2>1 DEF Receive
  <2>5. CASE RefillDue
    <3>1. ASSUME NEW i \in 1..Len(accepted), i <= Len(accepted) - Limit
          PROVE  accepted[i] <= now - Interval
      <4>1. i \in 1..a
        BY <1>1, <1>4, <3>1
      <4> QED BY <1>1, <1>5, <1>6, <2>5, <4>1 DEF RefillDue
    <3>2. tokens' = Limit - 1 /\ lastRefill' = now
      BY <1>2, <2>5 DEF Left
    <3>3. PICK m \in Nat : m = Len(accepted)
      BY <1>1
    <3>4. Burst(m)'
      BY <1>1, <1>8, <2>1, <3>1, <3>2, <3>3 DEF Burst
    <3> QED BY <2>3, <2>4, <3>4 DEF BurstInv
  <2>6. CASE ~RefillDue
    <3>1. tokens >= 1 /\ tokens' = tokens - 1 /\ lastRefill' = lastRefill
      BY <1>1, <1>2, <1>10, <2>6 DEF Left
    <3>2. Burst(a)'
      BY <1>1, <1>4, <1>6, <2>1, <3>1 DEF Burst
    <3> QED BY <1>4, <2>3, <2>4, <3>2 DEF BurstInv
  <2> QED BY <2>5, <2>6
<1> QED BY <1>1, <1>9, <1>10 DEF Left

(* However bursts and refills fall, no interval has more than twice the    *)
(* limit of accepted messages.                                             *)
THEOREM NeverMoreThanTwoBursts == LimiterSpec => []AtMostTwoBursts
<1>1. LimiterInit => LimiterInv /\ BurstInv
  BY LimiterStarts
<1>2. LimiterInv /\ BurstInv /\ [LimiterNext]_limiterVars => (LimiterInv /\ BurstInv)'
  <2>1. ASSUME LimiterInv, BurstInv, UNCHANGED limiterVars PROVE LimiterInv' /\ BurstInv'
    BY <2>1 DEF limiterVars, LimiterInv, LimiterTypeOK, Epoch, BurstInv, Burst, AtMostTwoBursts
  <2>2. ASSUME LimiterInv, BurstInv, Tick PROVE BurstInv'
    <3>1. /\ now \in Nat /\ now' = now + 1 /\ accepted \in Seq(Nat)
          /\ tokens' = tokens /\ lastRefill' = lastRefill /\ accepted' = accepted
      BY <2>2 DEF Tick, LimiterInv, LimiterTypeOK
    <3> QED BY <2>2, <3>1 DEF BurstInv, Burst, AtMostTwoBursts
  <2> QED BY <2>1, <2>2, ReceiveKeepsInv, ReceiveKeepsBursts, TickKeepsInv DEF LimiterNext
<1>3. BurstInv => AtMostTwoBursts
  BY DEF BurstInv
<1> QED BY <1>1, <1>2, <1>3, PTL DEF LimiterSpec
=============================================================================
