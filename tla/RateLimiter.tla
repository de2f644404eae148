---------------------------- MODULE RateLimiter ----------------------------
(***************************************************************************)
(* The limit on the messages of one WebSocket (signaling/src/server.js):   *)
(* a number of tokens that is refilled as a whole by the first message     *)
(* that comes an interval or more after the refill before.                 *)
(*                                                                         *)
(* The clock is Date.now(); the two readings of it in one callback are     *)
(* taken as one, and it is never set back.                                 *)
(***************************************************************************)
EXTENDS Integers, Sequences

CONSTANTS Limit,       \* config.rateLimitTokens
          Interval,    \* config.rateLimitInterval
          MaxTime,     \* bound: how long the connection lives
          MaxMessages  \* bound: how many messages are received

ASSUME LimiterAssumption ==
    /\ Limit \in Nat \ {0} /\ Interval \in Nat \ {0}
    /\ MaxTime \in Nat /\ MaxMessages \in Nat

VARIABLES now,        \* Date.now(), 0 when the connection was made
          tokens, lastRefill,
          received,   \* when each message was received,
          accepted    \* and when each of those that were not refused

limiterVars == <<now, tokens, lastRefill, received, accepted>>

LimiterTypeOK ==
    /\ now \in Nat
    /\ tokens \in Int /\ tokens <= Limit
    /\ lastRefill \in Nat
    /\ received \in Seq(Nat)
    /\ accepted \in Seq(Nat)

LimiterInit ==
    /\ now = 0
    /\ tokens = Limit /\ lastRefill = 0
    /\ received = <<>> /\ accepted = <<>>

-----------------------------------------------------------------------------

Tick ==
    /\ now < MaxTime
    /\ now' = now + 1
    /\ UNCHANGED <<tokens, lastRefill, received, accepted>>

\* Faulty: the interval is measured from the last message.
RefilledAtLastMessage ==
    received # <<>> /\ now - received[Len(received)] >= Interval

RefillDue == now - lastRefill >= Interval

\* tokens after --tokens
Left == (IF RefillDue THEN Limit ELSE tokens) - 1

Accept ==
    /\ Left >= 0
    /\ accepted' = Append(accepted, now)

\* fail(429, 'Rate limit exceeded')
Refuse ==
    /\ Left < 0
    /\ UNCHANGED accepted

\* Faulty: the time of the refill is not recorded.
ReceiveUnrecorded ==
    /\ Len(received) < MaxMessages
    /\ tokens' = Left
    /\ received' = Append(received, now)
    /\ Accept \/ Refuse
    /\ UNCHANGED <<now, lastRefill>>

Receive ==
    /\ Len(received) < MaxMessages
    /\ tokens' = Left
    /\ lastRefill' = IF RefillDue THEN now ELSE lastRefill
    /\ received' = Append(received, now)
    /\ Accept \/ Refuse
    /\ UNCHANGED now

LimiterNext == Tick \/ Receive

LimiterSpec == LimiterInit /\ [][LimiterNext]_limiterVars

-----------------------------------------------------------------------------
(* Properties. *)

(***************************************************************************)
(* A client that never sends more than Limit messages within an interval   *)
(* is never refused, wherever its bursts fall between the refills: when a  *)
(* message is refused, the one Limit places before it was received less    *)
(* than an interval ago.                                                   *)
(***************************************************************************)
OnlyExcessRefused ==
    [][received' # received /\ accepted' = accepted =>
         /\ Len(received) >= Limit
         /\ now - received'[Len(received') - Limit] < Interval]_limiterVars

(***************************************************************************)
(* Within any interval at most twice the limit is accepted: a burst before *)
(* a refill and one after it.  (deploy/README.md, line 47, speaks of the   *)
(* limit as "Messages per connection per second"; the code admits more.)   *)
(***************************************************************************)
AtMostTwoBursts ==
    \A i, j \in DOMAIN accepted :
        j - i >= 2 * Limit => accepted[j] - accepted[i] >= Interval
=============================================================================
