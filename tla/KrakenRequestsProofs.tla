------------------------ MODULE KrakenRequestsProofs ------------------------
(***************************************************************************)
(* Proofs about KrakenRequests, for any calls, pairs and durations.        *)
(*                                                                         *)
(* A request is sent at the end of a pass through the throttle that found  *)
(* nothing to wait for; what remains is that the ages the throttle keeps   *)
(* are those of the requests really sent.                                  *)
(***************************************************************************)
EXTENDS KrakenRequests, TLAPS

\* The throttle's ages are the true ones.
AgesTrue == idleFor = lastAge /\ pairIdleFor = pairAge

\* What the variables that matter for the limits range over.
LimitTypes ==
    /\ backoff \in Nat
    /\ slowdown \in Nat
    /\ extra \in Nat
    /\ lastAge \in Nat
    /\ pairAge \in [Pairs -> Nat]
    /\ pair \in [Calls -> Pairs \cup {NoPair}]
    /\ DOMAIN stage = Calls

\* The inductive invariant.
Inv == LimitTypes /\ AgesTrue

-----------------------------------------------------------------------------
\* The longest of two durations is one of them and no shorter than either.
LEMMA LongestOfTwo ==
  ASSUME NEW a \in Nat, NEW b \in Nat
  PROVE  Longest({a, b}) \in Nat /\ Longest({a, b}) >= a /\ Longest({a, b}) >= b
<1>1. \E n \in {a, b} : \A m \in {a, b} : n >= m
  OBVIOUS
<1>. QED
  BY <1>1 DEF Longest

\* Likewise of three.
LEMMA LongestOfThree ==
  ASSUME NEW a \in Nat, NEW b \in Nat, NEW d \in Nat
  PROVE  LET n == Longest({a, b, d})
         IN  n \in Nat /\ n >= a /\ n >= b /\ n >= d
<1>1. \E n \in {a, b, d} : \A m \in {a, b, d} : n >= m
  <2>1. CASE a >= b /\ a >= d
    BY <2>1
  <2>2. CASE b >= a /\ b >= d
    BY <2>2
  <2>3. CASE d >= a /\ d >= b
    BY <2>3
  <2>. QED
    BY <2>1, <2>2, <2>3
<1>. QED
  BY <1>1 DEF Longest

\* Nothing depends on ages beyond this one.
LEMMA LongAgoIsNat == LongAgo \in Nat /\ LongAgo >= PairInterval
  BY DurationsAssumption, LongestOfTwo DEF LongAgo

\* A pass that finds nothing to wait for finds every limit kept.
LEMMA NoDelay ==
  ASSUME NEW p \in Pairs \cup {NoPair}, NEW b \in Nat, NEW s \in Nat,
         NEW x \in Nat, lastAge \in Nat, pairAge \in [Pairs -> Nat],
         Delay(p, b, s, x) = 0
  PROVE  /\ b = 0
         /\ lastAge >= Spacing(s, x)
         /\ p # NoPair => pairAge[p] >= PairInterval
<1>. DEFINE short     == Less(Spacing(s, x), lastAge)
            shortPair == Less(PairInterval, pairAge[p])
<1>1. Spacing(s, x) \in Nat /\ PairInterval \in Nat
  BY DurationsAssumption DEF Spacing
<1>2. short \in Nat
  BY <1>1 DEF Less
<1>3. short = 0 => lastAge >= Spacing(s, x)
  BY <1>1 DEF Less
<1>4. CASE p = NoPair
  <2>1. {b, short} \cup {} = {b, short}
    OBVIOUS
  <2>2. Longest({b, short}) = 0
    BY <1>4, <2>1 DEF Delay
  <2>3. b = 0 /\ short = 0
    BY <1>2, <2>2, LongestOfTwo
  <2>. QED
    BY <1>3, <1>4, <2>3
<1>5. CASE p # NoPair
  <2>1. shortPair \in Nat
    BY <1>1, <1>5 DEF Less
  <2>2. {b, short} \cup {shortPair} = {b, short, shortPair}
    OBVIOUS
  <2>3. Longest({b, short, shortPair}) = 0
    BY <1>5, <2>2 DEF Delay
  <2>4. b = 0 /\ short = 0 /\ shortPair = 0
    BY <1>2, <2>1, <2>3, LongestOfThree
  <2>5. pairAge[p] >= PairInterval
    BY <1>1, <1>5, <2>4 DEF Less
  <2>. QED
    BY <1>3, <2>4, <2>5
<1>. QED
  BY <1>4, <1>5

\* _set_backoff leaves a deadline that is no nearer than the old one.
LEMMA BackoffGrows ==
  ASSUME LimitTypes, NEW strong \in BOOLEAN, SetBackoff(strong)
  PROVE  /\ backoff' \in Nat /\ backoff' >= backoff /\ backoff' > 0
         /\ slowdown' \in Nat /\ extra' \in Nat
<1>1. PICK w \in 1..MaxWindow : backoff' = Longest({backoff, w})
  BY DEF SetBackoff
<1>2. backoff' \in Nat /\ backoff' >= backoff /\ backoff' >= w
  BY <1>1, LongestOfTwo DEF LimitTypes
<1>3. slowdown' \in Nat /\ extra' \in Nat
  BY DurationsAssumption DEF SetBackoff, LimitTypes
<1>. QED
  BY <1>1, <1>2, <1>3 DEF LimitTypes

\* A pass through the throttle keeps the ages true.
LEMMA ThrottleKeepsAges ==
  ASSUME Inv, NEW c \in Calls, NEW b, NEW s, NEW x, Throttle(c, b, s, x)
  PROVE  /\ AgesTrue'
         /\ lastAge' \in Nat
         /\ pairAge' \in [Pairs -> Nat]
         /\ DOMAIN stage' = Calls
  BY DEF Inv, LimitTypes, AgesTrue, Throttle, Enters, Sends

-----------------------------------------------------------------------------
\* The invariant holds initially.
LEMMA InitInv == Init => Inv
  BY LongAgoIsNat DEF Init, Inv, LimitTypes, AgesTrue

\* Every step keeps the invariant.
LEMMA NextKeepsInv == Inv /\ [Next]_vars => Inv'
<1> SUFFICES ASSUME Inv, [Next]_vars PROVE Inv'
  OBVIOUS
<1>1. ASSUME NEW c \in Calls, Start(c) \/ SleepOver(c) PROVE Inv'
  BY <1>1, ThrottleKeepsAges DEF Start, SleepOver, Inv, LimitTypes
<1>2. ASSUME NEW c \in Calls, Answered(c) PROVE Inv'
  BY <1>2 DEF Answered, Done, Inv, LimitTypes, AgesTrue
<1>3. ASSUME NEW c \in Calls, RateLimited(c) \/ Fails(c) PROVE Inv'
  <2>1. /\ SetBackoff(TRUE) \/ SetBackoff(FALSE)
        /\ RetriesLater(c)
        /\ pair' = pair
    BY <1>3 DEF RateLimited, Fails
  <2>2. backoff' \in Nat /\ slowdown' \in Nat /\ extra' \in Nat
    BY <2>1, BackoffGrows DEF Inv
  <2>3. CASE Done(c)
    BY <2>1, <2>2, <2>3 DEF Done, Inv, LimitTypes, AgesTrue
  <2>4. CASE Throttle(c, backoff', slowdown', extra')
    BY <2>1, <2>2, <2>4, ThrottleKeepsAges DEF Inv, LimitTypes
  <2>. QED
    BY <2>1, <2>3, <2>4 DEF RetriesLater
<1>4. CASE Tick
  BY <1>4, LongAgoIsNat DEF Tick, Less, Older, Inv, LimitTypes, AgesTrue
<1>5. CASE UNCHANGED vars
  BY <1>5 DEF vars, limitVars, callVars, Inv, LimitTypes, AgesTrue
<1>. QED
  BY <1>1, <1>2, <1>3, <1>4, <1>5 DEF Next, CallNext, Terminated

\* The invariant holds in every reachable state.
LEMMA InvHolds == Spec => []Inv
  BY InitInv, NextKeepsInv, PTL DEF Spec

-----------------------------------------------------------------------------
\* A request is sent only by a pass that found nothing to wait for, with the
\* limits of that moment.
LEMMA SendsAtNoDelay ==
  ASSUME Inv, [Next]_vars, NEW d \in Calls, SendsNow(d)
  PROVE  /\ Delay(pair[d], backoff, slowdown, extra) = 0
         /\ backoff' = backoff
<1>1. ASSUME NEW c \in Calls, NEW b, NEW s, NEW x, Throttle(c, b, s, x)
      PROVE  c = d /\ Delay(pair[d], b, s, x) = 0
  BY <1>1 DEF Throttle, Sends, SendsNow, Inv, LimitTypes
<1>2. ASSUME NEW c \in Calls, Start(c) \/ SleepOver(c)
      PROVE  /\ Delay(pair[d], backoff, slowdown, extra) = 0
             /\ backoff' = backoff
  BY <1>1, <1>2 DEF Start, SleepOver
<1>3. ASSUME NEW c \in Calls, Answered(c) PROVE FALSE
  BY <1>3 DEF Answered, Done, SendsNow, Inv, LimitTypes
<1>4. ASSUME NEW c \in Calls, RateLimited(c) \/ Fails(c) PROVE FALSE
  <2>1. SetBackoff(TRUE) \/ SetBackoff(FALSE)
    BY <1>4 DEF RateLimited, Fails
  <2>2. backoff' \in Nat /\ backoff' > 0 /\ slowdown' \in Nat /\ extra' \in Nat
    BY <2>1, BackoffGrows DEF Inv
  <2>3. ~Done(c)
    BY DEF Done, SendsNow, Inv, LimitTypes
  <2>4. Throttle(c, backoff', slowdown', extra')
    BY <1>4, <2>3 DEF RateLimited, Fails, RetriesLater
  <2>5. Delay(pair[d], backoff', slowdown', extra') = 0
    BY <1>1, <2>4
  <2>. QED
    BY <2>2, <2>5, NoDelay DEF Inv, LimitTypes
<1>5. CASE Tick \/ UNCHANGED vars
  BY <1>5 DEF Tick, vars, callVars, SendsNow
<1>. QED
  BY <1>2, <1>3, <1>4, <1>5 DEF Next, CallNext, Terminated

\* No request is sent inside a backoff window.
THEOREM WindowsAreQuiet == Spec => NothingSentInWindow
<1>1. ASSUME Inv, [Next]_vars PROVE WindowStep
  <2>1. SUFFICES ASSUME NEW d \in Calls, SendsNow(d) PROVE backoff' = 0
    BY DEF WindowStep
  <2>. QED
    BY <1>1, <2>1, SendsAtNoDelay, NoDelay DEF Inv, LimitTypes
<1>. QED
  BY <1>1, InvHolds, PTL DEF Spec, NothingSentInWindow

\* Requests are as far apart as the limits of the moment ask for.
THEOREM RequestsAreSpaced == Spec => SpacingKept
<1>1. ASSUME Inv, [Next]_vars PROVE SpacingStep
  <2>1. SUFFICES ASSUME NEW d \in Calls, SendsNow(d)
                 PROVE  /\ idleFor >= Spacing(slowdown, extra)
                        /\ pair[d] # NoPair => pairIdleFor[pair[d]] >= PairInterval
    BY DEF SpacingStep
  <2>. QED
    BY <1>1, <2>1, SendsAtNoDelay, NoDelay DEF Inv, LimitTypes, AgesTrue
<1>. QED
  BY <1>1, InvHolds, PTL DEF Spec, SpacingKept

=============================================================================
