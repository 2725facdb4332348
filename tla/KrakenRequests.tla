--------------------------- MODULE KrakenRequests ---------------------------
(***************************************************************************)
(* The REST request path of the Kraken adapter: every attempt of           *)
(* _make_request first passes _await_throttle, which keeps requests apart  *)
(* (all of them, and more so those for one pair), waits for the shared     *)
(* backoff deadline, and looks at everything again after each sleep.       *)
(*                                                                         *)
(* _rate_lock is never held across an await: a pass through the throttle   *)
(* is one step, up to the request or to the next sleep.  Time is kept as   *)
(* what remains of the deadlines and as what has passed since the last     *)
(* requests, in ticks of the shortest interval (200 ms); the other         *)
(* durations are constants.                                                *)
(***************************************************************************)
EXTENDS Naturals, FiniteSets

CONSTANTS
    Calls,          \* calls of _make_request
    Pairs,          \* pairs whose OHLC or Trades are asked for
    NoPair,         \* what a call of any other endpoint is for
    Interval,       \* _base_interval_ms
    ExtraInterval,  \* _extra_interval_ms, once requests have been throttled
    PairInterval,   \* _pair_interval_ms
    MaxAttempts,    \* 8 on Spot REST, 5 on Futures
    MaxWindow,      \* bound: the longest backoff
    SlowWindow      \* how long requests are slowed down, 60 s

ASSUME NoPairAssumption == NoPair \notin Pairs
ASSUME DurationsAssumption ==
    /\ {Interval, ExtraInterval, PairInterval} \subseteq Nat \ {0}
    /\ {MaxAttempts, MaxWindow, SlowWindow} \subseteq Nat \ {0}

VARIABLES
    backoff,    \* what remains until _backoff_until
    slowdown,   \* what remains until _slowdown_until
    extra,      \* _extra_interval_ms, which is never reset
    lastAge,    \* time since _last_request_at
    pairAge,    \* time since _last_pair_call_at of each pair
    stage,      \* where each call is suspended
    wait,       \* what remains of its sleep in the throttle
    attempt,    \* its loop variable
    pair,       \* the pair it is for, or NoPair
    idleFor,    \* history: time since a request was last sent
    pairIdleFor \* history: time since one was last sent for each pair

limitVars == <<backoff, slowdown, extra, lastAge, pairAge>>
callVars  == <<stage, wait, attempt, pair>>
vars == <<limitVars, callVars, idleFor, pairIdleFor>>

Longest(S) == CHOOSE n \in S : \A m \in S : n >= m

\* An age beyond which nothing depends on it, and that of no request at all.
LongAgo == Longest({Interval + ExtraInterval, PairInterval})

Init ==
    /\ backoff = 0
    /\ slowdown = 0
    /\ extra = 0
    /\ lastAge = LongAgo
    /\ pairAge = [p \in Pairs |-> LongAgo]
    /\ stage = [c \in Calls |-> "idle"]
    /\ wait = [c \in Calls |-> 0]
    /\ attempt = [c \in Calls |-> 0]
    /\ pair \in [Calls -> Pairs \cup {NoPair}]
    /\ idleFor = LongAgo
    /\ pairIdleFor = [p \in Pairs |-> LongAgo]

-----------------------------------------------------------------------------
(* Parts of a step *)

Less(n, d) == IF n > d THEN n - d ELSE 0

\* How far requests are to be apart while s remains of the slowdown.
Spacing(s, x) == IF s > 0 THEN Interval + x ELSE Interval

\* How long a call for p has to wait, given the deadlines b and s and the
\* extra interval x.
Delay(p, b, s, x) ==
    Longest({b, Less(Spacing(s, x), lastAge)}
            \cup IF p = NoPair THEN {} ELSE {Less(PairInterval, pairAge[p])})

\* Mutant: the throttle does not enter the request.
Enters_Not(c) == UNCHANGED <<lastAge, pairAge>>

\* The throttle enters the request of c as sent now.
Enters(c) ==
    /\ lastAge' = 0
    /\ pairAge' = [p \in Pairs |-> IF p = pair[c] THEN 0 ELSE pairAge[p]]

Sends(c) ==
    /\ stage' = [stage EXCEPT ![c] = "in_flight"]
    /\ idleFor' = 0
    /\ pairIdleFor' = [p \in Pairs |-> IF p = pair[c] THEN 0 ELSE pairIdleFor[p]]

\* A pass through _await_throttle: send the request, or sleep and come back.
Throttle(c, b, s, x) ==
    LET delay == Delay(pair[c], b, s, x)
    IN  /\ wait' = [wait EXCEPT ![c] = delay]
        /\ IF delay = 0
           THEN Enters(c) /\ Sends(c)
           ELSE /\ stage' = [stage EXCEPT ![c] = "throttled"]
                /\ UNCHANGED <<lastAge, pairAge, idleFor, pairIdleFor>>

-----------------------------------------------------------------------------
(* The steps of a call *)

Start(c) ==
    /\ stage[c] = "idle"
    /\ Throttle(c, backoff, slowdown, extra)
    /\ UNCHANGED <<backoff, slowdown, extra, attempt, pair>>

\* Mutant: after its sleep a call goes on without looking again.
SleepOver_NoRecheck(c) ==
    /\ stage[c] = "throttled"
    /\ wait[c] = 0
    /\ Enters(c)
    /\ Sends(c)
    /\ UNCHANGED <<backoff, slowdown, extra, wait, attempt, pair>>

SleepOver(c) ==
    /\ stage[c] = "throttled"
    /\ wait[c] = 0
    /\ Throttle(c, backoff, slowdown, extra)
    /\ UNCHANGED <<backoff, slowdown, extra, attempt, pair>>

Done(c) ==
    /\ stage' = [stage EXCEPT ![c] = "done"]
    /\ UNCHANGED <<wait, lastAge, pairAge, idleFor, pairIdleFor>>

\* The data, or an error that is not retried.
Answered(c) ==
    /\ stage[c] = "in_flight"
    /\ Done(c)
    /\ UNCHANGED <<backoff, slowdown, extra, attempt, pair>>

\* Mutant: throttling is retried without end.
RetriesLater_Always(c) ==
    /\ attempt' = attempt
    /\ Throttle(c, backoff', slowdown', extra')

\* The next turn of the loop, or the end of the call.
RetriesLater(c) ==
    /\ attempt' = [attempt EXCEPT ![c] = @ + 1]
    /\ IF attempt'[c] = MaxAttempts
       THEN Done(c)
       ELSE Throttle(c, backoff', slowdown', extra')

\* _set_backoff: a deadline the exchange declared, or a random one that grows
\* with the attempts; a strong signal also slows requests down.
SetBackoff(strong) ==
    /\ \E w \in 1..MaxWindow : backoff' = Longest({backoff, w})
    /\ IF strong
       THEN slowdown' = SlowWindow /\ extra' = ExtraInterval
       ELSE UNCHANGED <<slowdown, extra>>

\* Too many requests, in the status or in the body.
RateLimited(c) ==
    /\ stage[c] = "in_flight"
    /\ SetBackoff(TRUE)
    /\ RetriesLater(c)
    /\ UNCHANGED pair

\* A gateway error, a body that is not JSON, or no answer at all.
Fails(c) ==
    /\ stage[c] = "in_flight"
    /\ SetBackoff(FALSE)
    /\ RetriesLater(c)
    /\ UNCHANGED pair

Older(n) == IF n < LongAgo THEN n + 1 ELSE n

\* Some time passes.
Tick ==
    /\ \/ backoff > 0 \/ slowdown > 0 \/ \E c \in Calls : wait[c] > 0
       \/ lastAge < LongAgo \/ \E p \in Pairs : pairAge[p] < LongAgo
    /\ backoff' = Less(backoff, 1)
    /\ slowdown' = Less(slowdown, 1)
    /\ wait' = [c \in Calls |-> Less(wait[c], 1)]
    /\ lastAge' = Older(lastAge)
    /\ pairAge' = [p \in Pairs |-> Older(pairAge[p])]
    /\ idleFor' = Older(idleFor)
    /\ pairIdleFor' = [p \in Pairs |-> Older(pairIdleFor[p])]
    /\ UNCHANGED <<extra, stage, attempt, pair>>

CallNext(c) ==
    \/ Start(c)
    \/ SleepOver(c)
    \/ Answered(c)
    \/ RateLimited(c)
    \/ Fails(c)

\* Everything has come to its end; only then may the system stop.
Terminated ==
    /\ \A c \in Calls : stage[c] = "done"
    /\ UNCHANGED vars

Next ==
    \/ \E c \in Calls : CallNext(c)
    \/ Tick
    \/ Terminated

Spec == Init /\ [][Next]_vars

\* Time passes, the event loop runs what is ready, and the 30 s timeout of the
\* HTTP client bounds a request.
Fairness ==
    /\ WF_vars(Tick)
    /\ \A c \in Calls :
           /\ WF_vars(SleepOver(c))
           /\ WF_vars(Answered(c) \/ RateLimited(c) \/ Fails(c))

FairSpec == Spec /\ Fairness

-----------------------------------------------------------------------------
(* Correctness *)

\* The types of the variables of Kraken's request path.
TypeOK ==
    /\ backoff \in 0..MaxWindow
    /\ slowdown \in 0..SlowWindow
    /\ extra \in {0, ExtraInterval}
    /\ lastAge \in 0..LongAgo
    /\ pairAge \in [Pairs -> 0..LongAgo]
    /\ stage \in [Calls -> {"idle", "throttled", "in_flight", "done"}]
    /\ wait \in [Calls -> Nat]
    /\ attempt \in [Calls -> 0..MaxAttempts]
    /\ pair \in [Calls -> Pairs \cup {NoPair}]
    /\ idleFor \in 0..LongAgo
    /\ pairIdleFor \in [Pairs -> 0..LongAgo]

\* Whatever sleepers wake together and whatever windows open meanwhile, no
\* request is sent inside a backoff window.
SendsNow(c) == stage[c] # "in_flight" /\ stage'[c] = "in_flight"
WindowStep == \A c \in Calls : SendsNow(c) => backoff' = 0
NothingSentInWindow == [][WindowStep]_vars

\* Two requests are never closer than the interval that holds when the second
\* is sent, nor two of one pair closer than the pair interval.
SpacingStep ==
    \A c \in Calls : SendsNow(c) =>
        /\ idleFor >= Spacing(slowdown, extra)
        /\ pair[c] # NoPair => pairIdleFor[pair[c]] >= PairInterval
SpacingKept == [][SpacingStep]_vars

\* Every call ends, although it looks again after each sleep and the others
\* may take its turn or extend the window meanwhile.
CallsEnd == \A c \in Calls : stage[c] = "throttled" ~> stage[c] = "done"

=============================================================================
