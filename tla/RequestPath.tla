---------------------------- MODULE RequestPath ----------------------------
(***************************************************************************)
(* The REST request path of the OKX, Binance, Bybit, KuCoin and            *)
(* Hyperliquid adapters: _make_request with its retries and the backoff    *)
(* deadline that all requests of an adapter (of a host, for Binance) share.*)
(*                                                                         *)
(* The five methods have one shape and differ in a few places; adapter     *)
(* says whose code runs.  The lock around the deadline is never held       *)
(* across an await, so a step is the code between the awaits: the sleep    *)
(* until the deadline, OKX's queue for a slot, the request itself, and the *)
(* pause after a gateway or network error.                                 *)
(*                                                                         *)
(* Time is kept as what remains of the deadline and of each sleep; a Tick  *)
(* lets some time pass for all of them.  Durations keep the order of the   *)
(* code's seconds, not their ratio: 2 s and 5 s are one tick, 10 s and     *)
(* 15 s two and three, 30 s four, 60 s five, Bybit's ban of 600 s six.     *)
(***************************************************************************)
EXTENDS Naturals

CONSTANTS
    Calls,    \* concurrent callers of _make_request, each one after another
    Adapters  \* the adapters whose code is considered

ASSUME AdaptersAssumption ==
    Adapters \subseteq {"okx", "binance", "bybit", "kucoin", "hyperliquid"}

VARIABLES
    adapter,  \* whose code it is
    backoff,  \* what remains until _backoff_until
    stage,    \* where each call is suspended
    wait,     \* what remains of its sleep for the backoff
    retries,  \* its local variable
    sent,     \* history: the requests it has sent upstream
    seen      \* history: what remains of the window that its last look at
              \* _backoff_until saw

callVars == <<stage, wait, retries, sent, seen>>
vars == <<adapter, backoff, callVars>>

MaxWindow == 6  \* the longest window, longer than every threshold

\* A wait above this is refused instead of slept; Binance sleeps through all.
FailFast(a) ==
    CASE a = "okx" -> 5
      [] a = "binance" -> MaxWindow
      [] OTHER -> 4

\* The windows a rate-limited answer may ask for; r retries are left.
Windows(a, r) ==
    CASE a = "okx" -> 1..MaxWindow        \* Retry-After, at least 2 s
      [] a = "binance" -> 0..MaxWindow    \* Retry-After
      [] a = "hyperliquid" -> {4 - r}     \* 5, 10, 15 s
      [] OTHER -> {1}                     \* Bybit and KuCoin: 2 s or 5 s

Longer(a, b) == IF a > b THEN a ELSE b

\* Mutant: the pause for a high weight replaces a longer window.
AfterHeaders_Replaces(a) ==
    CASE a = "binance" -> {backoff, 1}
      [] a = "bybit" -> {0, 1}
      [] OTHER -> {backoff}

\* What the headers of any answer may make of the deadline: Binance pauses
\* when little weight is left and no window is open, Bybit until its reset,
\* which is at most seconds away.
AfterHeaders(a) ==
    CASE a = "binance" -> {backoff, IF backoff = 0 THEN 1 ELSE backoff}
      [] a = "bybit" -> {Longer(backoff, reset) : reset \in {0, 1}}
      [] OTHER -> {backoff}

Init ==
    /\ adapter \in Adapters
    /\ backoff = 0
    /\ stage = [c \in Calls |-> "idle"]
    /\ wait = [c \in Calls |-> 0]
    /\ retries = [c \in Calls |-> 3]
    /\ sent = [c \in Calls |-> 0]
    /\ seen = [c \in Calls |-> 0]

-----------------------------------------------------------------------------
(* Parts of a step *)

\* The call returns or raises.
Ends(c) ==
    /\ stage' = [stage EXCEPT ![c] = "idle"]
    /\ retries' = [retries EXCEPT ![c] = 3]
    /\ sent' = [sent EXCEPT ![c] = 0]
    /\ wait' = [wait EXCEPT ![c] = 0]
    /\ seen' = [seen EXCEPT ![c] = 0]

\* The request is sent.
Sends(c) ==
    /\ stage' = [stage EXCEPT ![c] = "in_flight"]
    /\ sent' = [sent EXCEPT ![c] = @ + 1]

\* Past the check: OKX first waits for its semaphore and its rate bucket.
Proceeds(c) ==
    IF adapter = "okx"
    THEN /\ stage' = [stage EXCEPT ![c] = "queued"]
         /\ UNCHANGED sent
    ELSE Sends(c)

\* Mutant: nobody sleeps longer than a tick at a time.
Attempt_ShortSleep(c, r, w) ==
    IF r = 0 \/ w > FailFast(adapter)
    THEN Ends(c)
    ELSE /\ retries' = [retries EXCEPT ![c] = r]
         /\ seen' = [seen EXCEPT ![c] = w]
         /\ wait' = [wait EXCEPT ![c] = IF w > 1 THEN 1 ELSE w]
         /\ IF w = 0
            THEN Proceeds(c)
            ELSE /\ stage' = [stage EXCEPT ![c] = "backing_off"]
                 /\ UNCHANGED sent

\* The head of the loop with r retries left and the deadline at w: give up,
\* refuse a long wait, sleep until the deadline, or go on.
Attempt(c, r, w) ==
    IF r = 0 \/ w > FailFast(adapter)
    THEN Ends(c)
    ELSE /\ retries' = [retries EXCEPT ![c] = r]
         /\ seen' = [seen EXCEPT ![c] = w]
         /\ wait' = [wait EXCEPT ![c] = w]
         /\ IF w = 0
            THEN Proceeds(c)
            ELSE /\ stage' = [stage EXCEPT ![c] = "backing_off"]
                 /\ UNCHANGED sent

-----------------------------------------------------------------------------
(* The steps of a call *)

Start(c) ==
    /\ stage[c] = "idle"
    /\ Attempt(c, 3, backoff)
    /\ UNCHANGED <<adapter, backoff>>

\* Mutant: a call sleeps again as long as there is a window.
BackoffOver_LooksAgain(c) ==
    /\ stage[c] = "backing_off"
    /\ wait[c] = 0
    /\ IF backoff = 0
       THEN Proceeds(c) /\ UNCHANGED <<wait, seen>>
       ELSE /\ wait' = [wait EXCEPT ![c] = backoff]
            /\ seen' = [seen EXCEPT ![c] = backoff]
            /\ UNCHANGED <<stage, sent>>
    /\ UNCHANGED <<adapter, backoff, retries>>

\* The sleep is over. The deadline is not looked at again.
BackoffOver(c) ==
    /\ stage[c] = "backing_off"
    /\ wait[c] = 0
    /\ Proceeds(c)
    /\ UNCHANGED <<adapter, backoff, wait, retries, seen>>

\* OKX: a slot and a place in the rate bucket are free. They only delay.
Admitted(c) ==
    /\ stage[c] = "queued"
    /\ Sends(c)
    /\ UNCHANGED <<adapter, backoff, wait, retries, seen>>

\* An answer that ends the call: the data, a client or API error, or a
\* server error that is not retried.
Answered(c) ==
    /\ stage[c] = "in_flight"
    /\ backoff' \in AfterHeaders(adapter)
    /\ Ends(c)
    /\ UNCHANGED adapter

\* The answer says that there were too many requests.
RateLimited(c) ==
    /\ stage[c] = "in_flight"
    /\ \E b \in AfterHeaders(adapter), w \in Windows(adapter, retries[c]) :
           /\ backoff' = Longer(b, w)
           /\ Attempt(c, retries[c] - 1, backoff')
    /\ UNCHANGED adapter

\* Bybit answers 403: the address is banned and the call ends at once.
Banned(c) ==
    /\ adapter = "bybit"
    /\ stage[c] = "in_flight"
    /\ backoff' = MaxWindow
    /\ Ends(c)
    /\ UNCHANGED adapter

\* A gateway error, or no answer at all (then no headers): the call pauses.
Fails(c) ==
    /\ stage[c] = "in_flight"
    /\ backoff' \in AfterHeaders(adapter)
    /\ stage' = [stage EXCEPT ![c] = "pausing"]
    /\ retries' = [retries EXCEPT ![c] = @ - 1]
    /\ UNCHANGED <<adapter, wait, sent, seen>>

PauseOver(c) ==
    /\ stage[c] = "pausing"
    /\ Attempt(c, retries[c], backoff)
    /\ UNCHANGED <<adapter, backoff>>

Less(n) == IF n = 0 THEN 0 ELSE n - 1

\* Some time passes.
Tick ==
    /\ backoff > 0 \/ \E c \in Calls : wait[c] > 0
    /\ backoff' = Less(backoff)
    /\ wait' = [c \in Calls |-> Less(wait[c])]
    /\ seen' = [c \in Calls |-> Less(seen[c])]
    /\ UNCHANGED <<adapter, stage, retries, sent>>

CallNext(c) ==
    \/ Start(c)
    \/ BackoffOver(c)
    \/ Admitted(c)
    \/ Answered(c)
    \/ RateLimited(c)
    \/ Banned(c)
    \/ Fails(c)
    \/ PauseOver(c)

Next == Tick \/ \E c \in Calls : CallNext(c)

Spec == Init /\ [][Next]_vars

\* Time passes, the event loop runs what is ready, and the timeout of the
\* HTTP client bounds a request. Nobody has to start one.
Fairness ==
    /\ WF_vars(Tick)
    /\ \A c \in Calls :
           /\ WF_vars(BackoffOver(c))
           /\ WF_vars(Admitted(c))
           /\ WF_vars(Answered(c) \/ RateLimited(c) \/ Banned(c) \/ Fails(c))
           /\ WF_vars(PauseOver(c))

FairSpec == Spec /\ Fairness

-----------------------------------------------------------------------------
(* Correctness *)

\* The types of the variables of the request path.
TypeOK ==
    /\ adapter \in Adapters
    /\ backoff \in 0..MaxWindow
    /\ stage \in [Calls -> {"idle", "backing_off", "queued", "in_flight",
                            "pausing"}]
    /\ wait \in [Calls -> 0..MaxWindow]
    /\ retries \in [Calls -> 0..3]
    /\ sent \in [Calls -> Nat]
    /\ seen \in [Calls -> 0..MaxWindow]

\* However its attempts fail, a call sends at most three requests.
AttemptsBounded == \A c \in Calls : sent[c] <= 3

\* No request is sent in a window that its call has seen: whatever sleeps,
\* queues and retries lie between the look at the deadline and the request.
SendsNow(c) == stage[c] # "in_flight" /\ stage'[c] = "in_flight"
SeenWindowStep == \A c \in Calls : SendsNow(c) => seen'[c] = 0
SeenWindowsAreKept == [][SeenWindowStep]_vars

\* A deadline is only ever moved further away, by whichever answers arrive in
\* whichever order; only time brings it closer.
DeadlineStep == backoff' < backoff => Tick
DeadlineNeverShrinks == [][DeadlineStep]_vars

\* Every call returns or raises, even if each of its answers is rate-limited
\* and others keep extending the window.
CallsEnd == \A c \in Calls : stage[c] # "idle" ~> stage[c] = "idle"

=============================================================================
