-------------------------- MODULE OpenInterestJoin --------------------------
(***************************************************************************)
(* The open interest route of src/main.py on linear markets: it fetches    *)
(* the rows of a symbol and then, one await later, the candles of the same *)
(* periods, and gives each row the close of the candle that ended when the *)
(* row was taken.  Trades and the ends of periods come in between.         *)
(*                                                                         *)
(* Time is counted in periods: the row t is taken when the period t begins *)
(* and the candle t opens then.  Both calls of the adapter may walk over   *)
(* pages, as the module History says, and give a part of what they should. *)
(***************************************************************************)
EXTENDS Naturals, FiniteSets

CONSTANTS
    MaxTime,  \* bound: the last period
    MaxLimit  \* bound: the rows that a client asks for

VARIABLES
    now,     \* the period that is running
    traded,  \* the periods with a trade, which are those with a candle
    stage,   \* the await at which the request is
    start,   \* the parameter start, or now if there is none
    limit,   \* the parameter limit
    rows,    \* oi_rows
    asOf,    \* when they were read
    joined,  \* the rows that have got a close
    came,    \* history: the candles of the answer
    cut      \* history: there were more of them, but the walk ended early

vars == <<now, traded, stage, start, limit, rows, asOf, joined, came, cut>>

NoStart == MaxTime + 1

-----------------------------------------------------------------------------
Newest(n, S) == {t \in S : Cardinality({u \in S : u > t}) < n}
UpTo(S)      == {t \in S : t <= start /\ t <= now}

\* What a walk gives of S. One from the newest page back keeps the newest, and
\* Kraken's from the oldest on the oldest.
Walks(S) == {{t \in S : a <= t /\ t <= b} : a, b \in 0..MaxTime}

Init ==
    /\ now = 1
    /\ traded \in SUBSET (0..1)
    /\ stage = "idle"
    /\ start = NoStart
    /\ limit = 1
    /\ rows = {}
    /\ asOf = 0
    /\ joined = {}
    /\ came = {} /\ cut = FALSE

Asks ==
    /\ stage \in {"idle", "done"}
    /\ stage' = "rows"
    /\ start' \in 0..now \cup {NoStart}
    /\ limit' \in 1..MaxLimit
    /\ rows' = {} /\ joined' = {}
    /\ came' = {} /\ cut' = FALSE
    /\ UNCHANGED <<now, traded, asOf>>

\* Hyperliquid has no series: it returns the present value, dated back to the
\* beginning of the period, whatever the parameters are.
RowsArrive ==
    /\ stage = "rows"
    /\ rows' \in Walks(Newest(limit, UpTo(1..MaxTime))) \cup {{now}}
    /\ asOf' = now
    /\ stage' = IF rows' = {} THEN "done" ELSE "candles"
    /\ UNCHANGED <<now, traded, start, limit, joined, came, cut>>

RowsFail ==
    /\ stage = "rows"
    /\ stage' = "done"
    /\ UNCHANGED <<now, traded, start, limit, rows, asOf, joined, came, cut>>

\* The last candle is taken for the one that is running, and left out.
Ended(candles) == {c \in candles : \E d \in candles : d > c}

\* A row is joined with the candle that has ended when the row was taken.
JoinedWith(candles) == {t \in rows : t - 1 \in Ended(candles)}

\* Mutant: as many candles as rows.
CandlesArrive_AsManyAsRows ==
    /\ stage = "candles"
    /\ LET all == Newest(limit, UpTo(traded))
       IN  came' \in Walks(all) /\ cut' = (came' # all)
    /\ joined' = JoinedWith(came')
    /\ stage' = "done"
    /\ UNCHANGED <<now, traded, start, limit, rows, asOf>>

CandlesArrive ==
    /\ stage = "candles"
    /\ LET all == Newest(limit + 1, UpTo(traded))
       IN  came' \in Walks(all) /\ cut' = (came' # all)
    /\ joined' = JoinedWith(came')
    /\ stage' = "done"
    /\ UNCHANGED <<now, traded, start, limit, rows, asOf>>

\* The rows go out as they are.
CandlesFail ==
    /\ stage = "candles"
    /\ stage' = "done"
    /\ UNCHANGED <<now, traded, start, limit, rows, asOf, joined, came, cut>>

Trades ==
    /\ traded' = traded \cup {now}
    /\ UNCHANGED <<now, stage, start, limit, rows, asOf, joined, came, cut>>

Tick ==
    /\ now < MaxTime
    /\ now' = now + 1
    /\ UNCHANGED <<traded, stage, start, limit, rows, asOf, joined, came, cut>>

Next == \/ Asks \/ RowsArrive \/ RowsFail \/ CandlesArrive \/ CandlesFail
        \/ Trades \/ Tick

Spec == Init /\ [][Next]_vars

-----------------------------------------------------------------------------
(* Correctness *)

\* A row whose candle was traded goes out without a close only
\*   - if the walk for the candles ended early and did not bring the candle, or
\*     none after it;
\*   - if nothing was traded from the row on to start or until the candles were
\*     read, so that its candle, though it has ended, is the last one;
\*   - if it is among the oldest rows, as many as periods ended between the two
\*     fetches: the candles, one more than the limit, no longer reach back to them.
JoinStep ==
    CandlesArrive =>
        \A t \in rows \ joined' :
            t - 1 \in traded /\ t <= start =>
                \/ cut' /\ (t - 1 \in came' => \A d \in came' : d < t)
                \/ \A d \in UpTo(traded) : d < t
                \/ Cardinality({u \in rows : u < t}) < now - asOf
RowsAreJoined == [][JoinStep]_vars

=============================================================================
