------------------------- MODULE RequestPathProofs -------------------------
(***************************************************************************)
(* Proofs about RequestPath, for any set of calls and whichever adapter.   *)
(*                                                                         *)
(* That a call sends three requests at most, and none in a window it has   *)
(* seen, follows once it is known how the retries left and the requests    *)
(* sent add up at each await, and that a sleep lasts as long as the window *)
(* that was seen when it began.                                            *)
(***************************************************************************)
EXTENDS RequestPath, TLAPS

\* What is known of a call, by where it is suspended.
CallConsistent ==
    \A c \in Calls :
        /\ stage[c] = "idle" => sent[c] = 0
        /\ stage[c] \in {"backing_off", "queued", "pausing"} =>
               sent[c] + retries[c] = 3
        /\ stage[c] = "in_flight" => sent[c] + retries[c] = 4
        /\ stage[c] # "pausing" => retries[c] > 0
        /\ stage[c] = "backing_off" => seen[c] = wait[c]
        /\ stage[c] = "queued" => seen[c] = 0

\* The inductive invariant.
Inv == TypeOK /\ CallConsistent

-----------------------------------------------------------------------------
USE DEF MaxWindow, callVars

\* What the headers make of the deadline is a deadline, and no nearer one.
LEMMA HeadersKeepWindow ==
  ASSUME backoff \in 0..MaxWindow, NEW a, NEW b \in AfterHeaders(a)
  PROVE  b \in 0..MaxWindow /\ b >= backoff
  BY DEF AfterHeaders, Longer

\* A rate-limited answer asks for a window of at most the longest length.
LEMMA WindowsInRange ==
  ASSUME NEW a, NEW r \in 1..3, NEW w \in Windows(a, r)
  PROVE  w \in 0..MaxWindow
  BY DEF Windows

\* The deadline that a rate-limited answer leaves.
LEMMA LimitedWindow ==
  ASSUME backoff \in 0..MaxWindow, NEW a, NEW r \in 1..3,
         NEW b \in AfterHeaders(a), NEW w \in Windows(a, r)
  PROVE  Longer(b, w) \in 0..MaxWindow /\ Longer(b, w) >= backoff
<1>1. b \in 0..MaxWindow /\ b >= backoff
  BY HeadersKeepWindow
<1>2. w \in 0..MaxWindow
  BY WindowsInRange
<1>. QED
  BY <1>1, <1>2 DEF Longer

-----------------------------------------------------------------------------
\* The invariant holds initially.
LEMMA InitInv == Init => Inv
  BY AdaptersAssumption DEF Init, Inv, TypeOK, CallConsistent

\* A call that ends leaves nothing behind.
LEMMA EndsKeepsInv ==
  ASSUME Inv, NEW c \in Calls, Ends(c), backoff' \in 0..MaxWindow,
         UNCHANGED adapter
  PROVE  Inv'
<1>1. TypeOK'
  BY DEF Inv, TypeOK, Ends
<1>2. CallConsistent'
  BY DEF Inv, TypeOK, CallConsistent, Ends
<1>. QED
  BY <1>1, <1>2 DEF Inv

\* The head of the loop keeps the invariant when it is entered with as many
\* retries as the requests sent allow.
LEMMA AttemptKeepsInv ==
  ASSUME Inv, NEW c \in Calls, NEW r \in 0..3, NEW w \in 0..MaxWindow,
         Attempt(c, r, w), sent[c] + r = 3,
         backoff' \in 0..MaxWindow, UNCHANGED adapter
  PROVE  Inv'
<1>1. CASE Ends(c)
  BY <1>1, EndsKeepsInv
<1>2. CASE ~Ends(c)
  <2>1. /\ r > 0
        /\ retries' = [retries EXCEPT ![c] = r]
        /\ seen' = [seen EXCEPT ![c] = w]
        /\ wait' = [wait EXCEPT ![c] = w]
        /\ IF w = 0
           THEN Proceeds(c)
           ELSE /\ stage' = [stage EXCEPT ![c] = "backing_off"]
                /\ UNCHANGED sent
    BY <1>2 DEF Attempt
  <2>2. CASE w = 0
    <3>1. TypeOK'
      BY <2>1, <2>2 DEF Inv, TypeOK, Proceeds, Sends
    <3>2. CallConsistent'
      BY <2>1, <2>2 DEF Inv, TypeOK, CallConsistent, Proceeds, Sends
    <3>. QED
      BY <3>1, <3>2 DEF Inv
  <2>3. CASE w # 0
    <3>1. TypeOK'
      BY <2>1, <2>3 DEF Inv, TypeOK
    <3>2. CallConsistent'
      BY <2>1, <2>3 DEF Inv, TypeOK, CallConsistent
    <3>. QED
      BY <3>1, <3>2 DEF Inv
  <2>. QED
    BY <2>2, <2>3
<1>. QED
  BY <1>1, <1>2

\* Every step keeps the invariant.
LEMMA NextKeepsInv == Inv /\ [Next]_vars => Inv'
<1> SUFFICES ASSUME Inv, [Next]_vars PROVE Inv'
  OBVIOUS
<1>. USE DEF Inv
<1>1. ASSUME NEW c \in Calls, Start(c) PROVE Inv'
  BY <1>1, AttemptKeepsInv DEF Start, TypeOK, CallConsistent
<1>2. ASSUME NEW c \in Calls, BackoffOver(c) PROVE Inv'
  <2>1. TypeOK'
    BY <1>2 DEF BackoffOver, Proceeds, Sends, TypeOK
  <2>2. CallConsistent'
    BY <1>2 DEF BackoffOver, Proceeds, Sends, TypeOK, CallConsistent
  <2>. QED
    BY <2>1, <2>2
<1>3. ASSUME NEW c \in Calls, Admitted(c) PROVE Inv'
  <2>1. TypeOK'
    BY <1>3 DEF Admitted, Sends, TypeOK
  <2>2. CallConsistent'
    BY <1>3 DEF Admitted, Sends, TypeOK, CallConsistent
  <2>. QED
    BY <2>1, <2>2
<1>4. ASSUME NEW c \in Calls, Answered(c) PROVE Inv'
  BY <1>4, EndsKeepsInv, HeadersKeepWindow DEF Answered, TypeOK
<1>5. ASSUME NEW c \in Calls, RateLimited(c) PROVE Inv'
  <2>1. retries[c] \in 1..3 /\ sent[c] + (retries[c] - 1) = 3
    BY <1>5 DEF RateLimited, TypeOK, CallConsistent
  <2>2. PICK b \in AfterHeaders(adapter), w \in Windows(adapter, retries[c]) :
            /\ backoff' = Longer(b, w)
            /\ Attempt(c, retries[c] - 1, backoff')
    BY <1>5 DEF RateLimited
  <2>3. backoff' \in 0..MaxWindow
    BY <2>1, <2>2, LimitedWindow DEF TypeOK
  <2>. QED
    BY <1>5, <2>1, <2>2, <2>3, AttemptKeepsInv DEF RateLimited
<1>6. ASSUME NEW c \in Calls, Banned(c) PROVE Inv'
  BY <1>6, EndsKeepsInv DEF Banned
<1>7. ASSUME NEW c \in Calls, Fails(c) PROVE Inv'
  <2>1. backoff' \in 0..MaxWindow
    BY <1>7, HeadersKeepWindow DEF Fails, TypeOK
  <2>2. TypeOK'
    BY <1>7, <2>1 DEF Fails, TypeOK, CallConsistent
  <2>3. CallConsistent'
    BY <1>7 DEF Fails, TypeOK, CallConsistent
  <2>. QED
    BY <2>2, <2>3
<1>8. ASSUME NEW c \in Calls, PauseOver(c) PROVE Inv'
  BY <1>8, AttemptKeepsInv DEF PauseOver, TypeOK, CallConsistent
<1>9. CASE Tick
  <2>1. TypeOK'
    BY <1>9 DEF Tick, Less, TypeOK
  <2>2. CallConsistent'
    BY <1>9 DEF Tick, Less, TypeOK, CallConsistent
  <2>. QED
    BY <2>1, <2>2
<1>10. CASE UNCHANGED vars
  BY <1>10 DEF vars, TypeOK, CallConsistent
<1>. QED
  BY <1>1, <1>2, <1>3, <1>4, <1>5, <1>6, <1>7, <1>8, <1>9, <1>10
     DEF Next, CallNext

\* The invariant holds in every reachable state.
LEMMA InvHolds == Spec => []Inv
  BY InitInv, NextKeepsInv, PTL DEF Spec

-----------------------------------------------------------------------------
\* However its attempts fail, a call sends at most three requests.
THEOREM ThreeAttempts == Spec => []AttemptsBounded
<1>1. ASSUME Inv, NEW c \in Calls PROVE sent[c] <= 3
  <2>1. /\ sent[c] \in Nat /\ retries[c] \in 0..3
        /\ stage[c] \in {"idle", "backing_off", "queued", "in_flight", "pausing"}
    BY <1>1 DEF Inv, TypeOK
  <2>2. \/ sent[c] = 0 \/ sent[c] + retries[c] = 3
        \/ sent[c] + retries[c] = 4 /\ retries[c] > 0
    BY <1>1, <2>1 DEF Inv, CallConsistent
  <2>. QED
    BY <2>1, <2>2
<1>2. Inv => AttemptsBounded
  BY <1>1 DEF AttemptsBounded
<1>. QED
  BY <1>2, InvHolds, PTL

\* No request is sent in a window that its call has seen.
THEOREM CallsKeepSeenWindows == Spec => SeenWindowsAreKept
<1>1. ASSUME NEW c \in Calls, NEW r, NEW w, Attempt(c, r, w), Inv,
             NEW d \in Calls, SendsNow(d)
      PROVE  seen'[d] = 0
  <2>1. d = c /\ w = 0
    BY <1>1 DEF Inv, TypeOK, Attempt, Ends, Proceeds, Sends, SendsNow
  <2>. QED
    BY <1>1, <2>1 DEF Inv, TypeOK, Attempt, Ends, SendsNow
<1>2. ASSUME Inv, [Next]_vars, NEW d \in Calls, SendsNow(d)
      PROVE  seen'[d] = 0
  <2>1. ASSUME NEW c \in Calls, Start(c) \/ RateLimited(c) \/ PauseOver(c)
        PROVE  seen'[d] = 0
    BY <1>1, <1>2, <2>1 DEF Start, RateLimited, PauseOver
  <2>2. ASSUME NEW c \in Calls, BackoffOver(c) \/ Admitted(c)
        PROVE  seen'[d] = 0
    BY <1>2, <2>2 DEF Inv, TypeOK, CallConsistent, BackoffOver, Admitted,
       Proceeds, Sends, SendsNow
  <2>3. ASSUME NEW c \in Calls, Answered(c) \/ Banned(c) \/ Fails(c) PROVE FALSE
    BY <1>2, <2>3 DEF Inv, TypeOK, Answered, Banned, Fails, Ends, SendsNow
  <2>4. CASE Tick \/ UNCHANGED vars
    BY <1>2, <2>4 DEF Tick, vars, SendsNow
  <2>. QED
    BY <1>2, <2>1, <2>2, <2>3, <2>4 DEF Next, CallNext
<1>3. Inv /\ [Next]_vars => [SeenWindowStep]_vars
  BY <1>2 DEF SeenWindowStep
<1>. QED
  BY <1>3, InvHolds, PTL DEF Spec, SeenWindowsAreKept

\* Only time brings a deadline closer.
THEOREM DeadlinesOnlyGrow == Spec => DeadlineNeverShrinks
<1>1. ASSUME Inv, [Next]_vars PROVE backoff' >= backoff \/ Tick
  <2>1. ASSUME NEW c \in Calls, CallNext(c) PROVE backoff' >= backoff
    <3>1. CASE Start(c) \/ BackoffOver(c) \/ Admitted(c) \/ PauseOver(c)
      BY <1>1, <3>1 DEF Inv, TypeOK, Start, BackoffOver, Admitted, PauseOver
    <3>2. CASE Answered(c) \/ Fails(c)
      BY <1>1, <3>2, HeadersKeepWindow DEF Inv, TypeOK, Answered, Fails
    <3>3. CASE RateLimited(c)
      <4>1. retries[c] \in 1..3
        BY <1>1, <3>3 DEF Inv, TypeOK, CallConsistent, RateLimited
      <4>. QED
        BY <1>1, <3>3, <4>1, LimitedWindow DEF Inv, TypeOK, RateLimited
    <3>4. CASE Banned(c)
      BY <1>1, <3>4 DEF Inv, TypeOK, Banned
    <3>. QED
      BY <2>1, <3>1, <3>2, <3>3, <3>4 DEF CallNext
  <2>2. CASE UNCHANGED vars
    BY <1>1, <2>2 DEF Inv, TypeOK, vars
  <2>. QED
    BY <1>1, <2>1, <2>2 DEF Next
<1>2. ASSUME Inv, Inv', [Next]_vars PROVE [DeadlineStep]_vars
  BY <1>1, <1>2 DEF DeadlineStep, Inv, TypeOK
<1>. QED
  BY <1>2, InvHolds, PTL DEF Spec, DeadlineNeverShrinks

=============================================================================
