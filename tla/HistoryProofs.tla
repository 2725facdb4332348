--------------------------- MODULE HistoryProofs ---------------------------
(***************************************************************************)
(* Proofs about History: for every set of calls, limit, size of a page and *)
(* cap, every history of records and every way they arrive, an answer is   *)
(* the newest of the records asked for, a short one has all of them, and   *)
(* the view of a client that pages back has no gap.                        *)
(*                                                                         *)
(* The order of the proofs: what the newest and the oldest records of a    *)
(* set are (an order on integers, counted); what a page returns; what an   *)
(* answer is if what was gathered has no gap; that each request keeps what *)
(* was gathered without a gap.                                             *)
(***************************************************************************)
EXTENDS History, FiniteSetTheorems, WellFoundedInduction, TLAPS

-----------------------------------------------------------------------------
(* Orders *)

\* Integers that are bounded from below have a least one.
LEMMA Least ==
  ASSUME NEW b \in Int, NEW S, S \subseteq Int, S # {}, \A x \in S : b <= x
  PROVE  \E m \in S : \A x \in S : m <= x
<1> DEFINE T == {x - b : x \in S}
<1>1. T \subseteq Nat /\ T # {}
  <2>1. \A x \in S : x - b \in Nat
    OBVIOUS
  <2>. QED
    BY <2>1
<1>2. PICK y \in T : \A z \in T : ~(<<z, y>> \in OpToRel(<, Nat))
  BY <1>1, NatLessThanWellFounded, WFMin
<1>3. PICK m \in S : y = m - b
  BY <1>2
<1>4. ASSUME NEW x \in S PROVE m <= x
  <2>1. x - b \in T /\ x - b \in Nat /\ y \in Nat
    BY <1>1
  <2>2. ~(<<x - b, y>> \in OpToRel(<, Nat))
    BY <1>2, <2>1
  <2>3. ~(x - b < y)
    BY <2>1, <2>2 DEF OpToRel
  <2>. QED
    BY <1>3, <1>4, <2>1, <2>3
<1>. QED
  BY <1>4

\* And those that are bounded from above a greatest.
LEMMA Greatest ==
  ASSUME NEW b \in Int, NEW S, S \subseteq Int, S # {}, \A x \in S : x <= b
  PROVE  \E m \in S : \A x \in S : x <= m
<1> DEFINE T == {0 - x : x \in S}
<1>1. T \subseteq Int /\ T # {} /\ 0 - b \in Int
  <2>1. \A x \in S : 0 - x \in Int
    OBVIOUS
  <2>2. T \subseteq Int
    BY <2>1
  <2>3. T # {}
    OBVIOUS
  <2>4. 0 - b \in Int
    OBVIOUS
  <2> HIDE DEF T
  <2>. QED
    BY <2>2, <2>3, <2>4
<1>2. \A y \in T : 0 - b <= y
  OBVIOUS
<1>3. PICK y \in T : \A z \in T : y <= z
  <2> HIDE DEF T
  <2>. QED
    BY <1>1, <1>2, Least
<1>4. PICK m \in S : y = 0 - m
  BY <1>3
<1>5. ASSUME NEW x \in S PROVE x <= m
  <2>1. 0 - x \in T
    OBVIOUS
  <2>. QED
    BY <1>3, <1>4, <2>1
<1>. QED
  BY <1>5

\* The bounds.
LEMMA Bounds ==
  /\ PerRequest \in Nat /\ PerRequest > 2
  /\ MaxRequests \in Nat /\ MaxRequests > 0
  /\ Past \in Nat /\ Past > 0
  /\ MaxTime \in Nat /\ MaxTime > 0 /\ Past <= MaxTime
  /\ Limits \subseteq Nat \ {0}
  /\ None \notin Int
BY SizesAssumption, NoneAssumption

\* The numbers that a record may have, and the keys of an order on them.
Numbers == 0..(2 * MaxTime + 1)
Keys    == (0 - (2 * MaxTime + 1))..(2 * MaxTime + 1)

\* Sets of records are finite.
LEMMA SubsetsAreFinite ==
  ASSUME NEW S \in SUBSET Numbers
  PROVE  IsFiniteSet(S) /\ Cardinality(S) \in Nat /\ S \subseteq Nat
<1>1. IsFiniteSet(Numbers) /\ Numbers \subseteq Nat
  <2>1. 0 \in Int /\ 2 * MaxTime + 1 \in Int
    BY Bounds
  <2>. QED
    BY <2>1, FS_Interval DEF Numbers
<1>. QED
  BY <1>1, FS_Subset, FS_CardinalityType

\* The n elements of S that come first, if those with larger keys come earlier.
Leading(S, n, key) == {r \in S : Cardinality({x \in S : key[x] > key[r]}) < n}

\* What is in front does not depend on what kind of key it is, as long as no two
\* have the same.
LEMMA LeadingGives ==
  ASSUME NEW S \in SUBSET Numbers, NEW n \in Nat \ {0},
         NEW key, \A r \in S : key[r] \in Keys,
         \A r, x \in S : key[r] = key[x] => r = x
  PROVE  /\ Leading(S, n, key) \subseteq S
         /\ Cardinality(Leading(S, n, key)) <= n
         /\ Cardinality(Leading(S, n, key)) < n => Leading(S, n, key) = S
         /\ Cardinality(S) <= n => Leading(S, n, key) = S
         /\ \A r \in S \ Leading(S, n, key), x \in Leading(S, n, key) : key[r] < key[x]
<1> DEFINE L == Leading(S, n, key)
           Over(r) == {x \in S : key[x] > key[r]}
<1> DEFINE hi == 2 * MaxTime + 1
           lo == 0 - hi
<1>0. /\ IsFiniteSet(S) /\ lo \in Int /\ hi \in Int
      /\ \A r \in S : key[r] \in Int /\ lo <= key[r] /\ key[r] <= hi
  BY SubsetsAreFinite, Bounds DEF Keys
<1> HIDE DEF lo, hi
<1>1. L \subseteq S /\ IsFiniteSet(L) /\ Cardinality(L) \in Nat /\ Cardinality(S) \in Nat
  BY <1>0, FS_Subset, FS_CardinalityType DEF Leading
<1>2. \A r \in S : /\ IsFiniteSet(Over(r)) /\ Cardinality(Over(r)) \in Nat
                   /\ r \in L <=> Cardinality(Over(r)) < n
  <2> SUFFICES ASSUME NEW r \in S
               PROVE  /\ IsFiniteSet(Over(r)) /\ Cardinality(Over(r)) \in Nat
                      /\ r \in L <=> Cardinality(Over(r)) < n
    OBVIOUS
  <2>1. Over(r) \in SUBSET S
    OBVIOUS
  <2>. QED
    BY <1>0, <2>1, FS_Subset, FS_CardinalityType DEF Leading
<1>3. Cardinality(L) <= n
  <2>1. CASE L = {}
    BY <2>1, FS_EmptySet
  <2>2. CASE L # {}
    <3> DEFINE K == {key[r] : r \in L}
    <3>1. K \subseteq Int /\ K # {} /\ \A y \in K : lo <= y
      BY <1>0, <1>1, <2>2
    <3>2. PICK y \in K : \A z \in K : y <= z
      <4> HIDE DEF K
      <4>. QED
        BY <1>0, <3>1, Least
    <3>3. PICK q \in L : y = key[q]
      BY <3>2
    <3>4. L \ {q} \subseteq Over(q)
      <4> SUFFICES ASSUME NEW x \in L, x # q PROVE x \in S /\ key[x] > key[q]
        OBVIOUS
      <4>1. key[x] \in K
        OBVIOUS
      <4>2. x \in S /\ q \in S /\ key[x] # key[q]
        BY <1>1
      <4>. QED
        BY <1>0, <3>2, <3>3, <4>1, <4>2
    <3>5. Cardinality(L \ {q}) = Cardinality(L) - 1
      BY <1>1, FS_RemoveElement
    <3>6. Cardinality(L \ {q}) <= Cardinality(Over(q)) /\ Cardinality(Over(q)) < n
      BY <1>1, <1>2, <3>4, FS_Subset
    <3> HIDE DEF L, Over
    <3>. QED
      BY <1>1, <1>2, <3>5, <3>6
  <2>. QED
    BY <2>1, <2>2
<1>4. ASSUME L # S PROVE Cardinality(L) >= n
  <2> DEFINE K == {key[r] : r \in S \ L}
  <2>1. K \subseteq Int /\ K # {} /\ \A y \in K : y <= hi
    BY <1>0, <1>1, <1>4
  <2>2. PICK y \in K : \A z \in K : z <= y
    <3> HIDE DEF K
    <3>. QED
      BY <1>0, <2>1, Greatest
  <2>3. PICK q \in S \ L : y = key[q]
    BY <2>2
  <2>4. Over(q) \subseteq L
    <3> SUFFICES ASSUME NEW x \in S \ L, key[x] > key[q] PROVE FALSE
      OBVIOUS
    <3>1. key[x] \in K
      OBVIOUS
    <3>. QED
      BY <1>0, <2>2, <2>3, <3>1
  <2>5. Cardinality(Over(q)) <= Cardinality(L)
    BY <1>1, <2>4, FS_Subset
  <2> HIDE DEF L, Over
  <2>. QED
    BY <1>1, <1>2, <2>3, <2>5
<1>5. ASSUME Cardinality(S) <= n, NEW r \in S PROVE r \in L
  <2>1. Over(r) \in SUBSET (S \ {r})
    BY <1>0
  <2>2. /\ IsFiniteSet(S \ {r})
        /\ Cardinality(S \ {r}) = Cardinality(S) - 1
    BY <1>0, FS_RemoveElement
  <2>3. Cardinality(Over(r)) <= Cardinality(S \ {r})
    BY <2>1, <2>2, FS_Subset
  <2> HIDE DEF L, Over
  <2>. QED
    BY <1>1, <1>2, <1>5, <2>2, <2>3
<1>6. ASSUME NEW r \in S \ L, NEW x \in L PROVE key[r] < key[x]
  <2> SUFFICES ASSUME key[r] >= key[x] PROVE FALSE
    BY <1>0, <1>1
  <2>1. Over(r) \subseteq Over(x)
    BY <1>0, <1>1
  <2>2. Cardinality(Over(r)) <= Cardinality(Over(x))
    BY <1>1, <1>2, <2>1, FS_Subset
  <2> HIDE DEF L, Over
  <2>. QED
    BY <1>1, <1>2, <2>2
<1>. QED
  BY <1>1, <1>3, <1>4, <1>5, <1>6

-----------------------------------------------------------------------------
(* Records and times *)

\* The order of records is that of their times; a time has two numbers.
LEMMA TimeOfRecord ==
  ASSUME NEW r \in Nat
  PROVE  /\ At(r) \in Nat
         /\ r = 2 * At(r) \/ r = 2 * At(r) + 1
         /\ r % 2 \in {0, 1}
         /\ r = 2 * At(r) + (r % 2)
         /\ \A x \in Nat : /\ r <= x => At(r) <= At(x)
                           /\ At(r) < At(x) => r < x
         /\ \A t \in Nat : r \in {2 * t, 2 * t + 1} => At(r) = t
BY DEF At

\* The newest n of a set of records.
LEMMA NewestGives ==
  ASSUME NEW S \in SUBSET Numbers, NEW n \in Nat \ {0}
  PROVE  /\ Newest(S, n) \subseteq S
         /\ Cardinality(Newest(S, n)) <= n
         /\ Cardinality(Newest(S, n)) < n => Newest(S, n) = S
         /\ Cardinality(S) <= n => Newest(S, n) = S
         /\ \A r \in S \ Newest(S, n), x \in Newest(S, n) : r < x
<1> DEFINE key == [r \in S |-> r]
<1>1. S \subseteq Nat
  BY SubsetsAreFinite
<1>2. Newest(S, n) = Leading(S, n, key)
  BY DEF Newest, Leading
<1>3. /\ \A r \in S : key[r] \in Keys
      /\ \A r, x \in S : key[r] = key[x] => r = x
  BY Bounds DEF Numbers, Keys
<1>4. /\ Leading(S, n, key) \subseteq S
      /\ Cardinality(Leading(S, n, key)) <= n
      /\ Cardinality(Leading(S, n, key)) < n => Leading(S, n, key) = S
      /\ Cardinality(S) <= n => Leading(S, n, key) = S
      /\ \A r \in S \ Leading(S, n, key), x \in Leading(S, n, key) : key[r] < key[x]
  <2> HIDE DEF key
  <2>. QED
    BY <1>3, LeadingGives
<1>. QED
  BY <1>2, <1>4

\* The oldest n of it.
LEMMA OldestGives ==
  ASSUME NEW S \in SUBSET Numbers, NEW n \in Nat \ {0}
  PROVE  /\ Oldest(S, n) \subseteq S
         /\ Cardinality(Oldest(S, n)) <= n
         /\ Cardinality(Oldest(S, n)) < n => Oldest(S, n) = S
         /\ Cardinality(S) <= n => Oldest(S, n) = S
         /\ \A r \in S \ Oldest(S, n), x \in Oldest(S, n) : x < r
<1> DEFINE key == [r \in S |-> 0 - r]
<1>1. S \subseteq Nat
  BY SubsetsAreFinite
<1>2. Oldest(S, n) = Leading(S, n, key)
  <2>1. ASSUME NEW r \in S PROVE {x \in S : key[x] > key[r]} = {x \in S : x < r}
    <3>1. \A x \in S : key[x] > key[r] <=> x < r
      BY <1>1
    <3>. QED
      BY <3>1
  <2>. QED
    BY <2>1 DEF Oldest, Leading
<1>3. /\ \A r \in S : key[r] \in Keys
      /\ \A r, x \in S : key[r] = key[x] => r = x
  BY Bounds DEF Numbers, Keys
<1>4. /\ Leading(S, n, key) \subseteq S
      /\ Cardinality(Leading(S, n, key)) <= n
      /\ Cardinality(Leading(S, n, key)) < n => Leading(S, n, key) = S
      /\ Cardinality(S) <= n => Leading(S, n, key) = S
      /\ \A r \in S \ Leading(S, n, key), x \in Leading(S, n, key) : key[r] < key[x]
  <2> HIDE DEF key
  <2>. QED
    BY <1>3, LeadingGives
<1>5. \A r, x \in S : key[r] < key[x] => x < r
  BY <1>1
<1>. QED
  <2> HIDE DEF key
  <2>. QED
    BY <1>2, <1>4, <1>5

\* What out[-limit:] is, in whichever order records of one time stand.
LEMMA TailsGive ==
  ASSUME NEW all \in SUBSET Numbers, limit \in Nat \ {0}, NEW new \in Tails(all)
  PROVE  /\ new \subseteq all
         /\ Cardinality(new) <= limit
         /\ Cardinality(new) < limit => new = all
         /\ \A r \in all \ new, x \in new : At(r) <= At(x)
<1> DEFINE key == [r \in all |-> IF Ties THEN (2 * At(r) + 1) - (r % 2) ELSE r]
<1>1. all \subseteq Nat
  BY SubsetsAreFinite
<1>2. CASE new = Newest(all, limit)
  <2>1. /\ new \subseteq all
        /\ Cardinality(new) <= limit
        /\ Cardinality(new) < limit => new = all
        /\ \A r \in all \ new, x \in new : r < x
    BY <1>2, NewestGives
  <2>2. ASSUME NEW r \in all, NEW x \in all, r < x PROVE At(r) <= At(x)
    BY <1>1, <2>2, TimeOfRecord
  <2>. QED
    BY <2>1, <2>2
<1>3. CASE new = Leading(all, limit, key)
  <2>1. ASSUME NEW r \in all
        PROVE  /\ r \in Nat /\ At(r) \in Nat /\ r \in 0..(2 * MaxTime + 1) /\ MaxTime \in Nat
               /\ r = 2 * At(r) + (r % 2)
               /\ r % 2 \in {0, 1}
    BY <1>1, TimeOfRecord, Bounds DEF Numbers
  <2>2. \A r \in all : /\ key[r] \in Nat /\ key[r] \in Keys
                       /\ 2 * At(r) <= key[r] /\ key[r] <= 2 * At(r) + 1
    BY <2>1 DEF Keys
  <2>3. \A r, x \in all : key[r] = key[x] => r = x
    <3>1. ASSUME NEW r \in all
          PROVE  key[r] \in Nat /\ (key[r] = r \/ key[r] = (4 * At(r) + 1) - r)
      BY <2>1
    <3>2. (\A r \in all : key[r] = r) \/ (\A r \in all : key[r] = (4 * At(r) + 1) - r)
      BY <2>1
    <3>3. ASSUME NEW r \in all, NEW x \in all, key[r] = key[x] PROVE r = x
      <4> HIDE DEF key
      <4>1. /\ 2 * At(r) <= key[r] /\ key[r] <= 2 * At(r) + 1
            /\ 2 * At(x) <= key[x] /\ key[x] <= 2 * At(x) + 1
            /\ key[r] \in Nat /\ key[x] \in Nat
            /\ r \in Nat /\ x \in Nat /\ At(r) \in Nat /\ At(x) \in Nat
        BY <2>1, <2>2
      <4>2. At(r) = At(x)
        BY <3>3, <4>1
      <4>. QED
        BY <3>2, <3>3, <4>1, <4>2
    <3>. QED
      BY <3>3
  <2>4. /\ new \subseteq all
        /\ Cardinality(new) <= limit
        /\ Cardinality(new) < limit => new = all
        /\ \A r \in all \ new, x \in new : key[r] < key[x]
    <3> HIDE DEF key
    <3>. QED
      BY <1>3, <2>2, <2>3, LeadingGives
  <2>5. \A r \in all, x \in all : key[r] < key[x] => At(r) <= At(x)
    <3> HIDE DEF key
    <3>. QED
      BY <2>1, <2>2
  <2>. QED
    BY <2>4, <2>5
<1>4. Tails(all) = {Newest(all, limit), Leading(all, limit, key)}
  BY DEF Tails, Leading
<1>. QED
  BY <1>2, <1>3, <1>4

\* Where each of the times from a to b has a record, there are as many.
LEMMA DenseCount ==
  ASSUME NEW S \in SUBSET Numbers, NEW a \in Int, NEW b \in Int,
         \A t \in a..b : \E r \in S : At(r) = t
  PROVE  Cardinality(S) >= b - a + 1
<1> DEFINE T == {At(r) : r \in S}
           f == [r \in S |-> At(r)]
<1>1. IsFiniteSet(S) /\ Cardinality(S) \in Nat
  BY SubsetsAreFinite
<1>2. IsFiniteSet(T) /\ Cardinality(T) <= Cardinality(S) /\ Cardinality(T) \in Nat
  <2>1. f \in Surjection(S, T)
    BY DEF Surjection
  <2>. QED
    BY <1>1, <2>1, FS_Surjection, FS_CardinalityType
<1>3. a..b \in SUBSET T
  OBVIOUS
<1>4. Cardinality(a..b) <= Cardinality(T)
  <2> HIDE DEF T
  <2>. QED
    BY <1>2, <1>3, FS_Subset
<1>5. Cardinality(a..b) = IF a > b THEN 0 ELSE b - a + 1
  BY FS_Interval
<1>. QED
  <2> HIDE DEF T, f
  <2>. QED
    BY <1>1, <1>2, <1>4, <1>5

-----------------------------------------------------------------------------
(* The invariant *)

\* Records have the numbers of their times, and so have all that were taken
\* from them. What has come since the first request of a call was answered is
\* later than all there was.
RecordsFit ==
  /\ \A r \in records : r \in Nat /\ At(r) \in 2..now /\ (Ties \/ r % 2 = 0)
  /\ known \subseteq records
  /\ collected \subseteq records
  /\ view \subseteq records
  /\ \A r \in records \ known, x \in known : At(x) < At(r)

\* Which calls wait for which requests, and with what.
StagesFit ==
  /\ stage = "idle" => view = {}
  /\ stage = "single" =>
       /\ call \notin AlwaysWalk \cup {"kraken_candles"}
       /\ call \in WalksIfAsked \cup {"okx_candles"} =>
            /\ start = None \/ (start = 0 /\ call = "agg_trades")
            /\ limit <= PerRequest
       /\ call = "binance_funding" => start # None
  /\ stage = "recent" =>
       /\ call \in {"okx_candles", "binance_funding"}
       /\ call = "binance_funding" => start = None
       /\ currentEnd = None /\ seed = start /\ ~cut
  /\ stage \in {"single", "recent"} => collected = {} /\ requests = 0
  /\ stage = "walk" => call \in AlwaysWalk \cup WalksIfAsked \cup {"okx_candles"}
  /\ stage = "funding" => call = "binance_funding" /\ start = None
  /\ stage = "forward" => call = "kraken_candles"

\* The records a call may answer with, if no start means any.
Wanted(S) == {r \in S : Given(start) => At(r) <= start}

\* What the next request of a walk is anchored at.
Anchor == IF currentEnd # None THEN currentEnd ELSE seed

\* A walk has everything after its anchor that was there when it began.
WalkFits ==
  stage = "walk" =>
    /\ collected \subseteq Wanted(known)
    /\ collected = {} => requests = 0 /\ currentEnd = None /\ seed = start
    /\ collected # {} =>
         /\ Anchor \in 1..now
         /\ \A x \in collected : /\ Anchor <= At(x)
                                 /\ currentEnd = None => Anchor < At(x)
         /\ \A r \in Wanted(known) \ collected : At(r) <= Anchor

\* So has that of Binance's funding rates, unless a page was too small.
FundingFits ==
  stage = "funding" =>
    /\ collected # {}
    /\ collected \subseteq known
    /\ currentEnd \in Int
    /\ \A x \in collected : currentEnd < At(x)
    /\ cut \/ \A r \in known \ collected : At(r) <= currentEnd

\* And the one of Kraken, from its first time to the next one.
ForwardFits ==
  stage = "forward" =>
    /\ currentEnd \in Int
    /\ seed - limit <= currentEnd
    /\ currentEnd = seed - limit \/ currentEnd <= now + 1
    /\ IF Given(start) THEN seed = start ELSE seed \in Int /\ seed <= now + 1
    /\ \A x \in collected : seed - limit <= At(x)
    /\ \A r \in records \ collected :
         At(r) < seed - limit \/ currentEnd <= At(r)

\* A call for older records starts at the oldest one of the view, all of which
\* was there when it was first answered.
ViewFits ==
  stage \in {"single", "recent", "walk", "funding", "forward"} =>
    /\ view # {} => start = At(First(view))
    /\ known = {} \/ view \subseteq known

HistoryInv ==
  /\ TypeOK
  /\ RecordsFit
  /\ StagesFit
  /\ WalkFits
  /\ FundingFits
  /\ ForwardFits
  /\ ViewFits
  /\ NothingAfterStart
  /\ ResultIsNewest
  /\ ShortMeansAll
  /\ ViewHasNoGap

-----------------------------------------------------------------------------
(* Pages *)

\* What the types say of records and times.
LEMMA RecordsAreNumbers ==
  ASSUME TypeOK, RecordsFit
  PROVE  /\ now \in Nat /\ 1 <= now /\ now <= MaxTime
         /\ records \in SUBSET Numbers
         /\ \A r \in records : /\ r \in Nat /\ At(r) \in Nat
                               /\ 2 <= At(r) /\ At(r) <= now
<1>1. now \in Nat /\ 1 <= now /\ now <= MaxTime /\ MaxTime \in Nat
  BY Bounds DEF TypeOK
<1>2. ASSUME NEW r \in records
      PROVE  r \in Nat /\ At(r) \in Nat /\ 2 <= At(r) /\ At(r) <= now
  <2>1. r \in Nat /\ At(r) \in 2..now
    BY DEF RecordsFit
  <2>. QED
    BY <1>1, <2>1
<1>3. ASSUME NEW r \in records PROVE r \in Numbers
  <2>1. r <= 2 * At(r) + 1
    BY <1>2, TimeOfRecord
  <2>. QED
    BY <1>1, <1>2, <2>1 DEF Numbers
<1>. QED
  BY <1>1, <1>2, <1>3

\* These ask for a window of time.
Windows ==
  {"kucoin_spot", "kucoin_funding", "hyperliquid_candles",
   "hyperliquid_funding"}

\* Of a window of n intervals, what is in the n newest of its times fits in a page.
LEMMA SpanHasWindow ==
  ASSUME TypeOK, RecordsFit, ~Ties, NEW e \in Int,
         NEW n \in Nat \ {0}, n <= PerRequest,
         NEW r \in records, (e + 1) - n <= At(r), At(r) <= e
  PROVE  r \in Newest(Between(e - n, e), PerRequest)
<1> DEFINE S == Between(e - n, e)
           Over == {x \in S : x > r}
           f == [x \in Over |-> At(x)]
           times == (At(r) + 1)..e
<1>1. ASSUME NEW x \in records
      PROVE  x \in Nat /\ At(x) \in Nat /\ x = 2 * At(x)
  <2>1. x \in Nat /\ x % 2 = 0
    BY DEF RecordsFit
  <2>2. At(x) \in Nat /\ x = 2 * At(x) + (x % 2)
    BY <2>1, TimeOfRecord
  <2>. QED
    BY <2>1, <2>2
<1>2. r \in S
  BY <1>1 DEF Between
<1>3. \A x \in Over : x \in records /\ At(x) <= e
  BY DEF Between
<1>4. \A x \in Over : At(x) \in times
  BY <1>1, <1>3
<1>5. \A x, y \in Over : f[x] = f[y] => x = y
  <2>1. \A x, y \in Over : At(x) = At(y) => x = y
    <3> HIDE DEF Over
    <3>. QED
      BY <1>1, <1>3
  <2>. QED
    BY <2>1
<1>6. f \in Injection(Over, times)
  <2>1. f \in [Over -> times]
    <3> HIDE DEF Over, times
    <3>. QED
      BY <1>4
  <2> HIDE DEF f, Over, times
  <2>. QED
    BY <1>5, <2>1 DEF Injection, IsInjective
<1>7. IsFiniteSet(times) /\ Cardinality(times) = e - At(r)
  <2>1. /\ At(r) + 1 \in Int /\ (e - (At(r) + 1)) + 1 = e - At(r)
        /\ At(r) + 1 > e => e - At(r) = 0
    BY <1>1
  <2>. QED
    BY <2>1, FS_Interval
<1>8. Cardinality(Over) <= Cardinality(times) /\ Cardinality(Over) \in Nat
  <2> HIDE DEF f, Over, times
  <2>. QED
    BY <1>6, <1>7, FS_Injection, FS_CardinalityType
<1>9. Cardinality(Over) < PerRequest
  <2> HIDE DEF Over, times
  <2>. QED
    BY <1>1, <1>7, <1>8, Bounds
<1> HIDE DEF S
<1>. QED
  BY <1>2, <1>9 DEF Newest, S

\* What a page has: records up to the anchor, without a gap; everything, if it
\* is not full; everything in its window.
LEMMA PageGives ==
  ASSUME TypeOK, RecordsFit,
         NEW a, a = None \/ (a \in Int /\ a >= 0),
         NEW n \in Nat \ {0}, n <= PerRequest
  PROVE  /\ Page(a, n) \subseteq records
         /\ Given(a) => \A p \in Page(a, n) : At(p) <= a
         /\ \A r \in records \ Page(a, n) :
              (Given(a) => At(r) <= a) => \A p \in Page(a, n) : At(r) <= At(p)
         /\ call \notin Windows /\ Cardinality(Page(a, n)) < n =>
              \A r \in records : (Given(a) => At(r) <= a) => r \in Page(a, n)
         /\ call \in Windows =>
              \A r \in records :
                 /\ a # None => At(r) <= a
                 /\ (IF a = None THEN now ELSE a) + 1 - n <= At(r)
                 => r \in Page(a, n)
<1> DEFINE page == Page(a, n)
<1>0. /\ now \in Nat
      /\ records \in SUBSET Numbers
      /\ \A r \in records : /\ r \in Nat /\ At(r) \in Nat
                            /\ 2 <= At(r) /\ At(r) <= now
      /\ PerRequest \in Nat /\ PerRequest > 2
      /\ None \notin Int
  BY RecordsAreNumbers, Bounds
<1>1. CASE call \notin Windows
  <2> DEFINE reach == IF Given(a) THEN UpTo(a) ELSE records
  <2>1. ASSUME Given(a) PROVE UpTo((a + 1) - 1) = UpTo(a)
    <3>1. a \in Int /\ (a + 1) - 1 = a
      BY <1>0, <2>1 DEF Given
    <3>. QED
      BY <3>1
  <2>2. page = Newest(reach, n) \/ page = Newest(reach, PerRequest)
    BY <1>1, <2>1 DEF Page, Windows, AfterPage, ToPage, EndPage
  <2>3. /\ reach \subseteq records
        /\ \A r \in records : r \in reach <=> (Given(a) => At(r) <= a)
    BY <1>0 DEF UpTo, Between, Given
  <2>4. PICK m \in {n, PerRequest} : page = Newest(reach, m)
    BY <2>2
  <2>5. m \in Nat \ {0} /\ n <= m
    BY <1>0
  <2>6. /\ page \subseteq reach
        /\ Cardinality(page) < m => page = reach
        /\ \A r \in reach \ page, x \in page : r < x
    <3> HIDE DEF reach, page
    <3>1. reach \in SUBSET Numbers
      BY <1>0, <2>3
    <3>. QED
      BY <2>4, <2>5, <3>1, NewestGives
  <2>7. \A r \in records, x \in records : r < x => At(r) <= At(x)
    BY <1>0, TimeOfRecord
  <2>8. Cardinality(page) < n => page = reach
    <3>1. Cardinality(page) \in Nat
      <4> HIDE DEF reach, page
      <4>1. page \in SUBSET Numbers
        BY <1>0, <2>3, <2>6
      <4>. QED
        BY <4>1, SubsetsAreFinite
    <3> HIDE DEF reach, page
    <3>. QED
      BY <2>5, <2>6, <3>1
  <2> HIDE DEF reach
  <2>. QED
    BY <1>1, <2>3, <2>6, <2>7, <2>8
<1>2. CASE call = "kucoin_spot"
  <2>1. page = WindowPage(a, n)
    BY <1>2 DEF Page
  <2>2. page = Between(((IF a # None THEN a ELSE now) + 1) - n,
                       ((IF a # None THEN a ELSE now) + 1) - 1)
    BY <2>1 DEF WindowPage
  <2>. QED
    BY <1>0, <1>2, <2>2 DEF Between, Given, Windows
<1>3. CASE call = "kucoin_funding"
  <2>1. page = FundingWindowPage(a)
    BY <1>3 DEF Page
  <2>2. page = Between(((IF Given(a) THEN a ELSE now) + 1) - PerRequest,
                       ((IF Given(a) THEN a ELSE now) + 1) - 1)
    BY <2>1 DEF FundingWindowPage
  <2>. QED
    BY <1>0, <1>3, <2>2 DEF Between, Given, Windows
<1>4. CASE call \in {"hyperliquid_candles", "hyperliquid_funding"}
  <2>1. PICK e \in {a, now} :
          /\ page = Newest(Between(e - n, e), PerRequest)
          /\ a = None => e = now
          /\ a # None => e = a \/ (e = now /\ a > now)
    BY <1>4 DEF Page, SpanPage
  <2>2. e \in Int /\ (a # None => e <= a) /\ PerRequest \in Nat \ {0}
    BY <1>0, <2>1
  <2>3. /\ Between(e - n, e) \in SUBSET Numbers
        /\ \A r \in records : r \in Between(e - n, e) <=> e - n <= At(r) /\ At(r) <= e
        /\ Between(e - n, e) \subseteq records
    BY <1>0 DEF Between
  <2>4. /\ page \subseteq Between(e - n, e)
        /\ \A r \in Between(e - n, e) \ page, p \in page : r < p
    <3> DEFINE span == Between(e - n, e)
    <3>1. page = Newest(span, PerRequest) /\ span \in SUBSET Numbers
      BY <2>1, <2>3
    <3> HIDE DEF span, page
    <3>2. page \subseteq span /\ \A r \in span \ page, p \in page : r < p
      BY <2>2, <3>1, NewestGives
    <3>. QED
      BY <3>2 DEF span
  <2>5. \A r \in records : (e + 1) - n <= At(r) /\ At(r) <= e => r \in page
    BY <1>4, <2>1, <2>2, SpanHasWindow DEF Ties
  <2> HIDE DEF page
  <2>6. \A p \in page : p \in records /\ e - n <= At(p) /\ At(p) <= e
    BY <2>3, <2>4
  <2>7. ASSUME NEW r \in records \ page, NEW p \in page, Given(a) => At(r) <= a
        PROVE  At(r) <= At(p)
    <3>1. /\ At(r) \in Nat /\ At(p) \in Nat /\ p \in records /\ At(r) <= now
          /\ e - n <= At(p) /\ r \in Nat /\ p \in Nat /\ At(p) <= e
      BY <1>0, <2>6
    <3>2. CASE At(r) <= e
      <4>1. CASE At(r) < e - n
        BY <2>2, <3>1, <4>1
      <4>2. CASE ~(At(r) < e - n)
        <5>1. r < p
          BY <2>2, <2>3, <2>4, <3>1, <3>2, <4>2
        <5>. QED
          BY <3>1, <5>1, TimeOfRecord
      <4>. QED
        BY <4>1, <4>2
    <3>3. CASE ~(At(r) <= e)
      BY <1>0, <2>1, <2>6, <2>7, <3>1, <3>3 DEF Given
    <3>. QED
      BY <3>2, <3>3
  <2>8. call \in Windows
    BY <1>4 DEF Windows
  <2>9. Given(a) => \A p \in page : At(p) <= a
    BY <1>0, <2>1, <2>2, <2>6 DEF Given
  <2>10. \A r \in records :
            /\ a # None => At(r) <= a
            /\ (IF a = None THEN now ELSE a) + 1 - n <= At(r)
            => r \in page
    BY <1>0, <2>1, <2>2, <2>5
  <2>. QED
    BY <2>6, <2>7, <2>8, <2>9, <2>10 DEF page
<1>. QED
  BY <1>1, <1>2, <1>3, <1>4 DEF Windows

-----------------------------------------------------------------------------
(* An answer *)

\* None of S is missing in C and newer than one that is there.
NoGap(S, C) == \A r \in S \ C, x \in C : At(r) <= At(x)

\* The last time a call asks for.
LastTime == IF start = None THEN now ELSE start

\* The oldest of some records.
LEMMA FirstGives ==
  ASSUME NEW S \in SUBSET Numbers, S # {}
  PROVE  First(S) \in S /\ \A x \in S : First(S) <= x /\ At(First(S)) <= At(x)
<1>1. S \subseteq Nat
  BY SubsetsAreFinite
<1>2. \E m \in S : \A x \in S : m <= x
  <2>1. S \subseteq Int /\ \A x \in S : 0 <= x
    BY <1>1
  <2>. QED
    BY <2>1, 0 \in Int, Least
<1>3. First(S) \in S /\ \A x \in S : First(S) <= x
  BY <1>2 DEF First
<1>. QED
  BY <1>1, <1>3, TimeOfRecord

\* A call that ends with the newest of all is right, and its view has no gap,
\* if none of the records it is about is missing in all and newer than one of
\* all.
LEMMA FinishGives ==
  ASSUME HistoryInv, NEW all \in SUBSET records, Finish(all),
         UNCHANGED <<call, now, records, start, limit, seed, currentEnd,
                     cadence, requests>>,
         cut' \in BOOLEAN,
         known' \in {known, records},
         all \subseteq known' \/ call = "kraken_candles",
         \A x \in all : Given(start) => At(x) <= start,
         MayMissNewest' \/ NoGap(Wanted(known'), all),
         /\ ~cut'
         /\ call # "kraken_spot"
         /\ Cardinality(all) < limit
         /\ Windowed => Dense(LastTime)'
         => Asked' \subseteq all,
         view # {} => start = At(First(view)),
         call = "kraken_candles" \/ all = {} \/ view \subseteq known'
  PROVE  HistoryInv'
<1>0. /\ TypeOK /\ RecordsFit /\ ViewHasNoGap
      /\ now \in Nat /\ 1 <= now /\ now <= MaxTime
      /\ records \in SUBSET Numbers
      /\ \A r \in records : /\ r \in Nat /\ At(r) \in Nat
                            /\ 2 <= At(r) /\ At(r) <= now
      /\ known \subseteq records /\ view \subseteq records
      /\ limit \in Nat \ {0}
      /\ MaxTime \in Nat
      /\ None \notin Int
  BY RecordsAreNumbers, Bounds DEF HistoryInv, TypeOK, RecordsFit
<1>1. /\ stage' = "done"
      /\ view' = view \cup collected'
      /\ collected' \in Tails(all)
  BY DEF Finish
<1>2. /\ collected' \subseteq all
      /\ Cardinality(collected') <= limit
      /\ Cardinality(collected') < limit => collected' = all
      /\ \A r \in all \ collected', x \in collected' : At(r) <= At(x)
  <2>1. all \in SUBSET Numbers
    BY <1>0
  <2>. QED
    BY <1>0, <1>1, <2>1, TailsGive
<1>3. /\ \A r \in records \ known', x \in known' : At(x) < At(r)
      /\ known' \subseteq records
  <2>1. CASE known' = known
    BY <1>0, <2>1 DEF RecordsFit
  <2>2. CASE known' = records
    BY <2>2
  <2>. QED
    BY <2>1, <2>2
<1>4. RecordsFit'
  BY <1>0, <1>1, <1>2, <1>3 DEF RecordsFit, Ties
<1>5. TypeOK'
  <2>1. \A S \in {records', collected', known', view'} :
           \A r \in S : At(r) \in 1..MaxTime
    <3>1. records' = records /\ collected' \subseteq records
          /\ known' \subseteq records /\ view' \subseteq records
      BY <1>0, <1>1, <1>2, <1>3
    <3>2. \A r \in records : At(r) \in 1..MaxTime
      BY <1>0
    <3>. QED
      BY <3>1, <3>2
  <2>. QED
    BY <1>0, <1>1, <1>2, <2>1 DEF TypeOK
<1>6. StagesFit' /\ WalkFits' /\ FundingFits' /\ ForwardFits' /\ ViewFits'
  BY <1>1 DEF StagesFit, WalkFits, FundingFits, ForwardFits, ViewFits
<1>7. NothingAfterStart'
  BY <1>1, <1>2 DEF NothingAfterStart, Given
<1>8. ResultIsNewest'
  <2> SUFFICES ASSUME ~MayMissNewest', NEW r \in Asked' \ collected', NEW x \in collected'
               PROVE  At(r) <= At(x)
    BY DEF ResultIsNewest
  <2>1. r \in Wanted(known')
    BY DEF Asked, Wanted, Given
  <2>2. CASE r \in all
    BY <1>2, <2>2
  <2>3. CASE r \notin all
    BY <1>2, <2>1, <2>3 DEF NoGap
  <2>. QED
    BY <2>2, <2>3
<1>9. ShortMeansAll'
  <2> SUFFICES ASSUME ~cut', call # "kraken_spot",
                      Cardinality(collected') < limit,
                      Windowed => Dense(LastTime)'
               PROVE  Asked' \subseteq collected'
    BY DEF ShortMeansAll, LastTime, Windowed, Dense
  <2>. QED
    BY <1>2
<1>10. ViewHasNoGap'
  <2> SUFFICES ASSUME call \notin {"binance_funding", "kraken_candles"},
                      NEW r \in records, r \notin view, r \notin collected'
               PROVE  \/ \A x \in view \cup collected' : At(r) <= At(x)
                      \/ \A x \in view \cup collected' : At(r) >= At(x)
    BY <1>1 DEF ViewHasNoGap
  <2>1. NoGap(Wanted(known'), all) /\ all \subseteq known'
    BY DEF MayMissNewest
  <2>2. r \in Wanted(known') => \A x \in collected' : At(r) <= At(x)
    BY <1>2, <2>1 DEF NoGap
  <2>3. CASE all = {}
    BY <1>0, <1>2, <2>3 DEF ViewHasNoGap
  <2>4. CASE view = {}
    <3>1. CASE r \notin known'
      BY <1>0, <1>2, <1>3, <2>1, <2>4, <3>1
    <3>2. CASE r \in known' /\ r \notin Wanted(known')
      <4>1. Given(start) /\ ~(At(r) <= start) /\ start \in Int
        BY <1>0, <3>2 DEF Wanted, Given, TypeOK, Starts
      <4>2. \A x \in collected' : At(x) <= start /\ At(x) \in Nat
        BY <1>0, <1>2, <4>1
      <4>. QED
        BY <1>0, <2>4, <4>1, <4>2
    <3>. QED
      BY <2>2, <2>4, <3>1, <3>2
  <2>5. CASE view # {} /\ all # {}
    <3> DEFINE f == First(view)
    <3>1. f \in view /\ f \in records /\ At(f) \in Nat /\ start = At(f) /\ 2 <= At(f)
          /\ \A x \in view : At(f) <= At(x)
      <4>1. view \in SUBSET Numbers
        BY <1>0
      <4>. QED
        BY <1>0, <2>5, <4>1, FirstGives
    <3> HIDE DEF f
    <3>2. Given(start)
      BY <1>0, <3>1 DEF Given
    <3>3. \A x \in collected' : At(x) <= At(f) /\ At(x) \in Nat
      BY <1>0, <1>2, <3>1, <3>2
    <3>4. CASE \A x \in view : At(r) <= At(x)
      <4>1. At(r) <= At(f)
        BY <3>1, <3>4
      <4>2. r \in known'
        BY <1>0, <1>3, <2>5, <3>1, <4>1
      <4>3. r \in Wanted(known')
        BY <3>1, <4>1, <4>2 DEF Wanted
      <4>. QED
        BY <2>2, <3>4, <4>3
    <3>5. CASE \A x \in view : At(r) >= At(x)
      BY <1>0, <3>1, <3>3, <3>5
    <3>. QED
      BY <1>0, <3>4, <3>5 DEF ViewHasNoGap
  <2>. QED
    BY <2>3, <2>4, <2>5
<1>. QED
  BY <1>4, <1>5, <1>6, <1>7, <1>8, <1>9, <1>10 DEF HistoryInv

-----------------------------------------------------------------------------
(* What happens between requests *)

\* Records that arrive are later than all others.
LEMMA RecordsArrive ==
  HistoryInv /\ Arrives => HistoryInv'
<1> SUFFICES ASSUME HistoryInv, Arrives PROVE HistoryInv'
  OBVIOUS
<1>0. /\ TypeOK /\ RecordsFit
      /\ now \in Nat /\ 1 <= now /\ now <= MaxTime
      /\ records \in SUBSET Numbers
      /\ \A r \in records : /\ r \in Nat /\ At(r) \in Nat
                            /\ 2 <= At(r) /\ At(r) <= now
      /\ MaxTime \in Nat /\ Past \in Nat
  BY RecordsAreNumbers, Bounds DEF HistoryInv
<1>1. PICK new \in SUBSET RecordsAt(now + 1) : records' = records \cup new
  BY DEF Arrives
<1>2. \A r \in new : r \in Nat /\ At(r) = now + 1 /\ (Ties \/ r % 2 = 0)
  <2> SUFFICES ASSUME NEW r \in new
               PROVE  r \in Nat /\ At(r) = now + 1 /\ (Ties \/ r % 2 = 0)
    OBVIOUS
  <2>1. /\ r \in {2 * (now + 1), 2 * (now + 1) + 1}
        /\ Ties \/ r = 2 * (now + 1)
    BY <1>1 DEF RecordsAt
  <2>2. r \in Nat
    BY <1>0, <2>1
  <2>3. now + 1 \in Nat
    BY <1>0
  <2>4. At(r) = now + 1
    BY <2>1, <2>2, <2>3, TimeOfRecord
  <2>5. Ties \/ r % 2 = 0
    BY <2>1, <2>3
  <2>. QED
    BY <2>2, <2>4, <2>5
<1>3. /\ now' = now + 1 /\ now' <= MaxTime
      /\ UNCHANGED <<call, view, start, limit, stage, seed, currentEnd,
                     cadence, requests, collected, cut, known>>
  BY <1>0 DEF Arrives, callVars
<1>4. RecordsFit'
  <2>1. \A r \in records' : r \in Nat /\ At(r) \in 2..now' /\ (Ties \/ r % 2 = 0)
    BY <1>0, <1>1, <1>2, <1>3 DEF RecordsFit
  <2>2. \A r \in records' \ known, x \in known : At(x) < At(r)
    BY <1>0, <1>1, <1>2 DEF RecordsFit
  <2>3. /\ known \subseteq records' /\ collected \subseteq records'
        /\ view \subseteq records'
    BY <1>0, <1>1 DEF RecordsFit
  <2>. QED
    BY <1>3, <2>1, <2>2, <2>3 DEF RecordsFit, Ties
<1>5. TypeOK'
  <2>1. \A r \in records' : At(r) \in 1..MaxTime
    BY <1>0, <1>1, <1>2, <1>3
  <2>2. now' \in Past..MaxTime
    BY <1>0, <1>3 DEF TypeOK
  <2>. QED
    BY <1>0, <1>3, <2>1, <2>2 DEF TypeOK
<1>6. StagesFit' /\ FundingFits' /\ ViewFits'
  BY <1>3 DEF HistoryInv, StagesFit, FundingFits, ViewFits
<1>7. WalkFits'
  <2>1. /\ Anchor' = Anchor /\ Wanted(known)' = Wanted(known)
        /\ \A i \in 1..now : i \in 1..now'
    BY <1>0, <1>3 DEF Anchor, Wanted, Given
  <2>. QED
    BY <1>3, <2>1 DEF HistoryInv, WalkFits
<1>8. ForwardFits'
  <2> SUFFICES ASSUME stage = "forward" PROVE ForwardFits'
    BY <1>3 DEF ForwardFits
  <2>1. /\ ForwardFits
        /\ limit \in Nat
        /\ seed \in Int
        /\ currentEnd \in Int
    BY Bounds DEF HistoryInv, TypeOK, ForwardFits, Given, Starts
  <2>2. \A r \in records' \ collected :
           At(r) < seed - limit \/ currentEnd <= At(r)
    BY <1>0, <1>1, <1>2, <2>1 DEF ForwardFits
  <2>. QED
    BY <1>0, <1>3, <2>1, <2>2 DEF ForwardFits, Given
<1>9. NothingAfterStart' /\ ResultIsNewest'
  BY <1>3 DEF HistoryInv, NothingAfterStart, ResultIsNewest, MayMissNewest,
              Asked, Given
<1>10. ShortMeansAll'
  <2>1. Dense(now + 1) => Dense(now)
    BY <1>0 DEF Dense
  <2>2. Dense(IF start = None THEN now ELSE start)'
          => Dense(IF start = None THEN now ELSE start)
    <3>1. CASE start = None
      BY <1>3, <2>1, <3>1 DEF Dense
    <3>2. CASE start # None
      BY <1>3, <3>2 DEF Dense
    <3>. QED
      BY <3>1, <3>2
  <2>3. Asked' = Asked /\ (Windowed' <=> Windowed)
    BY <1>3 DEF Asked, Windowed
  <2>. QED
    BY <1>3, <2>2, <2>3 DEF HistoryInv, ShortMeansAll
<1>11. ViewHasNoGap'
  <2>1. \A r \in new, x \in view : At(r) >= At(x)
    BY <1>0, <1>2 DEF RecordsFit
  <2>. QED
    BY <1>1, <1>3, <2>1 DEF HistoryInv, ViewHasNoGap
<1>. QED
  BY <1>4, <1>5, <1>6, <1>7, <1>8, <1>9, <1>10, <1>11 DEF HistoryInv

\* A call begins with nothing.
LEMMA CallBegins ==
  ASSUME HistoryInv, NEW s \in Starts, Begins(s, limit),
         view # {} => s = At(First(view))
  PROVE  HistoryInv'
<1>0. /\ TypeOK /\ RecordsFit
      /\ now \in Nat /\ 1 <= now /\ now <= MaxTime
      /\ limit \in Nat \ {0} /\ limit \in Limits
      /\ MaxTime \in Nat /\ MaxTime > 0 /\ MaxRequests \in Nat /\ MaxRequests > 0
      /\ None \notin Int
  BY RecordsAreNumbers, Bounds DEF HistoryInv, TypeOK
<1>1. /\ start' = s /\ limit' = limit /\ stage' = FirstStage(s, limit)
      /\ currentEnd' = IF call = "kraken_candles" THEN KrakenAnchor(s) - limit
                       ELSE None
      /\ seed' = IF call = "kraken_candles" THEN KrakenAnchor(s) ELSE s
      /\ cadence' = 1 /\ requests' = 0 /\ collected' = {} /\ cut' = FALSE
      /\ known' = {}
      /\ UNCHANGED <<call, now, records, view>>
  BY DEF Begins
<1>2. KrakenAnchor(s) \in Times
  BY <1>0 DEF KrakenAnchor, Given, Starts, Times
<1>3. FirstStage(s, limit) \in {"single", "recent", "walk", "forward"}
  BY DEF FirstStage
<1>4. RecordsFit'
  BY <1>0, <1>1 DEF RecordsFit, Ties
<1>5. TypeOK'
  <2>1. \A r \in records \cup view : At(r) \in 1..MaxTime
    BY <1>0 DEF TypeOK
  <2>2. seed' \in {None} \cup Times
    BY <1>0, <1>1, <1>2 DEF Times, Starts
  <2>3. currentEnd' = None \/ currentEnd' \in Int
    BY <1>0, <1>1, <1>2 DEF Times
  <2>4. cadence' \in 1..MaxTime /\ requests' \in 0..(MaxRequests - 1)
    BY <1>0, <1>1
  <2>. QED
    BY <1>0, <1>1, <1>3, <2>1, <2>2, <2>3, <2>4 DEF TypeOK
<1>6. StagesFit'
  <2> DEFINE first == FirstStage(s, limit)
  <2>1. first = "single" =>
          /\ call \notin AlwaysWalk \cup {"kraken_candles"}
          /\ call \in WalksIfAsked \cup {"okx_candles"} =>
               /\ s = None \/ (s = 0 /\ call = "agg_trades")
               /\ ~(limit > PerRequest)
          /\ call = "binance_funding" => s # None
    BY DEF FirstStage, AlwaysWalk, WalksIfAsked, Given
  <2>2. first = "recent" =>
          /\ call \in {"okx_candles", "binance_funding"}
          /\ call = "binance_funding" => s = None
    BY DEF FirstStage, AlwaysWalk, WalksIfAsked
  <2>3. first = "walk" => call \in AlwaysWalk \cup WalksIfAsked \cup {"okx_candles"}
    BY DEF FirstStage, AlwaysWalk, WalksIfAsked
  <2>4. first = "forward" => call = "kraken_candles"
    BY DEF FirstStage, AlwaysWalk, WalksIfAsked
  <2>5. ~(limit > PerRequest) => limit <= PerRequest
    BY <1>0, Bounds
  <2>6. stage' = first /\ first \in {"single", "recent", "walk", "forward"}
    BY <1>1, <1>3
  <2> HIDE DEF first
  <2>. QED
    BY <1>1, <2>1, <2>2, <2>3, <2>4, <2>5, <2>6 DEF StagesFit
<1>7. WalkFits'
  <2>1. stage' = "walk" => call # "kraken_candles"
    BY <1>1 DEF FirstStage, AlwaysWalk, WalksIfAsked
  <2>. QED
    BY <1>1, <2>1 DEF WalkFits
<1>8. FundingFits' /\ ViewFits'
  BY <1>1, <1>3 DEF FundingFits, ViewFits
<1>9. ForwardFits'
  <2> SUFFICES ASSUME stage' = "forward" PROVE ForwardFits'
    BY DEF ForwardFits
  <2>1. call = "kraken_candles"
    BY <1>1 DEF FirstStage
  <2>2. /\ KrakenAnchor(s) \in Int
        /\ IF Given(s) THEN KrakenAnchor(s) = s ELSE KrakenAnchor(s) = now + 1
    BY <1>0, <1>2 DEF KrakenAnchor, Times
  <2>3. \A r \in records : At(r) \in Int
    BY <1>0, RecordsAreNumbers
  <2>. QED
    BY <1>0, <1>1, <2>1, <2>2, <2>3 DEF ForwardFits, Given
<1>10. NothingAfterStart' /\ ResultIsNewest' /\ ShortMeansAll'
  BY <1>1, <1>3 DEF NothingAfterStart, ResultIsNewest, ShortMeansAll
<1>11. ViewHasNoGap'
  BY <1>1 DEF HistoryInv, ViewHasNoGap
<1>. QED
  BY <1>4, <1>5, <1>6, <1>7, <1>8, <1>9, <1>10, <1>11 DEF HistoryInv

\* The first one has any start, each other the oldest record of the view.
LEMMA ClientAsks ==
  HistoryInv /\ (Asks \/ AsksOlder) => HistoryInv'
<1>1. ASSUME HistoryInv, Asks PROVE HistoryInv'
  <2>1. PICK s \in Starts : Begins(s, limit)
    BY <1>1 DEF Asks
  <2>2. view = {}
    BY <1>1 DEF HistoryInv, StagesFit, Asks
  <2>. QED
    BY <1>1, <2>1, <2>2, CallBegins
<1>2. ASSUME HistoryInv, AsksOlder PROVE HistoryInv'
  <2> DEFINE s == IF view = {} THEN start ELSE At(First(view))
  <2>1. Begins(s, limit)
    BY <1>2 DEF AsksOlder
  <2>2. s \in Starts
    <3>1. /\ view \in SUBSET Numbers
          /\ \A r \in view : At(r) \in 0..MaxTime
      BY <1>2, RecordsAreNumbers, Bounds DEF HistoryInv, RecordsFit
    <3>2. CASE view # {}
      BY <3>1, <3>2, FirstGives DEF Starts
    <3>3. CASE view = {}
      BY <1>2, <3>3 DEF HistoryInv, TypeOK
    <3>. QED
      BY <3>2, <3>3
  <2>3. view # {} => s = At(First(view))
    OBVIOUS
  <2> HIDE DEF s
  <2>. QED
    BY <1>2, <2>1, <2>2, <2>3, CallBegins
<1>. QED
  BY <1>1, <1>2

-----------------------------------------------------------------------------
(* Calls that make one request *)

\* There is a record for each time the call asks for.
NoneMissing == \A t \in 2..LastTime : \E r \in records : At(r) = t

\* What holds of the types, for the steps below.
LEMMA Typing ==
  ASSUME HistoryInv
  PROVE  /\ TypeOK /\ RecordsFit
         /\ now \in Nat /\ 1 <= now /\ now <= MaxTime
         /\ records \in SUBSET Numbers
         /\ \A r \in records : /\ r \in Nat /\ At(r) \in Nat
                               /\ 2 <= At(r) /\ At(r) <= now
         /\ known \subseteq records /\ collected \subseteq records
         /\ view \subseteq records
         /\ limit \in Nat \ {0}
         /\ start = None \/ start \in Nat
         /\ LastTime \in Nat
         /\ PerRequest \in Nat /\ PerRequest > 2
         /\ None \notin Int
         /\ PageSize \in Nat \ {0} /\ PageSize <= limit /\ PageSize <= PerRequest
<1>1. /\ TypeOK /\ RecordsFit
      /\ PerRequest \in Nat /\ PerRequest > 2
      /\ None \notin Int
      /\ MaxTime \in Nat
  BY Bounds DEF HistoryInv
<1>2. limit \in Nat \ {0} /\ (start = None \/ start \in Nat)
  BY <1>1, Bounds DEF TypeOK, Starts
<1>3. now \in Nat
  BY <1>1, RecordsAreNumbers
<1>4. LastTime \in Nat
  BY <1>2, <1>3 DEF LastTime
<1>5. PageSize \in Nat \ {0} /\ PageSize <= limit /\ PageSize <= PerRequest
  BY <1>1, <1>2 DEF PageSize
<1>. QED
  BY <1>1, <1>2, <1>3, <1>4, <1>5, RecordsAreNumbers DEF RecordsFit

\* A short answer that has a window of limit times has all, as none before the
\* window could be missing without one for each time in it.
LEMMA WindowHasAll ==
  ASSUME HistoryInv, NEW all \in SUBSET records, NEW lo \in Int,
         lo <= LastTime + 1 - limit,
         \A r \in records : lo <= At(r) /\ At(r) <= LastTime => r \in all,
         NoneMissing,
         Cardinality(all) < limit
  PROVE  \A r \in records : At(r) <= LastTime => r \in all
<1> SUFFICES ASSUME NEW r \in records, At(r) <= LastTime, r \notin all
             PROVE  FALSE
  OBVIOUS
<1>1. /\ all \in SUBSET Numbers
      /\ At(r) \in Nat /\ 2 <= At(r)
      /\ LastTime \in Nat /\ limit \in Nat
  BY Typing
<1>2. 2 <= lo
  BY <1>1
<1>3. \A t \in lo..LastTime : \E x \in all : At(x) = t
  <2> SUFFICES ASSUME NEW t \in lo..LastTime PROVE \E x \in all : At(x) = t
    OBVIOUS
  <2>1. t \in 2..LastTime
    BY <1>1, <1>2
  <2>. QED
    BY <2>1 DEF NoneMissing
<1>4. Cardinality(all) >= LastTime - lo + 1
  BY <1>1, <1>3, DenseCount
<1>5. Cardinality(all) \in Nat
  BY <1>1, SubsetsAreFinite
<1>. QED
  BY <1>1, <1>4, <1>5

\* What Kraken sends of the records after start is dropped.
LEMMA NotAfterStartGives ==
  ASSUME NEW S
  PROVE  /\ NotAfterStart(S) \subseteq S
         /\ call \in {"kraken_spot", "kraken_candles", "kraken_funding",
                      "kraken_metrics"} => NotAfterStart(S) = Wanted(S)
         /\ call \notin {"kraken_spot", "kraken_candles", "kraken_funding",
                         "kraken_metrics"} => NotAfterStart(S) = S
BY DEF NotAfterStart, Wanted

\* Answers that may lack newer records than they have.
Overflows ==
  /\ call = "binance_funding"
  /\ \/ limit > PerRequest
     \/ Cardinality(Between(start - PageSize, start)) > PageSize

\* The page of such a call has no gap, but for Binance's windows that overflow,
\* and all there is if it is short.
LEMMA SinglePageGives ==
  ASSUME HistoryInv, stage = "single", NEW page \in SinglePages
  PROVE  /\ NotAfterStart(page) \subseteq Wanted(records)
         /\ Overflows \/ NoGap(Wanted(records), NotAfterStart(page))
         /\ /\ ~Overflows
            /\ call # "kraken_spot"
            /\ Cardinality(NotAfterStart(page)) < limit
            /\ Windowed => NoneMissing
            => \A r \in records :
                 start = None \/ At(r) <= start => r \in NotAfterStart(page)
<1> DEFINE all == NotAfterStart(page)
<1>0. /\ TypeOK /\ RecordsFit
      /\ now \in Nat /\ 1 <= now
      /\ records \in SUBSET Numbers
      /\ \A r \in records : /\ r \in Nat /\ At(r) \in Nat
                            /\ 2 <= At(r) /\ At(r) <= now
      /\ limit \in Nat \ {0}
      /\ start = None \/ start \in Nat
      /\ PerRequest \in Nat /\ PerRequest > 2
      /\ None \notin Int
      /\ PageSize \in Nat \ {0} /\ PageSize <= limit /\ PageSize <= PerRequest
  BY Typing
<1>1. CASE call = "binance_funding"
  <2> DEFINE window == Between(start - PageSize, start)
  <2>1. start \in Nat
    BY <1>0, <1>1 DEF HistoryInv, StagesFit
  <2>2. /\ window \in SUBSET Numbers
        /\ \A r \in records : r \in window <=>
             start - PageSize <= At(r) /\ At(r) <= start
    BY <1>0 DEF Between
  <2>3. page \in {Newest(window, PageSize), Oldest(window, PageSize)}
    BY <1>1 DEF SinglePages, FundingPages
  <2>4. page \subseteq window /\ (Cardinality(window) <= PageSize => page = window)
    <3> HIDE DEF window
    <3>. QED
      BY <1>0, <2>2, <2>3, NewestGives, OldestGives
  <2>5. all = page
    BY <1>1, NotAfterStartGives
  <2>6. window \subseteq Wanted(records)
    BY <2>2 DEF Wanted, Between
  <2>7. ASSUME ~Overflows PROVE page = window /\ PageSize = limit
    <3>1. ~(limit > PerRequest) /\ ~(Cardinality(window) > PageSize)
      BY <1>1, <2>7 DEF Overflows
    <3>2. Cardinality(window) \in Nat
      <4> HIDE DEF window
      <4>. QED
        BY <2>2, SubsetsAreFinite
    <3> HIDE DEF window
    <3>. QED
      BY <1>0, <2>4, <3>1, <3>2 DEF PageSize
  <2>8. ASSUME ~Overflows PROVE NoGap(Wanted(records), all)
    <3> SUFFICES ASSUME NEW r \in Wanted(records) \ window, NEW x \in window
                 PROVE  At(r) <= At(x)
      BY <2>5, <2>7, <2>8 DEF NoGap
    <3>1. x \in records /\ r \in records
      BY DEF Between, Wanted
    <3>2. start - PageSize <= At(x) /\ At(x) <= start
      BY <2>2, <3>1
    <3>3. Given(start) /\ At(r) <= start
      BY <1>0, <2>1, <3>1, <3>2 DEF Given, Wanted
    <3>4. At(r) < start - PageSize
      BY <1>0, <2>1, <2>2, <3>1, <3>3
    <3>. QED
      BY <1>0, <2>1, <3>1, <3>2, <3>4
  <2>9. ASSUME ~Overflows, Cardinality(all) < limit, Windowed => NoneMissing
        PROVE  \A r \in records : start = None \/ At(r) <= start => r \in all
    <3>1. LastTime = start /\ NoneMissing
      BY <1>0, <1>1, <2>1, <2>9 DEF LastTime, Windowed
    <3>2. all = window /\ PageSize = limit /\ window \in SUBSET records
      BY <2>5, <2>7, <2>9 DEF Between
    <3>3. start - limit \in Int /\ start - limit <= LastTime + 1 - limit
      BY <1>0, <2>1, <3>1
    <3>4. \A r \in records : start - limit <= At(r) /\ At(r) <= LastTime
                               => r \in window
      BY <2>2, <3>1, <3>2
    <3> HIDE DEF window, all
    <3>5. \A r \in records : At(r) <= LastTime => r \in window
      BY <2>9, <3>1, <3>2, <3>3, <3>4, WindowHasAll
    <3>. QED
      BY <1>0, <2>1, <3>1, <3>2, <3>5
  <2>. QED
    BY <2>4, <2>5, <2>6, <2>8, <2>9
<1>2. CASE call = "kraken_spot"
  <2> DEFINE reach == IF Given(start) THEN Between(start - limit, now) ELSE records
  <2>1. page = Newest(reach, PerRequest)
    BY <1>2 DEF SinglePages
  <2>2. reach \in SUBSET Numbers /\ reach \subseteq records
    BY <1>0 DEF Between
  <2>3. page \subseteq reach /\ \A r \in reach \ page, x \in page : r < x
    <3> HIDE DEF reach
    <3>1. PerRequest \in Nat \ {0}
      BY <1>0
    <3>. QED
      BY <2>1, <2>2, <3>1, NewestGives
  <2>4. all = Wanted(page)
    BY <1>2, NotAfterStartGives
  <2>5. ASSUME NEW r \in Wanted(records) \ all, NEW x \in all PROVE At(r) <= At(x)
    <3>1. x \in page /\ x \in reach /\ r \notin page /\ x \in records /\ r \in records
      BY <2>2, <2>3, <2>4 DEF Wanted
    <3>2. CASE r \in reach
      <4>1. r < x
        BY <2>3, <3>1, <3>2
      <4>. QED
        BY <1>0, <3>1, <4>1, TimeOfRecord
    <3>3. CASE r \notin reach
      BY <1>0, <3>1, <3>3 DEF Between, Given
    <3>. QED
      BY <3>2, <3>3
  <2>. QED
    BY <1>2, <2>2, <2>3, <2>4, <2>5 DEF NoGap, Wanted
<1>3. CASE call = "kraken_funding"
  <2>1. page = records
    BY <1>3 DEF SinglePages
  <2>2. all = Wanted(records)
    BY <1>3, <2>1, NotAfterStartGives
  <2>. QED
    BY <1>3, <2>2 DEF NoGap, Wanted, Given
<1>4. CASE call = "kraken_metrics"
  <2> DEFINE lo == KrakenAnchor(start) - limit
  <2>1. page = Between(lo, now)
    BY <1>4 DEF SinglePages
  <2>2. /\ lo \in Int
        /\ lo = IF Given(start) THEN start - limit ELSE (now + 1) - limit
    BY <1>0 DEF KrakenAnchor, Given
  <2> HIDE DEF lo
  <2>3. \A r \in records : r \in page <=> lo <= At(r)
    BY <1>0, <2>1 DEF Between
  <2>4. all = Wanted(page) /\ page \subseteq records
    BY <1>4, <2>1, NotAfterStartGives DEF Between
  <2>5. NoGap(Wanted(records), all)
    BY <1>0, <2>2, <2>3, <2>4 DEF NoGap, Wanted
  <2>6. ASSUME Cardinality(all) < limit, Windowed => NoneMissing,
               NEW r \in records, start = None \/ At(r) <= start
        PROVE  r \in all
    <3>1. CASE start = 0
      BY <1>0, <2>6, <3>1
    <3>2. CASE start # 0
      <4>1. /\ start # None => Given(start)
            /\ Given(start) => start \in Nat
            /\ LastTime = IF Given(start) THEN start ELSE now
        BY <1>0, <3>2 DEF LastTime, Given
      <4>2. lo <= LastTime + 1 - limit
        BY <1>0, <2>2, <4>1
      <4>3. \A x \in records : lo <= At(x) /\ At(x) <= LastTime => x \in all
        BY <2>3, <2>4, <4>1 DEF Wanted
      <4>4. NoneMissing /\ all \in SUBSET records
        BY <1>4, <2>4, <2>6 DEF Windowed, Wanted
      <4>5. At(r) <= LastTime
        BY <1>0, <2>6, <4>1 DEF Given
      <4> HIDE DEF all
      <4>. QED
        BY <2>2, <2>6, <4>2, <4>3, <4>4, <4>5, WindowHasAll
    <3>. QED
      BY <3>1, <3>2
  <2>. QED
    BY <1>4, <2>4, <2>5, <2>6 DEF Overflows, Wanted
<1>5. CASE call \in WalksIfAsked \cup {"okx_candles"}
  <2>1. /\ limit <= PerRequest
        /\ start = None \/ (start = 0 /\ call = "agg_trades")
        /\ ~Given(start)
    BY <1>5 DEF HistoryInv, StagesFit, Given
  <2>2. page = Page(start, limit)
    BY <1>5, <2>1 DEF SinglePages, WalksIfAsked
  <2>3. all = page
    BY <1>5, NotAfterStartGives DEF WalksIfAsked
  <2>4. /\ page \subseteq records
        /\ \A r \in records \ page : \A p \in page : At(r) <= At(p)
        /\ call \notin Windows /\ Cardinality(page) < limit =>
             \A r \in records : r \in page
        /\ call \in Windows =>
             \A r \in records : now + 1 - limit <= At(r) => r \in page
    <3>1. start = None \/ (start \in Int /\ start >= 0)
      BY <1>0
    <3>2. call \in Windows => start = None
      BY <2>1 DEF Windows
    <3>3. /\ page \subseteq records
          /\ \A r \in records \ page :
               (Given(start) => At(r) <= start) => \A p \in page : At(r) <= At(p)
          /\ call \notin Windows /\ Cardinality(page) < limit =>
               \A r \in records : (Given(start) => At(r) <= start) => r \in page
          /\ call \in Windows =>
               \A r \in records :
                  /\ start # None => At(r) <= start
                  /\ (IF start = None THEN now ELSE start) + 1 - limit <= At(r)
                  => r \in page
      BY <1>0, <2>1, <2>2, <3>1, PageGives
    <3>. QED
      BY <2>1, <3>2, <3>3
  <2>5. Wanted(records) = records /\ (call \in Windows => LastTime = now)
    BY <2>1 DEF Wanted, LastTime, Windows
  <2>6. ASSUME Cardinality(page) < limit, Windowed => NoneMissing
        PROVE  \A r \in records : r \in page
    <3>1. CASE call \in Windows
      <4>1. NoneMissing
        BY <2>6, <3>1 DEF Windows, Windowed
      <4>2. now + 1 - limit \in Int
        BY <1>0
      <4>3. \A r \in records : At(r) <= LastTime => r \in page
        BY <1>0, <2>4, <2>5, <2>6, <3>1, <4>1, <4>2, WindowHasAll
      <4>. QED
        BY <1>0, <2>5, <3>1, <4>3
    <3>2. CASE call \notin Windows
      BY <2>4, <2>6, <3>2
    <3>. QED
      BY <3>1, <3>2
  <2>. QED
    BY <2>3, <2>4, <2>5, <2>6 DEF NoGap
<1>. QED
  <2>1. call \in AllCalls
    BY <1>0, CallsAssumption DEF TypeOK
  <2>2. call \notin AlwaysWalk \cup {"kraken_candles"}
    BY DEF HistoryInv, StagesFit
  <2>3. \/ call \in {"binance_funding", "kraken_spot", "kraken_funding",
                     "kraken_metrics"}
        \/ call \in WalksIfAsked \cup {"okx_candles"}
    BY <2>1, <2>2 DEF AllCalls, AlwaysWalk, WalksIfAsked
  <2>. QED
    BY <1>1, <1>2, <1>3, <1>4, <1>5, <2>3

\* So such a call is right.
LEMMA SingleAnswers ==
  HistoryInv /\ Single => HistoryInv'
<1> SUFFICES ASSUME HistoryInv, Single PROVE HistoryInv'
  OBVIOUS
<1>1. PICK page \in SinglePages : Finish(NotAfterStart(page))
  BY DEF Single
<1> DEFINE all == NotAfterStart(page)
<1>2. /\ stage = "single"
      /\ cut' = Overflows
      /\ known' = records
      /\ UNCHANGED <<call, now, records, start, limit, seed, currentEnd,
                     cadence, requests>>
  BY DEF Single, Overflows, Known, HistoryInv, StagesFit
<1>3. /\ all \subseteq Wanted(records)
      /\ Overflows \/ NoGap(Wanted(records), all)
      /\ /\ ~Overflows
         /\ call # "kraken_spot"
         /\ Cardinality(all) < limit
         /\ Windowed => NoneMissing
         => \A r \in records : start = None \/ At(r) <= start => r \in all
  BY <1>2, SinglePageGives
<1> HIDE DEF all
<1>4. all \in SUBSET records /\ \A x \in all : Given(start) => At(x) <= start
  BY <1>3 DEF Wanted
<1>5. MayMissNewest' \/ NoGap(Wanted(known'), all)
  <2>1. CASE Overflows
    <3>1. cut' /\ call' = "binance_funding"
      BY <1>2, <2>1 DEF Overflows
    <3>. QED
      BY <3>1 DEF MayMissNewest
  <2>2. CASE ~Overflows
    BY <1>2, <1>3, <2>2
  <2>. QED
    BY <2>1, <2>2
<1>6. /\ ~cut'
      /\ call # "kraken_spot"
      /\ Cardinality(all) < limit
      /\ Windowed => Dense(LastTime)'
      => Asked' \subseteq all
  <2>1. Dense(LastTime)' <=> NoneMissing
    BY <1>2 DEF Dense, LastTime, NoneMissing
  <2>2. Asked' = {r \in records : start = None \/ At(r) <= start}
    BY <1>2 DEF Asked
  <2>. QED
    BY <1>2, <1>3, <2>1, <2>2
<1>7. /\ view # {} => start = At(First(view))
      /\ view \subseteq records
  BY <1>2 DEF HistoryInv, ViewFits, RecordsFit
<1>8. cut' \in BOOLEAN
  BY <1>2 DEF Overflows
<1>9. Finish(all)
  BY <1>1 DEF all
<1>. QED
  BY <1>2, <1>4, <1>5, <1>6, <1>7, <1>8, <1>9, FinishGives

-----------------------------------------------------------------------------
(* Walks *)

\* Where they do not share times, records have times in their order.
LEMMA TimesDiffer ==
  ASSUME HistoryInv, ~Ties, NEW r \in records, NEW x \in records
  PROVE  /\ r # x /\ At(r) <= At(x) => At(r) < At(x)
         /\ r < x => At(r) < At(x)
<1>1. /\ r \in Nat /\ x \in Nat /\ At(r) \in Nat /\ At(x) \in Nat
      /\ r % 2 = 0 /\ x % 2 = 0
  BY Typing DEF RecordsFit
<1>2. r = 2 * At(r) + (r % 2) /\ x = 2 * At(x) + (x % 2)
  BY <1>1, TimeOfRecord
<1>. QED
  BY <1>1, <1>2

\* What there was when the call was first answered, now or earlier.
Seen == IF requests = 0 /\ collected = {} THEN records ELSE known

\* A request that is not the last one adds to the records of a call.
LEMMA CallGoesOn ==
  ASSUME HistoryInv,
         stage \in {"single", "recent", "walk", "funding", "forward"},
         stage' \in {"walk", "funding", "forward", "failed"},
         UNCHANGED <<call, now, records, start, limit, view>>,
         known' \in {known, records},
         collected' \subseteq records,
         seed' \in {None} \cup Times,
         currentEnd' = None \/ currentEnd' \in Int,
         cadence' \in 1..MaxTime,
         requests' \in 0..(MaxRequests - 1),
         cut' \in BOOLEAN
  PROVE  /\ TypeOK' /\ RecordsFit' /\ ViewFits'
         /\ NothingAfterStart' /\ ResultIsNewest' /\ ShortMeansAll'
         /\ ViewHasNoGap'
<1>0. /\ TypeOK /\ RecordsFit
      /\ known \subseteq records /\ view \subseteq records
      /\ \A r \in records : At(r) \in 1..MaxTime
  BY DEF HistoryInv, RecordsFit, TypeOK
<1>1. known' \subseteq records /\ \A r \in records \ known', x \in known' : At(x) < At(r)
  <2>1. CASE known' = known
    BY <1>0, <2>1 DEF RecordsFit
  <2>2. CASE known' = records
    BY <2>2
  <2>. QED
    BY <2>1, <2>2
<1>2. RecordsFit'
  BY <1>0, <1>1 DEF RecordsFit, Ties
<1>3. TypeOK'
  <2>1. \A S \in {records', collected', known', view'} :
           \A r \in S : At(r) \in 1..MaxTime
    BY <1>0, <1>1
  <2>. QED
    BY <1>0, <2>1 DEF TypeOK
<1>4. ViewFits'
  <2>1. view # {} => start = At(First(view))
    BY DEF HistoryInv, ViewFits
  <2>2. known' = {} \/ view \subseteq known'
    BY <1>0 DEF HistoryInv, ViewFits
  <2>. QED
    BY <2>1, <2>2 DEF ViewFits
<1>5. NothingAfterStart' /\ ResultIsNewest' /\ ShortMeansAll'
  BY DEF NothingAfterStart, ResultIsNewest, ShortMeansAll
<1>6. ViewHasNoGap'
  BY DEF HistoryInv, ViewHasNoGap
<1>. QED
  BY <1>2, <1>3, <1>4, <1>5, <1>6

\* The next page of a walk continues what is there; one that brings nothing
\* new says that there is no more.
LEMMA WalkPageGives ==
  ASSUME HistoryInv, stage = "walk",
         NEW page, page = Page(Anchor, PerRequest)
  PROVE  /\ page \subseteq records
         /\ collected \cup page \subseteq Wanted(Seen)
         /\ NoGap(Wanted(Seen), collected \cup page)
         /\ \A x \in collected, p \in page : At(p) <= At(x)
         /\ collected # {} => requests # 0 \/ Seen = known
         /\ /\ page \subseteq collected
            /\ Windowed => \A t \in 2..LastTime : \E r \in Seen : At(r) = t
            => \A r \in Seen : start = None \/ At(r) <= start => r \in collected
<1>0. /\ TypeOK /\ RecordsFit
      /\ now \in Nat /\ 1 <= now
      /\ records \in SUBSET Numbers
      /\ \A r \in records : /\ r \in Nat /\ At(r) \in Nat
                            /\ 2 <= At(r) /\ At(r) <= now
      /\ known \subseteq records
      /\ start = None \/ start \in Nat
      /\ LastTime \in Nat
      /\ PerRequest \in Nat /\ PerRequest > 2
      /\ None \notin Int
      /\ WalkFits
  BY Typing DEF HistoryInv
<1>1. call \in Windows <=> Windowed
  <2>1. call \in AlwaysWalk \cup WalksIfAsked \cup {"okx_candles"}
    BY DEF HistoryInv, StagesFit
  <2>. QED
    BY <2>1 DEF Windows, Windowed, AlwaysWalk, WalksIfAsked
<1>2. CASE collected = {}
  <2>1. Anchor = start /\ Seen = records
    BY <1>0, <1>2 DEF WalkFits, Anchor, Seen
  <2>2. /\ page \subseteq records
        /\ Given(start) => \A p \in page : At(p) <= start
        /\ \A r \in records \ page :
             (Given(start) => At(r) <= start) => \A p \in page : At(r) <= At(p)
        /\ call \notin Windows /\ Cardinality(page) < PerRequest =>
             \A r \in records : (Given(start) => At(r) <= start) => r \in page
        /\ call \in Windows =>
             \A r \in records :
                /\ start # None => At(r) <= start
                /\ (IF start = None THEN now ELSE start) + 1 - PerRequest <= At(r)
                => r \in page
    <3>1. PerRequest \in Nat \ {0} /\ PerRequest <= PerRequest
      BY <1>0
    <3>2. start = None \/ (start \in Int /\ start >= 0)
      BY <1>0
    <3>. QED
      BY <1>0, <2>1, <3>1, <3>2, PageGives
  <2>3. page \subseteq Wanted(records) /\ NoGap(Wanted(records), page)
    BY <2>2 DEF Wanted, NoGap
  <2>4. ASSUME page = {}, NEW r \in records, start = None \/ At(r) <= start,
               Windowed => \A t \in 2..LastTime : \E x \in records : At(x) = t
        PROVE  FALSE
    <3>1. CASE call \notin Windows
      BY <1>0, <2>2, <2>4, <3>1, FS_EmptySet DEF Given
    <3>2. CASE call \in Windows
      <4>1. At(r) <= LastTime
        BY <1>0, <2>4 DEF LastTime
      <4>2. LastTime \in 2..LastTime
        BY <1>0, <4>1
      <4>3. PICK x \in records : At(x) = LastTime
        BY <1>1, <2>4, <3>2, <4>2
      <4>4. start # None => At(x) <= start
        BY <1>0, <4>3 DEF LastTime
      <4>5. (IF start = None THEN now ELSE start) + 1 - PerRequest <= At(x)
        <5>1. (IF start = None THEN now ELSE start) = LastTime
          BY DEF LastTime
        <5>2. LastTime + 1 - PerRequest <= At(x)
          BY <1>0, <4>3
        <5>. QED
          BY <5>1, <5>2
      <4>. QED
        BY <2>2, <2>4, <3>2, <4>4, <4>5
    <3>. QED
      BY <3>1, <3>2
  <2>. QED
    BY <1>2, <2>1, <2>2, <2>3, <2>4
<1>3. CASE collected # {}
  <2> DEFINE c == Anchor
  <2>1. /\ c \in 1..now
        /\ \A x \in collected : c <= At(x)
        /\ \A r \in Wanted(known) \ collected : At(r) <= c
        /\ collected \subseteq Wanted(known)
        /\ Seen = known
    BY <1>0, <1>3 DEF WalkFits, Seen
  <2> HIDE DEF c
  <2>2. c \in Int /\ 1 <= c /\ c <= now /\ Given(c)
    BY <1>0, <2>1 DEF Given
  <2>3. /\ page \subseteq records
        /\ \A p \in page : At(p) <= c
        /\ \A r \in records \ page : At(r) <= c => \A p \in page : At(r) <= At(p)
        /\ call \notin Windows /\ Cardinality(page) < PerRequest =>
             \A r \in records : At(r) <= c => r \in page
        /\ call \in Windows =>
             \A r \in records :
                At(r) <= c /\ c + 1 - PerRequest <= At(r) => r \in page
    <3>1. PerRequest \in Nat \ {0} /\ PerRequest <= PerRequest
      BY <1>0
    <3>2. c \in Int /\ c >= 0 /\ c # None
      BY <1>0, <2>2
    <3>3. page = Page(c, PerRequest)
      BY DEF c
    <3>. QED
      BY <1>0, <2>2, <3>1, <3>2, <3>3, PageGives
  <2>4. PICK x \in collected : x \in known /\ x \in records
    BY <1>0, <1>3, <2>1 DEF Wanted
  <2>5. c <= At(x) /\ At(x) \in Nat /\ (Given(start) => At(x) <= start)
    BY <1>0, <2>1, <2>4 DEF Wanted
  <2>6. ASSUME NEW p \in page PROVE p \in Wanted(known)
    <3>1. At(p) \in Nat /\ At(p) <= c /\ p \in records
      BY <1>0, <2>3
    <3>2. p \in known
      BY <1>0, <2>2, <2>4, <2>5, <3>1 DEF RecordsFit
    <3>3. Given(start) => At(p) <= start
      BY <1>0, <2>2, <2>5, <3>1 DEF Given
    <3>. QED
      BY <3>2, <3>3 DEF Wanted
  <2>7. \A y \in collected, p \in page : At(p) <= At(y)
    <3> SUFFICES ASSUME NEW y \in collected, NEW p \in page PROVE At(p) <= At(y)
      OBVIOUS
    <3>1. y \in records /\ At(y) \in Nat /\ c <= At(y)
      BY <1>0, <2>1 DEF Wanted
    <3>2. At(p) \in Nat /\ At(p) <= c
      BY <1>0, <2>3
    <3>. QED
      BY <2>2, <3>1, <3>2
  <2>8. NoGap(Wanted(known), collected \cup page)
    <3> SUFFICES ASSUME NEW r \in Wanted(known), r \notin collected, r \notin page,
                        NEW y \in collected \cup page
                 PROVE  At(r) <= At(y)
      BY DEF NoGap
    <3>1. r \in records /\ At(r) \in Nat /\ At(r) <= c
      BY <1>0, <2>1 DEF Wanted
    <3>2. y \in page => At(r) <= At(y)
      BY <2>3, <3>1
    <3>3. y \in collected => y \in records /\ At(y) \in Nat /\ c <= At(y)
      BY <1>0, <2>1 DEF Wanted
    <3>. QED
      BY <2>2, <3>1, <3>2, <3>3
  <2>9. ASSUME page \subseteq collected,
               Windowed => \A t \in 2..LastTime : \E r \in known : At(r) = t,
               NEW r \in known, start = None \/ At(r) <= start, r \notin collected
        PROVE  FALSE
    <3>1. r \in records /\ At(r) \in Nat /\ 2 <= At(r) /\ r \notin page
      BY <1>0, <2>9
    <3>2. r \in Wanted(known) /\ At(r) <= c
      BY <2>1, <2>9 DEF Wanted, Given
    <3>3. CASE call \notin Windows
      <4>1. \A p \in page : p \in {2 * c, 2 * c + 1}
        <5> SUFFICES ASSUME NEW p \in page PROVE p \in {2 * c, 2 * c + 1}
          OBVIOUS
        <5>1. p \in Nat /\ At(p) \in Nat /\ At(p) <= c /\ c <= At(p)
          BY <1>0, <2>1, <2>3, <2>9
        <5>2. p = 2 * At(p) \/ p = 2 * At(p) + 1
          BY <5>1, TimeOfRecord
        <5>. QED
          BY <2>2, <5>1, <5>2
      <4>2. Cardinality(page) <= 2
        <5>1. /\ IsFiniteSet({2 * c, 2 * c + 1})
              /\ Cardinality({2 * c, 2 * c + 1}) = 2
          <6>1. IsFiniteSet({2 * c}) /\ Cardinality({2 * c}) = 1
            BY FS_Singleton
          <6>2. {2 * c, 2 * c + 1} = {2 * c} \cup {2 * c + 1} /\ 2 * c + 1 \notin {2 * c}
            BY <2>2
          <6>. QED
            BY <6>1, <6>2, FS_AddElement
        <5>2. page \subseteq {2 * c, 2 * c + 1}
          BY <4>1
        <5>3. Cardinality(page) <= Cardinality({2 * c, 2 * c + 1})
          BY <5>1, <5>2, FS_Subset
        <5>. QED
          BY <5>1, <5>3
      <4>3. Cardinality(page) < PerRequest
        <5>1. page \in SUBSET Numbers
          BY <1>0, <2>3
        <5>2. Cardinality(page) \in Nat
          BY <5>1, SubsetsAreFinite
        <5>. QED
          BY <1>0, <4>2, <5>2
      <4>. QED
        BY <2>3, <3>1, <3>2, <3>3, <4>3
    <3>4. CASE call \in Windows
      <4>1. At(r) < c + 1 - PerRequest
        BY <1>0, <2>2, <2>3, <3>1, <3>2, <3>4
      <4>2. c <= LastTime
        <5>1. CASE start = None
          BY <1>0, <2>2, <5>1 DEF LastTime
        <5>2. CASE start # None
          <6>1. Given(start) /\ start \in Nat
            BY <1>0, <2>9, <3>1, <5>2 DEF Given
          <6>. QED
            BY <2>2, <2>5, <5>2, <6>1 DEF LastTime
        <5>. QED
          BY <5>1, <5>2
      <4>3. c - 1 \in 2..LastTime
        BY <1>0, <2>2, <3>1, <4>1, <4>2
      <4>4. PICK y \in known : At(y) = c - 1
        BY <1>1, <2>9, <3>4, <4>3
      <4>5. y \in page
        <5>1. y \in records /\ At(y) <= c /\ c + 1 - PerRequest <= At(y)
          BY <1>0, <2>2, <4>4
        <5>. QED
          BY <2>3, <3>4, <5>1
      <4>. QED
        BY <2>1, <2>2, <2>9, <4>4, <4>5
    <3>. QED
      BY <3>3, <3>4
  <2>. QED
    BY <2>1, <2>3, <2>6, <2>7, <2>8, <2>9
<1>. QED
  BY <1>2, <1>3

\* A walk that goes on has a new anchor at its oldest record; one that ends has
\* what it gathered.
LEMMA WalkGoesOn ==
  HistoryInv /\ WalkPage => HistoryInv'
<1> SUFFICES ASSUME HistoryInv, WalkPage PROVE HistoryInv'
  OBVIOUS
<1> DEFINE page  == Page(Anchor, PerRequest)
           all   == collected \cup page
           next  == At(First(page))
           stuck == currentEnd # None /\ next >= currentEnd
           last  == \/ page \subseteq collected
                    \/ Cardinality(all) >= limit
                    \/ requests + 1 = MaxRequests
                    \/ stuck
<1>1. /\ stage = "walk"
      /\ known' = Seen
      /\ UNCHANGED <<call, now, records, start, limit, seed, cadence>>
      /\ last => /\ Finish(all)
                 /\ cut' = (/\ ~(page \subseteq collected)
                            /\ Cardinality(all) < limit)
                 /\ UNCHANGED <<currentEnd, requests>>
      /\ ~last => /\ collected' = all
                  /\ currentEnd' = next
                  /\ requests' = requests + 1
                  /\ UNCHANGED <<stage, cut, view>>
  BY DEF WalkPage, Anchor, Known, Seen
<1>2. /\ page \subseteq records
      /\ all \subseteq Wanted(Seen)
      /\ NoGap(Wanted(Seen), all)
      /\ \A x \in collected, p \in page : At(p) <= At(x)
      /\ /\ page \subseteq collected
         /\ Windowed => \A t \in 2..LastTime : \E r \in Seen : At(r) = t
         => \A r \in Seen : start = None \/ At(r) <= start => r \in collected
  BY <1>1, WalkPageGives
<1>3. /\ TypeOK /\ RecordsFit
      /\ now \in Nat /\ 1 <= now
      /\ records \in SUBSET Numbers
      /\ \A r \in records : /\ r \in Nat /\ At(r) \in Nat
                            /\ 2 <= At(r) /\ At(r) <= now
      /\ known \subseteq records /\ collected \subseteq records
      /\ view \subseteq records
      /\ start = None \/ start \in Nat
      /\ limit \in Nat \ {0}
      /\ None \notin Int
  BY Typing
<1>4. Seen \in {known, records} /\ (view \subseteq Seen \/ Seen = {})
  BY <1>1, <1>3 DEF Seen, HistoryInv, ViewFits
<1>5. /\ Wanted(Seen) \subseteq Seen
      /\ \A x \in Wanted(Seen) : Given(start) => At(x) <= start
      /\ all \subseteq records
  BY <1>2, <1>3 DEF Wanted
<1>6. CASE last
  <2> HIDE DEF page, last, stuck, next
  <2>1. /\ Finish(all)
        /\ cut' = (~(page \subseteq collected) /\ Cardinality(all) < limit)
        /\ UNCHANGED <<currentEnd, requests>>
    BY <1>1, <1>6
  <2>2. /\ ~cut'
        /\ call # "kraken_spot"
        /\ Cardinality(all) < limit
        /\ Windowed => Dense(LastTime)'
        => Asked' \subseteq all
    <3> SUFFICES ASSUME ~cut', Cardinality(all) < limit,
                        Windowed => Dense(LastTime)'
                 PROVE  Asked' \subseteq all
      OBVIOUS
    <3>1. page \subseteq collected
      BY <2>1
    <3>2. Dense(LastTime)' <=> \A t \in 2..LastTime : \E r \in Seen : At(r) = t
      BY <1>1 DEF Dense, LastTime
    <3>3. Asked' = {r \in Seen : start = None \/ At(r) <= start}
      BY <1>1 DEF Asked
    <3>. QED
      BY <1>2, <3>1, <3>2, <3>3
  <2>3. /\ all = {} \/ view \subseteq Seen
        /\ view # {} => start = At(First(view))
    BY <1>1, <1>2, <1>4, <1>5 DEF HistoryInv, ViewFits
  <2>4. /\ NoGap(Wanted(known'), all) /\ all \subseteq known'
        /\ \A x \in all : Given(start) => At(x) <= start
        /\ known' \in {known, records}
        /\ cut' \in BOOLEAN
        /\ all \in SUBSET records
        /\ all = {} \/ view \subseteq known'
    BY <1>1, <1>2, <1>4, <1>5, <2>1, <2>3
  <2> HIDE DEF all
  <2>. QED
    BY <1>1, <2>1, <2>2, <2>3, <2>4, FinishGives
<1>7. CASE ~last
  <2>1. page # {} /\ requests + 1 # MaxRequests
    BY <1>7
  <2>2. /\ First(page) \in page
        /\ \A x \in page : At(First(page)) <= At(x)
    <3> HIDE DEF page
    <3>1. page \in SUBSET Numbers
      BY <1>2, <1>3
    <3>. QED
      BY <2>1, <3>1, FirstGives
  <2> HIDE DEF page, last, stuck
  <2>3. next \in Nat /\ 2 <= next /\ next <= now
    BY <1>2, <1>3, <2>2
  <2>4. \A x \in all : next <= At(x)
    <3>1. \A x \in page : next <= At(x)
      BY <2>2
    <3>2. \A x \in collected : next <= At(x)
      BY <1>2, <2>2
    <3>. QED
      BY <3>1, <3>2
  <2>5. \A r \in Wanted(Seen) \ all : At(r) <= next
    BY <1>2, <2>2 DEF NoGap
  <2>6. /\ collected' = all /\ currentEnd' = next /\ requests' = requests + 1
        /\ UNCHANGED <<stage, cut, view>>
    BY <1>1, <1>7
  <2>7. requests' \in 0..(MaxRequests - 1)
    BY <1>3, <2>1, <2>6, Bounds DEF TypeOK
  <2> HIDE DEF next
  <2>8. /\ TypeOK' /\ RecordsFit' /\ ViewFits'
        /\ NothingAfterStart' /\ ResultIsNewest' /\ ShortMeansAll'
        /\ ViewHasNoGap'
    <3>1. /\ seed' \in {None} \cup Times
          /\ cadence' \in 1..MaxTime
          /\ cut' \in BOOLEAN
          /\ currentEnd' \in Int
      BY <1>1, <1>3, <2>3, <2>6 DEF TypeOK
    <3>2. collected' \subseteq records /\ known' \in {known, records}
      BY <1>1, <1>4, <1>5, <2>6
    <3>. QED
      BY <1>1, <2>6, <2>7, <3>1, <3>2, CallGoesOn
  <2>9. WalkFits'
    <3>1. Anchor' = next /\ currentEnd' # None
      BY <1>3, <2>3, <2>6 DEF Anchor
    <3>2. Wanted(known)' = Wanted(Seen)
      BY <1>1 DEF Wanted, Given
    <3>3. all # {}
      BY <2>1
    <3>4. next \in 1..now
      BY <1>3, <2>3
    <3> HIDE DEF all
    <3>. QED
      BY <1>1, <1>2, <2>4, <2>5, <2>6, <3>1, <3>2, <3>3, <3>4 DEF WalkFits
  <2>10. StagesFit' /\ FundingFits' /\ ForwardFits'
    BY <1>1, <2>6 DEF HistoryInv, StagesFit, FundingFits, ForwardFits
  <2>. QED
    BY <2>8, <2>9, <2>10 DEF HistoryInv
<1>. QED
  BY <1>6, <1>7

\* OKX's candles: the recent page is the first of the walk.
LEMMA RecentAnswers ==
  HistoryInv /\ Recent => HistoryInv'
<1> SUFFICES ASSUME HistoryInv, Recent PROVE HistoryInv'
  OBVIOUS
<1> DEFINE page == AfterPage(start, PageSize)
<1>1. /\ stage = "recent" /\ call = "okx_candles"
      /\ collected = {} /\ requests = 0 /\ currentEnd = None /\ seed = start
      /\ ~cut
      /\ known' = records
      /\ UNCHANGED <<call, now, records, start, limit, currentEnd, cadence,
                     requests, cut>>
      /\ Cardinality(page) >= limit => Finish(page) /\ seed' = seed
      /\ ~(Cardinality(page) >= limit) =>
           /\ stage' = "walk"
           /\ collected' = page
           /\ seed' = IF page = {} THEN start ELSE At(First(page)) - 1
           /\ view' = view
  BY DEF Recent, Known, HistoryInv, StagesFit
<1>2. /\ TypeOK /\ RecordsFit
      /\ now \in Nat /\ 1 <= now /\ now <= MaxTime /\ MaxTime \in Nat
      /\ records \in SUBSET Numbers
      /\ \A r \in records : /\ r \in Nat /\ At(r) \in Nat
                            /\ 2 <= At(r) /\ At(r) <= now
      /\ view \subseteq records
      /\ start = None \/ start \in Nat
      /\ limit \in Nat \ {0}
      /\ PageSize \in Nat \ {0} /\ PageSize <= PerRequest
      /\ None \notin Int
  BY Typing, RecordsAreNumbers, Bounds
<1>3. /\ page \subseteq records
      /\ Given(start) => \A p \in page : At(p) <= start
      /\ \A r \in records \ page :
           (Given(start) => At(r) <= start) => \A p \in page : At(r) <= At(p)
  <2>1. page = Page(start, PageSize)
    BY <1>1 DEF Page
  <2>2. start = None \/ (start \in Int /\ start >= 0)
    BY <1>2
  <2> HIDE DEF page
  <2>. QED
    BY <1>2, <2>1, <2>2, PageGives
<1> HIDE DEF page
<1>4. /\ page \subseteq Wanted(records)
      /\ NoGap(Wanted(records), page)
      /\ \A x \in page : Given(start) => At(x) <= start
  BY <1>3 DEF Wanted, NoGap
<1>5. CASE Cardinality(page) >= limit
  <2>1. Cardinality(page) \in Nat
    <3>1. page \in SUBSET Numbers
      BY <1>2, <1>3
    <3>. QED
      BY <3>1, SubsetsAreFinite
  <2>2. ~(Cardinality(page) < limit)
    BY <1>2, <1>5, <2>1
  <2>3. /\ view # {} => start = At(First(view))
        /\ cut' \in BOOLEAN
    BY <1>1, <1>2 DEF HistoryInv, ViewFits, TypeOK
  <2>. QED
    BY <1>1, <1>2, <1>3, <1>4, <1>5, <2>2, <2>3, FinishGives
<1>6. CASE ~(Cardinality(page) >= limit)
  <2>1. page # {} => /\ First(page) \in page
                     /\ \A x \in page : At(First(page)) <= At(x)
    <3>1. page \in SUBSET Numbers
      BY <1>2, <1>3
    <3>. QED
      BY <3>1, FirstGives
  <2>2. page # {} => seed' \in 1..now /\ seed' = At(First(page)) - 1
    BY <1>1, <1>2, <1>3, <1>6, <2>1
  <2>3. /\ TypeOK' /\ RecordsFit' /\ ViewFits'
        /\ NothingAfterStart' /\ ResultIsNewest' /\ ShortMeansAll'
        /\ ViewHasNoGap'
    <3>1. seed' \in {None} \cup Times
      <4>1. CASE page = {}
        BY <1>1, <1>2, <1>6, <4>1 DEF TypeOK, Starts, Times
      <4>2. CASE page # {}
        BY <1>2, <2>2, <4>2 DEF Times
      <4>. QED
        BY <4>1, <4>2
    <3>2. /\ currentEnd' = None
          /\ requests' \in 0..(MaxRequests - 1)
          /\ cadence' \in 1..MaxTime
          /\ cut' \in BOOLEAN
      BY <1>1, <1>2 DEF TypeOK
    <3>. QED
      BY <1>1, <1>3, <1>6, <3>1, <3>2, CallGoesOn
  <2>4. WalkFits'
    <3>1. CASE page = {}
      BY <1>1, <1>6, <3>1 DEF WalkFits
    <3>2. CASE page # {}
      <4>1. Anchor' = seed' /\ Wanted(known)' = Wanted(records)
        BY <1>1 DEF Anchor, Wanted, Given
      <4>2. seed' \in 1..now /\ \A x \in page : seed' < At(x)
        BY <1>2, <1>3, <2>1, <2>2, <3>2
      <4>3. \A r \in Wanted(records) \ page : At(r) <= seed'
        <5> SUFFICES ASSUME NEW r \in Wanted(records) \ page
                     PROVE  At(r) <= seed'
          OBVIOUS
        <5> DEFINE f == First(page)
        <5>1. f \in page /\ f \in records /\ r \in records /\ r # f
          BY <1>3, <2>1, <3>2 DEF Wanted
        <5>2. At(r) <= At(f)
          BY <1>4, <2>1, <3>2 DEF NoGap
        <5>3. ~Ties
          BY <1>1 DEF Ties
        <5>4. At(r) < At(f) /\ At(r) \in Nat /\ At(f) \in Nat
          BY <1>2, <5>1, <5>2, <5>3, TimesDiffer
        <5>5. seed' = At(f) - 1
          BY <2>2, <3>2
        <5> HIDE DEF f
        <5>. QED
          BY <5>4, <5>5
      <4>4. \A x \in page : seed' <= At(x)
        BY <1>2, <1>3, <4>2
      <4>. QED
        BY <1>1, <1>4, <1>6, <3>2, <4>1, <4>2, <4>3, <4>4 DEF WalkFits
    <3>. QED
      BY <3>1, <3>2
  <2>5. StagesFit' /\ FundingFits' /\ ForwardFits'
    BY <1>1, <1>6 DEF StagesFit, FundingFits, ForwardFits
  <2>. QED
    BY <2>3, <2>4, <2>5 DEF HistoryInv
<1>. QED
  BY <1>5, <1>6

-----------------------------------------------------------------------------
(* Binance's funding rates *)

\* The recent rates are the answer, or the windows begin before them, or there
\* is none at all.
LEMMA RecentFundingAnswers ==
  HistoryInv /\ RecentFunding => HistoryInv'
<1> SUFFICES ASSUME HistoryInv, RecentFunding PROVE HistoryInv'
  OBVIOUS
<1> DEFINE page == Newest(records, PageSize)
<1>1. /\ stage = "recent" /\ call = "binance_funding" /\ start = None
      /\ collected = {} /\ requests = 0 /\ currentEnd = None /\ ~cut
      /\ known' = records
      /\ UNCHANGED <<call, now, records, start, limit, seed, requests, cut>>
  BY DEF RecentFunding, Known, HistoryInv, StagesFit
<1>2. \/ /\ Cardinality(page) >= limit
         /\ Finish(page)
         /\ UNCHANGED <<currentEnd, cadence>>
      \/ /\ page # {}
         /\ stage' = "funding"
         /\ collected' = page
         /\ currentEnd' = At(First(page)) - 1
         /\ cadence' \in {1} \cup Intervals(page)
         /\ UNCHANGED view
      \/ /\ stage' = "failed"
         /\ UNCHANGED <<collected, currentEnd, cadence, view>>
  BY DEF RecentFunding
<1>3. /\ TypeOK /\ RecordsFit
      /\ records \in SUBSET Numbers
      /\ \A r \in records : /\ r \in Nat /\ At(r) \in Nat
                            /\ 2 <= At(r) /\ At(r) <= now
      /\ view \subseteq records
      /\ limit \in Nat \ {0}
      /\ PageSize \in Nat \ {0}
      /\ None \notin Int
      /\ MaxTime \in Nat /\ MaxTime > 0
      /\ ~Ties
  BY <1>1, Typing, Bounds DEF Ties
<1>4. /\ page \subseteq records
      /\ \A r \in records \ page, x \in page : r < x
  BY <1>3, NewestGives
<1> HIDE DEF page
<1>5. CASE Cardinality(page) >= limit /\ Finish(page) /\ UNCHANGED <<currentEnd, cadence>>
  <2>1. Cardinality(page) \in Nat
    <3>1. page \in SUBSET Numbers
      BY <1>3, <1>4
    <3>. QED
      BY <3>1, SubsetsAreFinite
  <2>2. ~(Cardinality(page) < limit)
    BY <1>3, <1>5, <2>1
  <2>3. NoGap(Wanted(records), page)
    <3>1. \A r \in records \ page, x \in page : At(r) <= At(x)
      BY <1>3, <1>4, TimeOfRecord
    <3>. QED
      BY <3>1 DEF NoGap, Wanted
  <2>4. /\ view # {} => start = At(First(view))
        /\ cut' \in BOOLEAN
        /\ \A x \in page : Given(start) => At(x) <= start
    BY <1>1, <1>3 DEF HistoryInv, ViewFits, TypeOK, Given
  <2>. QED
    BY <1>1, <1>3, <1>4, <1>5, <2>2, <2>3, <2>4, FinishGives
<1>6. CASE /\ page # {}
           /\ stage' = "funding"
           /\ collected' = page
           /\ currentEnd' = At(First(page)) - 1
           /\ cadence' \in {1} \cup Intervals(page)
           /\ UNCHANGED view
  <2>1. First(page) \in page /\ \A x \in page : At(First(page)) <= At(x)
    <3>1. page \in SUBSET Numbers
      BY <1>3, <1>4
    <3>. QED
      BY <1>6, <3>1, FirstGives
  <2>2. currentEnd' \in Int /\ \A x \in page : currentEnd' < At(x)
    BY <1>3, <1>4, <1>6, <2>1
  <2>3. \A r \in records \ page : At(r) <= currentEnd'
    <3> SUFFICES ASSUME NEW r \in records \ page PROVE At(r) <= currentEnd'
      OBVIOUS
    <3> DEFINE f == First(page)
    <3>1. f \in page /\ f \in records /\ currentEnd' = At(f) - 1
      BY <1>4, <1>6, <2>1
    <3> HIDE DEF f
    <3>2. r < f
      BY <1>4, <3>1
    <3>3. At(r) < At(f) /\ At(r) \in Nat /\ At(f) \in Nat
      BY <1>3, <3>1, <3>2, TimesDiffer
    <3>. QED
      BY <3>1, <3>3
  <2>4. cadence' \in 1..MaxTime
    BY <1>3, <1>6 DEF Intervals
  <2>5. /\ TypeOK' /\ RecordsFit' /\ ViewFits'
        /\ NothingAfterStart' /\ ResultIsNewest' /\ ShortMeansAll'
        /\ ViewHasNoGap'
    <3>1. /\ seed' \in {None} \cup Times
          /\ requests' \in 0..(MaxRequests - 1)
          /\ cut' \in BOOLEAN
      BY <1>1, <1>3 DEF TypeOK
    <3>. QED
      BY <1>1, <1>4, <1>6, <2>2, <2>4, <3>1, CallGoesOn
  <2>6. FundingFits'
    BY <1>1, <1>4, <1>6, <2>2, <2>3 DEF FundingFits
  <2>7. StagesFit' /\ WalkFits' /\ ForwardFits'
    BY <1>1, <1>6 DEF StagesFit, WalkFits, ForwardFits
  <2>. QED
    BY <2>5, <2>6, <2>7 DEF HistoryInv
<1>7. CASE stage' = "failed" /\ UNCHANGED <<collected, currentEnd, cadence, view>>
  <2>1. /\ TypeOK' /\ RecordsFit' /\ ViewFits'
        /\ NothingAfterStart' /\ ResultIsNewest' /\ ShortMeansAll'
        /\ ViewHasNoGap'
    <3>1. /\ seed' \in {None} \cup Times
          /\ requests' \in 0..(MaxRequests - 1)
          /\ cadence' \in 1..MaxTime
          /\ cut' \in BOOLEAN
          /\ currentEnd' = None
          /\ collected' \subseteq records
      BY <1>1, <1>3, <1>7 DEF TypeOK
    <3>. QED
      BY <1>1, <1>7, <3>1, CallGoesOn
  <2>2. StagesFit' /\ WalkFits' /\ FundingFits' /\ ForwardFits'
    BY <1>7 DEF StagesFit, WalkFits, FundingFits, ForwardFits
  <2>. QED
    BY <2>1, <2>2 DEF HistoryInv
<1>. QED
  BY <1>2, <1>5, <1>6, <1>7

\* A window of rates that fits in a page leaves none out; one that is empty is
\* the last, as a time before it would have to have a rate.
LEMMA FundingGoesOn ==
  HistoryInv /\ FundingPage => HistoryInv'
<1> SUFFICES ASSUME HistoryInv, FundingPage PROVE HistoryInv'
  OBVIOUS
<1> DEFINE from   == currentEnd + 1 - PerRequest * cadence
           window == Between(from, currentEnd)
           full   == Cardinality(window) > PerRequest
<1>1. /\ stage = "funding"
      /\ UNCHANGED <<call, now, records, start, limit, seed, cadence, known>>
  BY DEF FundingPage
<1>2. PICK page \in FundingPages(from, currentEnd, PerRequest) :
        LET all == collected \cup page
        IN  IF \/ page \subseteq collected
               \/ Cardinality(all) >= limit
               \/ requests + 1 = MaxRequests
            THEN /\ Finish(all)
                 /\ cut' = (\/ cut
                            \/ full
                            \/ /\ ~(page \subseteq collected)
                               /\ Cardinality(all) < limit)
                 /\ UNCHANGED <<currentEnd, requests>>
            ELSE /\ collected' = all
                 /\ currentEnd' = At(First(all)) - 1
                 /\ requests' = requests + 1
                 /\ cut' = (cut \/ full)
                 /\ UNCHANGED <<stage, view>>
  BY DEF FundingPage
<1> DEFINE all == collected \cup page
           last == \/ page \subseteq collected
                   \/ Cardinality(all) >= limit
                   \/ requests + 1 = MaxRequests
<1>3. /\ TypeOK /\ RecordsFit
      /\ now \in Nat
      /\ records \in SUBSET Numbers
      /\ \A r \in records : /\ r \in Nat /\ At(r) \in Nat
                            /\ 2 <= At(r) /\ At(r) <= now
      /\ known \subseteq records /\ collected \subseteq records
      /\ view \subseteq records
      /\ limit \in Nat \ {0}
      /\ PerRequest \in Nat \ {0}
      /\ None \notin Int
      /\ call = "binance_funding" /\ start = None
  BY <1>1, Typing DEF HistoryInv, StagesFit
<1>4. /\ collected # {} /\ collected \subseteq known
      /\ currentEnd \in Int
      /\ \A x \in collected : currentEnd < At(x)
      /\ cut \/ \A r \in known \ collected : At(r) <= currentEnd
      /\ cut \in BOOLEAN
  BY <1>1 DEF HistoryInv, FundingFits, TypeOK
<1>5. from \in Int /\ from <= currentEnd
  <2>1. PerRequest * cadence \in Nat /\ PerRequest * cadence >= 1
    <3>1. cadence \in Nat /\ cadence >= 1
      BY <1>3, Bounds DEF TypeOK
    <3>. QED
      BY <1>3, <3>1
  <2>. QED
    BY <1>4, <2>1
<1> HIDE DEF from
<1>6. /\ window \in SUBSET Numbers
      /\ \A r \in records : r \in window <=> from <= At(r) /\ At(r) <= currentEnd
      /\ window \subseteq records
  BY <1>3 DEF Between
<1>7. /\ page \subseteq window
      /\ ~full => page = window
  <2>1. page \in {Newest(window, PerRequest), Oldest(window, PerRequest)}
    BY DEF FundingPages
  <2>2. ~full => Cardinality(window) <= PerRequest
    <3>1. Cardinality(window) \in Nat
      BY <1>6, SubsetsAreFinite
    <3> HIDE DEF window
    <3>. QED
      BY <1>3, <3>1
  <2> HIDE DEF window, full
  <2>. QED
    BY <1>3, <1>6, <2>1, <2>2, NewestGives, OldestGives
<1>8. /\ last => /\ Finish(all)
                 /\ cut' = (\/ cut
                            \/ full
                            \/ /\ ~(page \subseteq collected)
                               /\ Cardinality(all) < limit)
                 /\ UNCHANGED <<currentEnd, requests>>
      /\ ~last => /\ collected' = all
                  /\ currentEnd' = At(First(all)) - 1
                  /\ requests' = requests + 1
                  /\ cut' = (cut \/ full)
                  /\ UNCHANGED <<stage, view>>
  BY <1>2
<1>9. PICK x0 \in collected : x0 \in known /\ x0 \in records /\ currentEnd < At(x0)
  BY <1>3, <1>4
<1>10. all \subseteq known /\ all # {} /\ view \subseteq known
  <2>1. ASSUME NEW p \in page PROVE p \in known
    BY <1>3, <1>4, <1>6, <1>7, <1>9 DEF RecordsFit
  <2>2. view \subseteq known
    BY <1>1, <1>4 DEF HistoryInv, ViewFits
  <2>. QED
    BY <1>4, <2>1, <2>2
<1>11. \A x \in all : from <= At(x) /\ x \in records
  BY <1>3, <1>4, <1>5, <1>6, <1>7
<1>12. ~cut /\ ~full => \A r \in known \ all : At(r) < from
  <2> SUFFICES ASSUME ~cut, ~full, NEW r \in known \ all PROVE At(r) < from
    OBVIOUS
  <2>1. r \in records /\ At(r) <= currentEnd /\ r \notin window
    BY <1>3, <1>4, <1>7
  <2>. QED
    BY <1>3, <1>5, <1>6, <2>1
<1> HIDE DEF window, full
<1>13. CASE last
  <2>1. /\ Finish(all)
        /\ cut' = (\/ cut
                   \/ full
                   \/ ~(page \subseteq collected) /\ Cardinality(all) < limit)
        /\ UNCHANGED <<currentEnd, requests>>
    BY <1>8, <1>13
  <2> HIDE DEF last
  <2>2. MayMissNewest' \/ NoGap(Wanted(known'), all)
    <3>1. CASE cut'
      BY <1>1, <1>3, <3>1 DEF MayMissNewest
    <3>2. CASE ~cut'
      <4>1. \A r \in known \ all : At(r) < from
        BY <1>12, <2>1, <3>2
      <4>2. \A r \in known \ all, x \in all : At(r) <= At(x)
        BY <1>3, <1>5, <1>11, <4>1
      <4>. QED
        BY <1>1, <4>2 DEF NoGap, Wanted
    <3>. QED
      BY <3>1, <3>2
  <2>3. /\ ~cut'
        /\ call # "kraken_spot"
        /\ Cardinality(all) < limit
        /\ Windowed => Dense(LastTime)'
        => Asked' \subseteq all
    <3> SUFFICES ASSUME ~cut', Cardinality(all) < limit,
                        Windowed => Dense(LastTime)',
                        NEW r \in known, r \notin all
                 PROVE  FALSE
      BY <1>1, <1>3 DEF Asked
    <3>1. page \subseteq collected /\ ~cut /\ ~full
      BY <1>4, <2>1
    <3>2. window = {}
      BY <1>3, <1>4, <1>6, <1>7, <3>1
    <3>3. /\ r \in records /\ At(r) \in Nat /\ 2 <= At(r) /\ At(r) <= currentEnd
          /\ currentEnd <= now
      BY <1>3, <1>4, <1>9, <3>1
    <3>4. currentEnd \in 2..now
      BY <1>3, <1>4, <3>3
    <3>5. \A t \in 2..now : \E y \in known : At(y) = t
      BY <1>1, <1>3 DEF Windowed, Dense, LastTime
    <3>6. PICK y \in known : At(y) = currentEnd
      BY <3>4, <3>5
    <3>7. y \in window
      BY <1>3, <1>4, <1>5, <1>6, <3>6
    <3>. QED
      BY <3>2, <3>7
  <2>4. /\ all \in SUBSET records
        /\ cut' \in BOOLEAN
        /\ known' \in {known, records}
        /\ all \subseteq known'
        /\ \A x \in all : Given(start) => At(x) <= start
        /\ view # {} => start = At(First(view))
        /\ view \subseteq known'
    BY <1>1, <1>3, <1>4, <1>10, <2>1 DEF HistoryInv, ViewFits, Given
  <2> HIDE DEF all
  <2>. QED
    BY <1>1, <2>1, <2>2, <2>3, <2>4, FinishGives
<1>14. CASE ~last
  <2>1. /\ collected' = all
        /\ currentEnd' = At(First(all)) - 1
        /\ requests' = requests + 1
        /\ cut' = (cut \/ full)
        /\ UNCHANGED <<stage, view>>
    BY <1>8, <1>14
  <2>2. requests' \in 0..(MaxRequests - 1)
    BY <1>3, <1>14, <2>1, Bounds DEF TypeOK
  <2> HIDE DEF last, all
  <2>3. First(all) \in all /\ \A x \in all : At(First(all)) <= At(x)
    <3>1. all \in SUBSET Numbers
      BY <1>3, <1>11
    <3>. QED
      BY <1>10, <3>1, FirstGives
  <2>4. /\ currentEnd' \in Int
        /\ from - 1 <= currentEnd'
        /\ \A x \in all : currentEnd' < At(x)
    BY <1>3, <1>5, <1>11, <2>1, <2>3
  <2>5. cut' \/ \A r \in known \ all : At(r) <= currentEnd'
    <3>1. CASE cut \/ full
      BY <2>1, <3>1
    <3>2. CASE ~cut /\ ~full
      BY <1>3, <1>5, <1>12, <2>4, <3>2
    <3>. QED
      BY <3>1, <3>2
  <2>6. /\ TypeOK' /\ RecordsFit' /\ ViewFits'
        /\ NothingAfterStart' /\ ResultIsNewest' /\ ShortMeansAll'
        /\ ViewHasNoGap'
    <3>1. /\ seed' \in {None} \cup Times
          /\ cadence' \in 1..MaxTime
          /\ cut' \in BOOLEAN
          /\ collected' \subseteq records
      BY <1>1, <1>3, <1>4, <1>11, <2>1 DEF TypeOK, full
    <3>. QED
      BY <1>1, <2>1, <2>2, <2>4, <3>1, CallGoesOn
  <2>7. FundingFits'
    BY <1>1, <1>10, <2>1, <2>4, <2>5 DEF FundingFits
  <2>8. StagesFit' /\ WalkFits' /\ ForwardFits'
    BY <1>1, <2>1 DEF HistoryInv, StagesFit, WalkFits, ForwardFits
  <2>. QED
    BY <2>6, <2>7, <2>8 DEF HistoryInv
<1>. QED
  BY <1>13, <1>14

-----------------------------------------------------------------------------
(* Kraken's candles *)

\* The newest of some records.
LEMMA LastGives ==
  ASSUME NEW S \in SUBSET Numbers, S # {},
         NEW m, m = CHOOSE r \in S : \A x \in S : x <= r
  PROVE  m \in S /\ \A x \in S : x <= m
<1>1. S \subseteq Int /\ 2 * MaxTime + 1 \in Int /\ \A x \in S : x <= 2 * MaxTime + 1
  BY Bounds DEF Numbers
<1>2. \E g \in S : \A x \in S : x <= g
  BY <1>1, Greatest
<1>. QED
  BY <1>2

\* A page of the oldest candles from a time on ends where the next one begins.
\* When a page is not full, all candles from the first time on are there.
LEMMA ForwardGoesOn ==
  HistoryInv /\ ForwardPage => HistoryInv'
<1> SUFFICES ASSUME HistoryInv, ForwardPage PROVE HistoryInv'
  OBVIOUS
<1> DEFINE window == Between(currentEnd, now)
           page   == Oldest(window, PerRequest)
           all    == collected \cup page
           m      == CHOOSE r \in page : \A x \in page : x <= r
           ends   == \/ page \subseteq collected
                     \/ At(m) >= seed - 1
                     \/ requests + 1 = MaxRequests
<1>1. /\ stage = "forward"
      /\ known' = Seen
      /\ UNCHANGED <<call, now, records, start, limit, seed, cadence>>
      /\ ends => /\ Finish(NotAfterStart(all))
                 /\ cut' = (Cardinality(page) = PerRequest)
                 /\ UNCHANGED <<currentEnd, requests>>
      /\ ~ends => /\ collected' = all
                  /\ currentEnd' = At(m) + 1
                  /\ requests' = requests + 1
                  /\ UNCHANGED <<stage, cut, view>>
  BY DEF ForwardPage, Known, Seen
<1>2. /\ TypeOK /\ RecordsFit
      /\ now \in Nat
      /\ records \in SUBSET Numbers
      /\ \A r \in records : /\ r \in Nat /\ At(r) \in Nat
                            /\ 2 <= At(r) /\ At(r) <= now
      /\ known \subseteq records /\ collected \subseteq records
      /\ view \subseteq records
      /\ limit \in Nat \ {0}
      /\ start = None \/ start \in Nat
      /\ PerRequest \in Nat \ {0}
      /\ None \notin Int
      /\ LastTime \in Nat
      /\ call = "kraken_candles"
      /\ ~Ties
  BY <1>1, Typing DEF HistoryInv, StagesFit, Ties
<1>3. /\ currentEnd \in Int
      /\ seed - limit <= currentEnd
      /\ IF Given(start) THEN seed = start ELSE seed \in Int /\ seed <= now + 1
      /\ \A x \in collected : seed - limit <= At(x)
      /\ \A r \in records \ collected :
           At(r) < seed - limit \/ currentEnd <= At(r)
  BY <1>1 DEF HistoryInv, ForwardFits
<1>4. seed \in Int /\ seed - limit \in Int
  BY <1>2, <1>3 DEF Given
<1>5. /\ window \in SUBSET Numbers /\ window \subseteq records
      /\ \A r \in records : r \in window <=> currentEnd <= At(r)
  BY <1>2 DEF Between
<1>6. /\ page \subseteq window
      /\ Cardinality(page) <= PerRequest
      /\ Cardinality(page) < PerRequest => page = window
      /\ \A r \in window \ page, x \in page : x < r
  <2> HIDE DEF window
  <2>. QED
    BY <1>2, <1>5, OldestGives
<1>7. Cardinality(page) \in Nat
  <2> HIDE DEF page, window
  <2>1. page \in SUBSET Numbers
    BY <1>5, <1>6
  <2>. QED
    BY <2>1, SubsetsAreFinite
<1> HIDE DEF window, page
<1>8. all \subseteq records /\ \A x \in all : seed - limit <= At(x)
  BY <1>2, <1>3, <1>4, <1>5, <1>6
<1>9. Seen \in {known, records} /\ Seen \subseteq records
  BY <1>2 DEF Seen
<1> HIDE DEF m
<1>10. CASE ends
  <2> DEFINE kept == NotAfterStart(all)
  <2>1. /\ Finish(kept)
        /\ cut' = (Cardinality(page) = PerRequest)
        /\ UNCHANGED <<currentEnd, requests>>
    BY <1>1, <1>10
  <2>2. kept = Wanted(all)
    BY <1>2, NotAfterStartGives
  <2> HIDE DEF kept, ends
  <2>3. ~cut' => \A r \in records \ all : At(r) < seed - limit
    <3> SUFFICES ASSUME ~cut', NEW r \in records \ all PROVE At(r) < seed - limit
      OBVIOUS
    <3>1. page = window
      <4>1. Cardinality(page) # PerRequest
        BY <2>1
      <4>2. Cardinality(page) < PerRequest
        BY <1>2, <1>6, <1>7, <4>1
      <4>. QED
        BY <1>6, <4>2
    <3>2. r \notin window /\ r \notin collected /\ ~(currentEnd <= At(r))
      BY <1>5, <3>1
    <3>. QED
      BY <1>3, <3>2
  <2>4. MayMissNewest' \/ NoGap(Wanted(known'), kept)
    <3>1. CASE cut'
      BY <1>1, <1>2, <3>1 DEF MayMissNewest
    <3>2. CASE ~cut'
      <4> SUFFICES ASSUME NEW r \in Wanted(known') \ kept, NEW x \in kept
                   PROVE  At(r) <= At(x)
        BY DEF NoGap
      <4>1. /\ r \in records /\ r \notin all /\ At(r) \in Nat
            /\ x \in all /\ x \in records /\ At(x) \in Nat
        BY <1>1, <1>2, <1>8, <1>9, <2>2 DEF Wanted
      <4>. QED
        BY <1>4, <1>8, <2>3, <3>2, <4>1
    <3>. QED
      BY <3>1, <3>2
  <2>5. /\ ~cut'
        /\ call # "kraken_spot"
        /\ Cardinality(kept) < limit
        /\ Windowed => Dense(LastTime)'
        => Asked' \subseteq kept
    <3> SUFFICES ASSUME ~cut', Cardinality(kept) < limit,
                        Windowed => Dense(LastTime)',
                        NEW r \in Asked'
                 PROVE  r \in kept
      OBVIOUS
    <3>1. /\ r \in records /\ At(r) \in Nat /\ 2 <= At(r)
          /\ start = None \/ At(r) <= start
      BY <1>1, <1>2, <1>9 DEF Asked
    <3>2. /\ start # None => Given(start)
          /\ LastTime = IF Given(start) THEN start ELSE now
      BY <1>2, <3>1 DEF Given, LastTime
    <3>3. NoneMissing
      <4>1. \A t \in 2..LastTime : \E x \in known' : At(x) = t
        BY <1>1, <1>2 DEF Windowed, Dense, LastTime
      <4>. QED
        BY <1>1, <1>9, <4>1 DEF NoneMissing
    <3>4. seed - limit <= LastTime + 1 - limit
      <4>1. seed <= LastTime + 1
        BY <1>2, <1>3, <1>4, <3>2
      <4>. QED
        BY <1>2, <1>4, <4>1
    <3>5. \A x \in records : seed - limit <= At(x) /\ At(x) <= LastTime => x \in kept
      <4> SUFFICES ASSUME NEW x \in records, seed - limit <= At(x), At(x) <= LastTime
                   PROVE  x \in kept
        OBVIOUS
      <4>1. x \in all
        BY <1>2, <1>4, <2>3
      <4>. QED
        BY <2>2, <3>2, <4>1 DEF Wanted
    <3>6. At(r) <= LastTime
      BY <1>2, <3>1, <3>2 DEF Given
    <3>7. kept \in SUBSET records
      BY <1>8, <2>2 DEF Wanted
    <3>. QED
      BY <1>4, <3>1, <3>3, <3>4, <3>5, <3>6, <3>7, WindowHasAll
  <2>6. /\ kept \in SUBSET records
        /\ \A x \in kept : Given(start) => At(x) <= start
        /\ cut' \in BOOLEAN
        /\ known' \in {known, records}
        /\ view # {} => start = At(First(view))
    BY <1>1, <1>8, <1>9, <2>1, <2>2 DEF HistoryInv, ViewFits, Wanted
  <2>. QED
    BY <1>1, <1>2, <2>1, <2>4, <2>5, <2>6, FinishGives
<1>11. CASE ~ends
  <2>1. page # {} /\ requests + 1 # MaxRequests
    BY <1>11
  <2>2. /\ collected' = all
        /\ currentEnd' = At(m) + 1
        /\ requests' = requests + 1
        /\ UNCHANGED <<stage, cut, view>>
    BY <1>1, <1>11
  <2>3. requests' \in 0..(MaxRequests - 1)
    BY <1>2, <2>1, <2>2, Bounds DEF TypeOK
  <2> HIDE DEF ends
  <2>4. m \in page /\ \A x \in page : x <= m
    <3>1. page \in SUBSET Numbers
      BY <1>5, <1>6
    <3>. QED
      BY <2>1, <3>1, LastGives DEF m
  <2>5. /\ m \in records /\ At(m) \in Nat /\ At(m) <= now
        /\ currentEnd <= At(m)
    BY <1>2, <1>5, <1>6, <2>4
  <2>6. \A r \in records \ all : At(r) < seed - limit \/ At(m) + 1 <= At(r)
    <3> SUFFICES ASSUME NEW r \in records \ all, ~(At(r) < seed - limit)
                 PROVE  At(m) + 1 <= At(r)
      OBVIOUS
    <3>1. r \in window /\ r \notin page
      BY <1>2, <1>3, <1>4, <1>5
    <3>2. m < r
      BY <1>6, <2>4, <3>1
    <3>3. At(m) < At(r)
      BY <1>2, <2>5, <3>2, TimesDiffer
    <3>. QED
      BY <1>2, <2>5, <3>3
  <2>7. /\ TypeOK' /\ RecordsFit' /\ ViewFits'
        /\ NothingAfterStart' /\ ResultIsNewest' /\ ShortMeansAll'
        /\ ViewHasNoGap'
    <3>1. /\ seed' \in {None} \cup Times
          /\ cadence' \in 1..MaxTime
          /\ cut' \in BOOLEAN
          /\ currentEnd' \in Int
          /\ collected' \subseteq records
      BY <1>1, <1>2, <1>8, <2>2, <2>5 DEF TypeOK
    <3>. QED
      BY <1>1, <1>9, <2>2, <2>3, <3>1, CallGoesOn
  <2>8. ForwardFits'
    <3>1. currentEnd' \in Int /\ seed - limit <= currentEnd' /\ currentEnd' <= now + 1
      BY <1>2, <1>3, <1>4, <2>2, <2>5
    <3> HIDE DEF all
    <3>. QED
      BY <1>1, <1>3, <1>8, <2>2, <2>6, <3>1 DEF ForwardFits, Given
  <2>9. StagesFit' /\ WalkFits' /\ FundingFits'
    BY <1>1, <2>2 DEF HistoryInv, StagesFit, WalkFits, FundingFits
  <2>. QED
    BY <2>7, <2>8, <2>9 DEF HistoryInv
<1>. QED
  BY <1>10, <1>11

-----------------------------------------------------------------------------
(* Failures *)

\* What a walk has when a request fails is as good as it ever was.
LEMMA CallFails ==
  HistoryInv /\ Fails => HistoryInv'
<1> SUFFICES ASSUME HistoryInv, Fails PROVE HistoryInv'
  OBVIOUS
<1> DEFINE all == NotAfterStart(collected)
<1>1. /\ \/ stage \in {"walk", "forward"}
         \/ stage = "single" /\ call = "liquidations"
      /\ Finish(all)
      /\ cut' = TRUE
      /\ UNCHANGED <<call, now, records, start, limit, seed, currentEnd,
                     cadence, requests, known>>
  BY DEF Fails
<1>2. /\ \A r \in records : At(r) \in Nat
      /\ known \subseteq records /\ collected \subseteq records
      /\ now \in Nat
  BY Typing
<1>3. /\ all \subseteq Wanted(collected)
      /\ stage = "walk" => all = collected
  <2>1. CASE call \in {"kraken_spot", "kraken_candles", "kraken_funding", "kraken_metrics"}
    <3>1. stage # "walk"
      BY <2>1 DEF HistoryInv, StagesFit, AlwaysWalk, WalksIfAsked
    <3>. QED
      BY <2>1, <3>1, NotAfterStartGives
  <2>2. CASE call \notin {"kraken_spot", "kraken_candles", "kraken_funding", "kraken_metrics"}
    <3>1. all = collected
      BY <2>2, NotAfterStartGives
    <3>2. stage # "forward"
      BY <2>2 DEF HistoryInv, StagesFit
    <3>3. CASE stage = "walk"
      BY <3>1, <3>3 DEF HistoryInv, WalkFits, Wanted
    <3>4. CASE stage = "single"
      BY <3>1, <3>4 DEF HistoryInv, StagesFit
    <3>. QED
      BY <1>1, <3>2, <3>3, <3>4
  <2>. QED
    BY <2>1, <2>2
<1> HIDE DEF all
<1>4. /\ all \in SUBSET records
      /\ \A x \in all : Given(start) => At(x) <= start
      /\ view # {} => start = At(First(view))
  BY <1>1, <1>2, <1>3 DEF Wanted, HistoryInv, ViewFits
<1>5. /\ MayMissNewest' \/ NoGap(Wanted(known'), all)
      /\ all \subseteq known' \/ call = "kraken_candles"
      /\ call = "kraken_candles" \/ all = {} \/ view \subseteq known'
  <2>1. CASE stage = "walk"
    <3>1. collected \subseteq known
      BY <2>1 DEF HistoryInv, WalkFits, Wanted
    <3>2. NoGap(Wanted(known), collected)
      <4> SUFFICES ASSUME NEW r \in Wanted(known) \ collected, NEW x \in collected
                   PROVE  At(r) <= At(x)
        BY DEF NoGap
      <4>1. Anchor \in 1..now /\ Anchor <= At(x) /\ At(r) <= Anchor
        BY <2>1 DEF HistoryInv, WalkFits
      <4>2. r \in records /\ x \in records
        BY <1>2 DEF Wanted
      <4>. QED
        BY <1>2, <4>1, <4>2
    <3>3. known = {} \/ view \subseteq known
      BY <2>1 DEF HistoryInv, ViewFits
    <3>4. Wanted(known') = Wanted(known)
      BY <1>1
    <3>. QED
      BY <1>1, <1>3, <2>1, <3>1, <3>2, <3>3, <3>4
  <2>2. CASE stage = "forward"
    <3>1. call = "kraken_candles"
      BY <2>2 DEF HistoryInv, StagesFit
    <3>. QED
      BY <1>1, <3>1 DEF MayMissNewest
  <2>3. CASE stage = "single"
    <3>1. all = {}
      BY <1>3, <2>3 DEF HistoryInv, StagesFit, Wanted
    <3>. QED
      BY <3>1 DEF NoGap
  <2>. QED
    BY <1>1, <2>1, <2>2, <2>3
<1>6. cut' \in BOOLEAN /\ known' \in {known, records}
  BY <1>1
<1>. QED
  BY <1>1, <1>4, <1>5, <1>6, FinishGives

\* A call that is an error has no answer, and its client keeps its view.
LEMMA CallRaises ==
  HistoryInv /\ Raises => HistoryInv'
<1> SUFFICES ASSUME HistoryInv, Raises PROVE HistoryInv'
  OBVIOUS
<1>1. /\ stage \in {"single", "recent", "walk", "funding", "forward"}
      /\ stage' = "failed" /\ collected' = {}
      /\ UNCHANGED <<call, now, records, start, limit, seed, currentEnd,
                     cadence, requests, cut, known, view>>
  BY DEF Raises
<1>2. /\ TypeOK' /\ RecordsFit' /\ ViewFits'
      /\ NothingAfterStart' /\ ResultIsNewest' /\ ShortMeansAll'
      /\ ViewHasNoGap'
  <2>1. /\ seed' \in {None} \cup Times
        /\ currentEnd' = None \/ currentEnd' \in Int
        /\ cadence' \in 1..MaxTime
        /\ requests' \in 0..(MaxRequests - 1)
        /\ cut' \in BOOLEAN
    BY <1>1 DEF HistoryInv, TypeOK
  <2>. QED
    BY <1>1, <2>1, CallGoesOn
<1>3. StagesFit' /\ WalkFits' /\ FundingFits' /\ ForwardFits'
  BY <1>1 DEF StagesFit, WalkFits, FundingFits, ForwardFits
<1>. QED
  BY <1>2, <1>3 DEF HistoryInv

-----------------------------------------------------------------------------
(* The theorems *)

\* Nothing is asked for at first.
LEMMA HistoryStarts ==
  Init => HistoryInv
<1> SUFFICES ASSUME Init PROVE HistoryInv
  OBVIOUS
<1>0. /\ Past \in Nat /\ Past > 0 /\ MaxTime \in Nat /\ Past <= MaxTime
      /\ MaxRequests \in Nat /\ MaxRequests > 0 /\ MaxTime > 0
      /\ None \notin Int
  BY Bounds
<1>1. \A r \in records : /\ r \in Nat /\ At(r) \in 2..now /\ At(r) \in 1..MaxTime
                         /\ Ties \/ r % 2 = 0
  <2> SUFFICES ASSUME NEW r \in records
               PROVE  /\ r \in Nat /\ At(r) \in 2..now /\ At(r) \in 1..MaxTime
                      /\ Ties \/ r % 2 = 0
    OBVIOUS
  <2>1. PICK t \in 2..Past : r \in RecordsAt(t)
    BY DEF Init
  <2>2. r \in {2 * t, 2 * t + 1} /\ (Ties \/ r = 2 * t) /\ t \in Nat
    BY <1>0, <2>1 DEF RecordsAt
  <2>3. r \in Nat /\ At(r) = t
    <3>1. r \in Nat
      BY <2>2
    <3>. QED
      BY <2>2, <3>1, TimeOfRecord
  <2>. QED
    BY <1>0, <2>1, <2>2, <2>3 DEF Init
<1>2. TypeOK
  <2>1. \A S \in {records, collected, known, view} :
           \A r \in S : At(r) \in 1..MaxTime
    BY <1>1 DEF Init
  <2>2. /\ now \in Past..MaxTime /\ cadence \in 1..MaxTime
        /\ requests \in 0..(MaxRequests - 1)
        /\ start \in Starts /\ seed \in {None} \cup Times
        /\ currentEnd = None
    BY <1>0 DEF Init, Starts
  <2>. QED
    BY <2>1, <2>2 DEF Init, TypeOK
<1>3. RecordsFit
  BY <1>1 DEF Init, RecordsFit
<1>4. StagesFit /\ WalkFits /\ FundingFits /\ ForwardFits /\ ViewFits
  BY DEF Init, StagesFit, WalkFits, FundingFits, ForwardFits, ViewFits
<1>5. NothingAfterStart /\ ResultIsNewest /\ ShortMeansAll /\ ViewHasNoGap
  BY DEF Init, NothingAfterStart, ResultIsNewest, ShortMeansAll, ViewHasNoGap
<1>. QED
  BY <1>2, <1>3, <1>4, <1>5 DEF HistoryInv

\* Nothing changes.
LEMMA NothingHappens ==
  HistoryInv /\ UNCHANGED vars => HistoryInv'
<1> SUFFICES ASSUME HistoryInv, UNCHANGED vars PROVE HistoryInv'
  OBVIOUS
<1>1. UNCHANGED <<call, now, records, start, limit, stage, seed, currentEnd,
                  cadence, requests, collected, cut, known, view>>
  BY DEF vars, callVars
<1>2. TypeOK' /\ RecordsFit' /\ StagesFit' /\ FundingFits' /\ ViewFits'
  BY <1>1 DEF HistoryInv, TypeOK, RecordsFit, StagesFit, FundingFits, ViewFits, Ties
<1>3. WalkFits' /\ ForwardFits'
  BY <1>1 DEF HistoryInv, WalkFits, ForwardFits, Anchor, Wanted, Given
<1>4. NothingAfterStart' /\ ResultIsNewest' /\ ViewHasNoGap'
  BY <1>1 DEF HistoryInv, NothingAfterStart, ResultIsNewest, ViewHasNoGap,
              MayMissNewest, Asked, Given
<1>5. ShortMeansAll'
  BY <1>1 DEF HistoryInv, ShortMeansAll, Asked, Windowed, Dense
<1>. QED
  BY <1>2, <1>3, <1>4, <1>5 DEF HistoryInv

\* The invariant holds of all that a client and an adapter do.
THEOREM HistoryIsSound ==
  Spec => []HistoryInv
<1>1. HistoryInv /\ [Next]_vars => HistoryInv'
  <2> SUFFICES ASSUME HistoryInv, [Next]_vars PROVE HistoryInv'
    OBVIOUS
  <2>1. CASE Arrives
    BY <2>1, RecordsArrive
  <2>2. CASE Asks \/ AsksOlder
    BY <2>2, ClientAsks
  <2>3. CASE Single
    BY <2>3, SingleAnswers
  <2>4. CASE WalkPage
    BY <2>4, WalkGoesOn
  <2>5. CASE Recent
    BY <2>5, RecentAnswers
  <2>6. CASE RecentFunding
    BY <2>6, RecentFundingAnswers
  <2>7. CASE FundingPage
    BY <2>7, FundingGoesOn
  <2>8. CASE ForwardPage
    BY <2>8, ForwardGoesOn
  <2>9. CASE Fails
    BY <2>9, CallFails
  <2>10. CASE Raises
    BY <2>10, CallRaises
  <2>11. CASE Terminated \/ UNCHANGED vars
    BY <2>11, NothingHappens DEF Terminated
  <2>. QED
    BY <2>1, <2>2, <2>3, <2>4, <2>5, <2>6, <2>7, <2>8, <2>9, <2>10, <2>11
       DEF Next
<1>. QED
  BY HistoryStarts, <1>1, PTL DEF Spec

\* An answer has the newest records at or before its start, at most limit of
\* them, and none that is later, whichever request of a walk fails and whatever
\* arrives meanwhile: "Up to N records with timestamp <= X".
THEOREM AnswersStayRight ==
  Spec => []AnswersAreRight
<1>1. HistoryInv => AnswersAreRight
  BY DEF HistoryInv, AnswersAreRight
<1>. QED
  BY <1>1, HistoryIsSound, PTL

\* An answer that is shorter than its limit has all there is, if no request
\* failed and no cap was reached; of windows of time, if no time lacks a record.
THEOREM ShortAnswersHaveAll ==
  Spec => []ShortMeansAll
<1>1. HistoryInv => ShortMeansAll
  BY DEF HistoryInv
<1>. QED
  BY <1>1, HistoryIsSound, PTL

\* A client that asks for what is older than its oldest record, again and again,
\* has a view that lacks nothing between its records.
THEOREM ViewsHaveNoGap ==
  Spec => []ViewHasNoGap
<1>1. HistoryInv => ViewHasNoGap
  BY DEF HistoryInv
<1>. QED
  BY <1>1, HistoryIsSound, PTL

=============================================================================
