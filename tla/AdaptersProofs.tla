--------------------------- MODULE AdaptersProofs ---------------------------
(***************************************************************************)
(* Proofs about the adapters' pool of hubs, cached snapshots, info caches  *)
(* and quotes, for any sets of consumers and calls, any bounds, prices and *)
(* contract sizes.                                                         *)
(*                                                                         *)
(* None of what the run checks is inductive.  The pool's tables agree with *)
(* the holders only as each of them is exact for every topic (PoolInv); a  *)
(* range holds its price only as no step makes it younger than its candles *)
(* (SnapInv); and an info cache that passes for fresh is recent only as a  *)
(* lock lets one coroutine fetch at a time, who found nothing fresh under  *)
(* it and has counted the time since (InfoInv).  Quotes are true route by  *)
(* route, given the listing that the stream has opened with (QuoteInv).    *)
(***************************************************************************)
EXTENDS MCAdapters, FiniteSetTheorems, SequenceTheorems, TLAPS

\* The consumers who hold a subscription to t.
Holders(t) == {c \in Consumers : stage[c] # "idle" /\ wanted[c] = t}

\* A topic is counted, has its payload and a hub, and fills a slot of that hub,
\* for as long as it has holders.
PoolExact ==
    adapter = "hyperliquid" =>
        \A t \in Pool!Topics :
            /\ IsFiniteSet(Holders(t))
            /\ refs[t] = Cardinality(Holders(t))
            /\ \A c \in Holders(t) : hub[c] = topicHub[t]
            /\ \A h \in Pool!Hubs : t \in slots[h] <=> h = topicHub[t]
            /\ payloads[t] # Pool!None <=> Holders(t) # {}
            /\ topicHub[t] # 0 <=> Holders(t) # {}

\* No Hyperliquid hub has more topics than the exchange allows.
SlotsFit ==
    adapter = "hyperliquid" =>
        \A h \in Pool!Hubs : Cardinality(slots[h]) <= MaxSubs

\* Payloads and announcements are of their topic
TopicsKept ==
    /\ \A t \in Pool!Topics : payloads[t] \in {Pool!None, t}
    /\ \A h \in Pool!Hubs, t \in Pool!Topics : announced[h][t] \in {Pool!None, t}
    /\ Pool!HasTable => \A c \in Consumers :
           Pool!HasQueue(c) => payloads[wanted[c]] = wanted[c]

\* Somebody waits to announce a queue that is not announced yet, or has lost.
QueuesAnnounced ==
    \A h \in up, t \in Pool!Topics :
        Pool!Queues(h, t) # {} /\ announced[h][t] = Pool!None =>
            \E d \in Pool!Queues(h, t) : stage[d] \in {"waiting", "lost"}

\* Only Hyperliquid's consumers have something to release.
OnlyPoolReleases ==
    \A c \in Consumers : stage[c] = "releasing" => adapter = "hyperliquid"

PoolInv ==
    /\ adapter # "kraken"
    /\ Pool!TypeOK
    /\ OnlyPoolReleases
    /\ PoolExact
    /\ SlotsFit
    /\ TopicsKept
    /\ QueuesAnnounced

USE HubsAssumption

\* The instance's cardinality is the library's.
LEMMA SameCardinality ==
  ASSUME NEW S
  PROVE  Pool!Cardinality(S) = Cardinality(S)
BY DEF Pool!Cardinality, Cardinality

\* There are finitely many topics.
LEMMA TopicsFinite ==
  ASSUME NEW S \in SUBSET Pool!Topics
  PROVE  IsFiniteSet(S)
<1>1. IsFiniteSet({})
  BY FS_EmptySet
<1>2. IsFiniteSet({} \cup {"ticker"})
  BY <1>1, FS_AddElement
<1>3. IsFiniteSet(({} \cup {"ticker"}) \cup {"ticker_bbo"})
  BY <1>2, FS_AddElement
<1>4. IsFiniteSet((({} \cup {"ticker"}) \cup {"ticker_bbo"}) \cup {"trade"})
  BY <1>3, FS_AddElement
<1>5. Pool!Topics = (({} \cup {"ticker"}) \cup {"ticker_bbo"}) \cup {"trade"}
  BY DEF Pool!Topics, Pool!Wants
<1>. QED
  BY <1>4, <1>5, FS_Subset

\* The pool begins empty.
LEMMA PoolInit == 
  ASSUME "kraken" \notin PoolAdapters, Pool!Init
  PROVE  PoolInv
<1>1. \A t : Holders(t) = {}
  BY DEF Pool!Init, Holders
<1>2. Cardinality({}) = 0 /\ IsFiniteSet({})
  BY FS_EmptySet
<1>3. Pool!TypeOK
  <2>1. /\ topicHub \in [Pool!Topics -> 0..MaxHubs]
        /\ refs \in [Pool!Topics -> Nat]
        /\ hub \in [Consumers -> Pool!Hubs]
        /\ wanted \in [Consumers -> Pool!Wants]
    BY DEF Pool!Init, Pool!Hubs, Pool!Wants
  <2>2. /\ payloads \in [Pool!Topics -> Pool!Wants \cup {Pool!None}]
        /\ slots \in [Pool!Hubs -> SUBSET Pool!Topics]
        /\ announced \in [Pool!Hubs -> [Pool!Topics -> Pool!Wants \cup {Pool!None}]]
    BY DEF Pool!Init
  <2>. QED
    BY <2>1, <2>2 DEF Pool!Init, Pool!TypeOK
<1>4. PoolExact
  BY <1>1, <1>2 DEF PoolExact, Pool!Init, Pool!Hubs
<1>5. SlotsFit
  BY <1>2 DEF SlotsFit, Pool!Init
<1>6. TopicsKept
  BY DEF TopicsKept, Pool!Init, Pool!HasQueue
<1>7. QueuesAnnounced /\ OnlyPoolReleases
  BY DEF QueuesAnnounced, OnlyPoolReleases, Pool!Init
<1>. QED
  BY <1>3, <1>4, <1>5, <1>6, <1>7 DEF PoolInv, Pool!Init

USE DEF Pool!TopicOf

\* What takes nobody in or out of the pool keeps its counts.
LEMMA PoolCountsStay ==
  ASSUME PoolInv, Pool!TypeOK',
         UNCHANGED <<adapter, wanted, hub, refs, topicHub, slots, payloads>>,
         adapter = "hyperliquid" =>
             \A c \in Consumers : stage'[c] = "idle" <=> stage[c] = "idle"
  PROVE  PoolExact' /\ SlotsFit'
<1>1. adapter = "hyperliquid" => \A t \in Pool!Topics : Holders(t)' = Holders(t)
  BY DEF Holders
<1>2. PoolExact'
  BY <1>1 DEF PoolInv, PoolExact
<1>. QED
  BY <1>2 DEF PoolInv, SlotsFit

\* Opening a stream: its queue joins those of its topic, and waits if it is alone.
LEMMA RegistersJoins ==
  ASSUME PoolInv, NEW c \in Consumers, NEW w \in Pool!Wants, NEW h \in Pool!Hubs,
         stage[c] = "idle", Pool!Registers(c, w, h), adapter' = adapter
  PROVE  /\ wanted' \in [Consumers -> Pool!Wants]
         /\ hub' \in [Consumers -> Pool!Hubs]
         /\ stage' \in [Consumers -> {"idle", "waiting", "reading", "lost", "releasing"}]
         /\ wanted'[c] = w /\ hub'[c] = h
         /\ stage'[c] \in {"waiting", "reading"}
         /\ \A d \in Consumers \ {c} : /\ wanted'[d] = wanted[d]
                                       /\ hub'[d] = hub[d]
                                       /\ stage'[d] = stage[d]
         /\ Holders(w)' = Holders(w) \cup {c} /\ c \notin Holders(w)
         /\ \A t \in Pool!Topics \ {w} : Holders(t)' = Holders(t)
         /\ up' = up /\ announced' = announced => QueuesAnnounced'
         /\ OnlyPoolReleases'
<1>1. /\ wanted' = [wanted EXCEPT ![c] = w]
      /\ hub' = [hub EXCEPT ![c] = h]
      /\ stage' = [stage EXCEPT ![c] =
             IF Pool!Queues(h, w) = {} THEN "waiting" ELSE "reading"]
  BY DEF Pool!Registers, PoolInv
<1>2. /\ wanted' \in [Consumers -> Pool!Wants]
      /\ hub' \in [Consumers -> Pool!Hubs]
      /\ stage' \in [Consumers -> {"idle", "waiting", "reading", "lost", "releasing"}]
      /\ wanted'[c] = w /\ hub'[c] = h
      /\ stage'[c] = IF Pool!Queues(h, w) = {} THEN "waiting" ELSE "reading"
      /\ \A d \in Consumers \ {c} : /\ wanted'[d] = wanted[d]
                                    /\ hub'[d] = hub[d]
                                    /\ stage'[d] = stage[d]
  BY <1>1 DEF PoolInv, Pool!TypeOK
<1>3. /\ Holders(w)' = Holders(w) \cup {c} /\ c \notin Holders(w)
      /\ \A t \in Pool!Topics \ {w} : Holders(t)' = Holders(t)
  BY <1>2 DEF Holders
<1>4. /\ Pool!Queues(h, w)' = Pool!Queues(h, w) \cup {c}
      /\ c \notin Pool!Queues(h, w)
      /\ \A g \in Pool!Hubs, t \in Pool!Topics :
             g # h \/ t # w => Pool!Queues(g, t)' = Pool!Queues(g, t)
  BY <1>2 DEF Pool!Queues, Pool!HasQueue, PoolInv
<1>5. ASSUME up' = up, announced' = announced PROVE QueuesAnnounced'
  <2> SUFFICES ASSUME NEW g \in up, NEW t \in Pool!Topics,
                      Pool!Queues(g, t)' # {}, announced[g][t] = Pool!None
               PROVE  \E d \in Pool!Queues(g, t)' : stage'[d] \in {"waiting", "lost"}
    BY <1>5 DEF QueuesAnnounced
  <2>1. g \in Pool!Hubs
    BY DEF PoolInv, Pool!TypeOK
  <2>2. CASE g = h /\ t = w /\ Pool!Queues(g, t) = {}
    BY <1>2, <1>4, <2>2
  <2>3. CASE Pool!Queues(g, t) # {}
    <3>1. PICK d \in Pool!Queues(g, t) : stage[d] \in {"waiting", "lost"}
      BY <2>3 DEF PoolInv, QueuesAnnounced
    <3>2. d \in Consumers /\ d # c
      BY <3>1 DEF Pool!Queues
    <3>. QED
      BY <1>2, <1>4, <2>1, <3>1, <3>2
  <2>. QED
    BY <1>4, <2>1, <2>2, <2>3
<1>6. OnlyPoolReleases'
  BY <1>2 DEF PoolInv, OnlyPoolReleases
<1>. QED
  BY <1>2, <1>3, <1>5, <1>6

\* A consumer who opens a stream on an adapter with one hub gets that hub.
LEMMA OpensKeepsPool ==
  ASSUME PoolInv, NEW c \in Consumers, NEW w \in Pool!Wants, Pool!Opens(c, w)
  PROVE  PoolInv'
<1> DEFINE h == Pool!HubKey(w)
<1>1. /\ adapter # "hyperliquid" /\ stage[c] = "idle"
      /\ UNCHANGED <<adapter, refs, topicHub, slots, up, announced>>
      /\ payloads' = IF Pool!HasTable THEN [payloads EXCEPT ![w] = w] ELSE payloads
      /\ Pool!Registers(c, w, h)
  BY DEF Pool!Opens, PoolInv
<1>2. h \in Pool!Hubs
  BY DEF Pool!HubKey, Pool!Hubs, PoolInv
<1>3. /\ wanted' \in [Consumers -> Pool!Wants]
      /\ hub' \in [Consumers -> Pool!Hubs]
      /\ stage' \in [Consumers -> {"idle", "waiting", "reading", "lost", "releasing"}]
      /\ wanted'[c] = w
      /\ \A d \in Consumers \ {c} : wanted'[d] = wanted[d] /\ stage'[d] = stage[d]
      /\ QueuesAnnounced' /\ OnlyPoolReleases'
  BY <1>1, <1>2, RegistersJoins
<1>4. Pool!TypeOK'
  BY <1>1, <1>3 DEF Pool!TypeOK, PoolInv, Pool!Topics
<1>5. TopicsKept'
  BY <1>1, <1>3 DEF TopicsKept, PoolInv, Pool!TypeOK, Pool!HasQueue, Pool!HasTable,
     Pool!Topics
<1>. QED
  BY <1>1, <1>3, <1>4, <1>5 DEF PoolInv, PoolExact, SlotsFit

\* A topic that nobody holds gets a place in a hub with room.
LEMMA AssignsFits ==
  ASSUME PoolInv, NEW t \in Pool!Topics, NEW h \in Pool!HubsFor(t)
  PROVE  /\ h \in 1..MaxHubs
         /\ h \in Pool!Hubs
         /\ topicHub[t] # 0 => h = topicHub[t]
         /\ topicHub[t] = 0 => Cardinality(slots[h]) < MaxSubs
<1>1. 1..MaxHubs \subseteq Pool!Hubs
  BY DEF Pool!Hubs
<1>2. CASE topicHub[t] # 0
  <2>1. h = topicHub[t]
    BY <1>2 DEF Pool!HubsFor
  <2>2. topicHub[t] \in 0..MaxHubs
    BY DEF PoolInv, Pool!TypeOK
  <2>. QED
    BY <1>1, <1>2, <2>1, <2>2
<1>3. CASE topicHub[t] = 0
  <2>1. h \in 1..MaxHubs /\ Pool!HasRoom(h)
    BY <1>3 DEF Pool!HubsFor
  <2>2. Cardinality(slots[h]) < MaxSubs
    BY <2>1, SameCardinality DEF Pool!HasRoom
  <2>. QED
    BY <1>1, <1>3, <2>1, <2>2
<1>. QED
  BY <1>2, <1>3

\* Acquiring joins the hub of the topic, or gives the topic its place.
LEMMA AcquiresKeepsPool ==
  ASSUME PoolInv, NEW c \in Consumers, NEW t \in Pool!Wants, Pool!Acquires(c, t)
  PROVE  PoolInv'
<1>1. t \in Pool!Topics
  BY DEF Pool!Topics
<1>2. PICK h \in Pool!HubsFor(t) :
          /\ topicHub' = [topicHub EXCEPT ![t] = h]
          /\ slots' = [slots EXCEPT ![h] = @ \cup {t}]
          /\ Pool!Registers(c, t, h)
  BY DEF Pool!Acquires
<1>3. /\ h \in 1..MaxHubs /\ h \in Pool!Hubs
      /\ topicHub[t] # 0 => h = topicHub[t]
      /\ topicHub[t] = 0 => Cardinality(slots[h]) < MaxSubs
  BY <1>1, <1>2, AssignsFits
<1>4. /\ adapter = "hyperliquid" /\ stage[c] = "idle"
      /\ topicHub' = [topicHub EXCEPT ![t] = h]
      /\ slots' = [slots EXCEPT ![h] = @ \cup {t}]
      /\ payloads' = [payloads EXCEPT ![t] = t]
      /\ refs' = [refs EXCEPT ![t] = @ + 1]
      /\ Pool!Registers(c, t, h)
      /\ UNCHANGED <<adapter, up, announced>>
  BY <1>2 DEF Pool!Acquires
<1>5. /\ wanted' \in [Consumers -> Pool!Wants]
      /\ hub' \in [Consumers -> Pool!Hubs]
      /\ stage' \in [Consumers -> {"idle", "waiting", "reading", "lost", "releasing"}]
      /\ wanted'[c] = t /\ hub'[c] = h
      /\ stage'[c] \in {"waiting", "reading"}
      /\ \A d \in Consumers \ {c} : /\ wanted'[d] = wanted[d]
                                    /\ hub'[d] = hub[d]
                                    /\ stage'[d] = stage[d]
      /\ Holders(t)' = Holders(t) \cup {c} /\ c \notin Holders(t)
      /\ \A u \in Pool!Topics \ {t} : Holders(u)' = Holders(u)
      /\ QueuesAnnounced' /\ OnlyPoolReleases'
  BY <1>1, <1>3, <1>4, RegistersJoins
<1>6. Pool!TypeOK'
  BY <1>1, <1>3, <1>4, <1>5 DEF Pool!TypeOK, PoolInv, Pool!Topics
<1>7. /\ IsFiniteSet(Holders(t)) /\ refs[t] = Cardinality(Holders(t))
      /\ \A d \in Holders(t) : hub[d] = topicHub[t]
      /\ \A g \in Pool!Hubs : t \in slots[g] <=> g = topicHub[t]
      /\ topicHub[t] # 0 <=> Holders(t) # {}
  BY <1>1, <1>4 DEF PoolInv, PoolExact
<1>8. PoolExact'
  <2>1. /\ IsFiniteSet(Holders(t)')
        /\ Cardinality(Holders(t)') = Cardinality(Holders(t)) + 1
    BY <1>5, <1>7, FS_AddElement
  <2>2. refs'[t] = Cardinality(Holders(t)')
    BY <1>1, <1>4, <1>7, <2>1 DEF PoolInv, Pool!TypeOK
  <2>3. \A d \in Holders(t)' : hub'[d] = topicHub'[t]
    <3>1. topicHub'[t] = h
      BY <1>1, <1>4 DEF PoolInv, Pool!TypeOK
    <3>2. \A d \in Holders(t) : d \in Consumers /\ d # c /\ hub[d] = h
      BY <1>3, <1>5, <1>7 DEF Holders
    <3>. QED
      BY <1>5, <3>1, <3>2
  <2>4. \A g \in Pool!Hubs : t \in slots'[g] <=> g = topicHub'[t]
    BY <1>1, <1>3, <1>4, <1>7 DEF PoolInv, Pool!TypeOK, Pool!Hubs
  <2>5. /\ payloads'[t] = t /\ t # Pool!None
        /\ topicHub'[t] # 0 /\ Holders(t)' # {}
    <3>1. payloads'[t] = t /\ topicHub'[t] = h
      BY <1>1, <1>4 DEF PoolInv, Pool!TypeOK
    <3>2. t # Pool!None
      BY DEF Pool!Wants, Pool!None
    <3>. QED
      BY <1>3, <1>5, <3>1, <3>2
  <2>6. ASSUME NEW u \in Pool!Topics, u # t
        PROVE  /\ IsFiniteSet(Holders(u)')
               /\ refs'[u] = Cardinality(Holders(u)')
               /\ \A d \in Holders(u)' : hub'[d] = topicHub'[u]
               /\ \A g \in Pool!Hubs : u \in slots'[g] <=> g = topicHub'[u]
               /\ payloads'[u] # Pool!None <=> Holders(u)' # {}
               /\ topicHub'[u] # 0 <=> Holders(u)' # {}
    <3>1. /\ Holders(u)' = Holders(u)
          /\ refs'[u] = refs[u] /\ topicHub'[u] = topicHub[u]
          /\ payloads'[u] = payloads[u]
          /\ \A g \in Pool!Hubs : u \in slots'[g] <=> u \in slots[g]
      BY <1>1, <1>4, <1>5, <2>6 DEF PoolInv, Pool!TypeOK
    <3>2. \A d \in Holders(u) : hub'[d] = hub[d]
      BY <1>4, <1>5 DEF Holders
    <3>. QED
      BY <1>4, <3>1, <3>2 DEF PoolInv, PoolExact
  <2>. QED
    BY <2>1, <2>2, <2>3, <2>4, <2>5, <2>6 DEF PoolExact
<1>9. SlotsFit'
  <2>1. ASSUME NEW g \in Pool!Hubs, g # h PROVE Cardinality(slots'[g]) <= MaxSubs
    BY <1>4, <2>1 DEF PoolInv, Pool!TypeOK, SlotsFit
  <2>2. IsFiniteSet(slots[h]) /\ slots'[h] = slots[h] \cup {t}
    BY <1>3, <1>4, TopicsFinite DEF PoolInv, Pool!TypeOK
  <2>3. Cardinality(slots'[h]) <= MaxSubs
    <3>1. CASE topicHub[t] = 0
      <4>1. t \notin slots[h]
        BY <1>3, <1>7, <3>1
      <4>2. /\ Cardinality(slots'[h]) = Cardinality(slots[h]) + 1
            /\ Cardinality(slots[h]) \in Nat
        BY <2>2, <4>1, FS_AddElement, FS_CardinalityType
      <4>3. Cardinality(slots[h]) < MaxSubs
        BY <1>3, <3>1
      <4>. QED
        BY <4>2, <4>3
    <3>2. CASE topicHub[t] # 0
      <4>1. slots'[h] = slots[h]
        BY <1>3, <1>7, <2>2, <3>2
      <4>. QED
        BY <1>3, <1>4, <4>1 DEF PoolInv, SlotsFit
    <3>. QED
      BY <3>1, <3>2
  <2>. QED
    BY <2>1, <2>3 DEF SlotsFit
<1>10. TopicsKept'
  BY <1>1, <1>4, <1>5 DEF TopicsKept, PoolInv, Pool!TypeOK, Pool!HasQueue, Pool!HasTable,
     Pool!Topics
<1>. QED
  BY <1>4, <1>5, <1>6, <1>8, <1>9, <1>10 DEF PoolInv

\* What a hub sends for a topic that has a queue.
LEMMA SendsTopic ==
  ASSUME PoolInv, NEW h \in Pool!Hubs, NEW t \in Pool!Topics, Pool!Queues(h, t) # {}
  PROVE  Pool!SubPayload(t) = t /\ t # Pool!None
<1>1. PICK c \in Consumers : Pool!HasQueue(c) /\ wanted[c] = t
  BY DEF Pool!Queues, PoolInv
<1>. QED
  BY <1>1 DEF PoolInv, TopicsKept, Pool!SubPayload, Pool!Topics, Pool!Wants, Pool!None

\* The end of a wait keeps all queues where they are; a topic that is announced
\* then is its own payload.
LEMMA WaitEndsKeepPool ==
  ASSUME PoolInv, NEW c \in Consumers,
         Pool!Wakes(c) \/ Pool!TimesOut(c) \/ Pool!Cancelled(c)
  PROVE  PoolInv'
<1>1. /\ stage[c] = "waiting"
      /\ UNCHANGED <<adapter, wanted, hub, payloads, refs, topicHub, slots, up>>
      /\ hub[c] \in Pool!Hubs /\ wanted[c] \in Pool!Topics
      /\ c \in Pool!Queues(hub[c], wanted[c])
  BY DEF Pool!Wakes, Pool!TimesOut, Pool!Cancelled, PoolInv, Pool!TypeOK, Pool!Topics,
     Pool!Queues, Pool!HasQueue
<1>2. PICK v \in {"reading", "lost"} : stage' = [stage EXCEPT ![c] = v]
  BY DEF Pool!Wakes, Pool!TimesOut, Pool!Cancelled
<1>3. /\ stage' \in [Consumers -> {"idle", "waiting", "reading", "lost", "releasing"}]
      /\ stage'[c] \in {"reading", "lost"}
      /\ \A d \in Consumers \ {c} : stage'[d] = stage[d]
  BY <1>2 DEF PoolInv, Pool!TypeOK
<1>4. \A g, u : Pool!Queues(g, u)' = Pool!Queues(g, u)
  BY <1>1, <1>3 DEF Pool!Queues, Pool!HasQueue
<1>5. /\ announced' \in [Pool!Hubs -> [Pool!Topics -> Pool!Wants \cup {Pool!None}]]
      /\ \A g \in Pool!Hubs, u \in Pool!Topics :
             /\ announced'[g][u] \in {Pool!None, u}
             /\ announced'[g][u] = Pool!None => announced[g][u] = Pool!None
      /\ Pool!Wakes(c) => announced'[hub[c]][wanted[c]] # Pool!None
  <2>1. CASE announced' = announced /\ ~Pool!Wakes(c)
    BY <2>1 DEF PoolInv, Pool!TypeOK, TopicsKept
  <2>2. CASE Pool!Wakes(c)
    <3>1. Pool!SubPayload(wanted[c]) = wanted[c] /\ wanted[c] # Pool!None
      BY <1>1, SendsTopic
    <3>2. announced' = IF announced[hub[c]][wanted[c]] # Pool!None
                       THEN announced
                       ELSE [announced EXCEPT ![hub[c]][wanted[c]] = wanted[c]]
      BY <2>2, <3>1 DEF Pool!Wakes, PoolInv
    <3>3. CASE announced[hub[c]][wanted[c]] # Pool!None
      BY <3>2, <3>3 DEF PoolInv, Pool!TypeOK, TopicsKept
    <3>4. CASE announced[hub[c]][wanted[c]] = Pool!None
      BY <1>1, <3>1, <3>2, <3>4 DEF PoolInv, Pool!TypeOK, TopicsKept, Pool!Topics
    <3>. QED
      BY <3>3, <3>4
  <2>. QED
    BY <2>1, <2>2 DEF Pool!TimesOut, Pool!Cancelled
<1>6. Pool!TypeOK'
  BY <1>1, <1>3, <1>5 DEF PoolInv, Pool!TypeOK
<1>7. PoolExact' /\ SlotsFit'
  BY <1>1, <1>3, <1>6, PoolCountsStay
<1>8. TopicsKept' /\ OnlyPoolReleases'
  BY <1>1, <1>3, <1>5 DEF PoolInv, TopicsKept, OnlyPoolReleases, Pool!HasTable, Pool!HasQueue
<1>9. QueuesAnnounced'
  <2> SUFFICES ASSUME NEW g \in up, NEW u \in Pool!Topics,
                      Pool!Queues(g, u) # {}, announced'[g][u] = Pool!None
               PROVE  \E d \in Pool!Queues(g, u) : stage'[d] \in {"waiting", "lost"}
    BY <1>1, <1>4 DEF QueuesAnnounced
  <2>1. g \in Pool!Hubs
    BY DEF PoolInv, Pool!TypeOK
  <2>2. PICK d \in Pool!Queues(g, u) : stage[d] \in {"waiting", "lost"}
    BY <1>5, <2>1 DEF PoolInv, QueuesAnnounced
  <2>3. d \in Consumers /\ hub[d] = g /\ wanted[d] = u
    BY <2>2 DEF Pool!Queues, PoolInv
  <2>4. CASE d # c
    BY <1>3, <2>2, <2>3, <2>4
  <2>5. CASE d = c
    <3>1. Pool!Cancelled(c)
      BY <1>5, <2>3, <2>5 DEF Pool!TimesOut
    <3>. QED
      BY <1>3, <2>2, <2>3, <2>5, <3>1 DEF Pool!Cancelled, PoolInv, Pool!TypeOK
  <2>. QED
    BY <2>4, <2>5
<1>. QED
  BY <1>1, <1>6, <1>7, <1>8, <1>9 DEF PoolInv

\* Leaving a stream: a topic is withdrawn with its last queue, and its holders
\* are counted until it is released.
LEMMA LeavesKeepsPool ==
  ASSUME PoolInv, NEW c \in Consumers, Pool!Leaves(c)
  PROVE  PoolInv'
<1>1. /\ stage[c] = "reading"
      /\ UNCHANGED <<adapter, wanted, hub, payloads, refs, topicHub, slots, up>>
      /\ hub[c] \in Pool!Hubs /\ wanted[c] \in Pool!Topics
      /\ stage' = [stage EXCEPT ![c] =
             IF adapter = "hyperliquid" THEN "releasing" ELSE "idle"]
      /\ announced' = IF Pool!Queues(hub[c], wanted[c]) = {c}
                      THEN [announced EXCEPT ![hub[c]][wanted[c]] = Pool!None]
                      ELSE announced
  BY DEF Pool!Leaves, PoolInv, Pool!TypeOK, Pool!Topics
<1>2. /\ stage' \in [Consumers -> {"idle", "waiting", "reading", "lost", "releasing"}]
      /\ stage'[c] \in {"idle", "releasing"}
      /\ adapter = "hyperliquid" => stage'[c] = "releasing"
      /\ adapter # "hyperliquid" => stage'[c] = "idle"
      /\ \A d \in Consumers \ {c} : stage'[d] = stage[d]
  BY <1>1 DEF PoolInv, Pool!TypeOK
<1>3. \A g, u : Pool!Queues(g, u)' = Pool!Queues(g, u) \ {c}
  BY <1>1, <1>2 DEF Pool!Queues, Pool!HasQueue
<1>4. /\ announced' \in [Pool!Hubs -> [Pool!Topics -> Pool!Wants \cup {Pool!None}]]
      /\ \A g \in Pool!Hubs, u \in Pool!Topics :
             /\ announced'[g][u] \in {Pool!None, announced[g][u]}
             /\ Pool!Queues(g, u) \ {c} # {} => announced'[g][u] = announced[g][u]
  <2>1. CASE Pool!Queues(hub[c], wanted[c]) = {c}
    BY <1>1, <2>1 DEF PoolInv, Pool!TypeOK
  <2>2. CASE Pool!Queues(hub[c], wanted[c]) # {c}
    BY <1>1, <2>2 DEF PoolInv, Pool!TypeOK
  <2>. QED
    BY <2>1, <2>2
<1>5. Pool!TypeOK'
  BY <1>1, <1>2, <1>4 DEF PoolInv, Pool!TypeOK
<1>6. PoolExact' /\ SlotsFit'
  BY <1>1, <1>2, <1>5, PoolCountsStay
<1>7. TopicsKept' /\ OnlyPoolReleases'
  BY <1>1, <1>2, <1>4 DEF PoolInv, TopicsKept, OnlyPoolReleases, Pool!HasTable, Pool!HasQueue
<1>8. QueuesAnnounced'
  <2> SUFFICES ASSUME NEW g \in up, NEW u \in Pool!Topics,
                      Pool!Queues(g, u) \ {c} # {}, announced'[g][u] = Pool!None
               PROVE  \E d \in Pool!Queues(g, u) \ {c} : stage'[d] \in {"waiting", "lost"}
    BY <1>1, <1>3 DEF QueuesAnnounced
  <2>1. g \in Pool!Hubs
    BY DEF PoolInv, Pool!TypeOK
  <2>2. PICK d \in Pool!Queues(g, u) : stage[d] \in {"waiting", "lost"}
    BY <1>4, <2>1 DEF PoolInv, QueuesAnnounced
  <2>3. d \in Consumers /\ d # c
    BY <1>1, <2>2 DEF Pool!Queues
  <2>. QED
    BY <1>2, <2>2, <2>3
<1>. QED
  BY <1>1, <1>5, <1>6, <1>7, <1>8 DEF PoolInv

\* The last release of a topic takes it out of every table, an earlier one only
\* counts.
LEMMA ReleasesKeepsPool ==
  ASSUME PoolInv, NEW c \in Consumers, Pool!Releases(c)
  PROVE  PoolInv'
<1> PICK t \in Pool!Topics : t = wanted[c]
  BY DEF PoolInv, Pool!TypeOK, Pool!Topics
<1>1. /\ adapter = "hyperliquid" /\ stage[c] = "releasing"
      /\ UNCHANGED <<adapter, wanted, hub, up, announced>>
      /\ stage' = [stage EXCEPT ![c] = "idle"]
      /\ refs' = [refs EXCEPT ![t] = @ - 1]
      /\ refs'[t] = 0 => /\ payloads' = [payloads EXCEPT ![t] = Pool!None]
                         /\ slots' = [slots EXCEPT ![topicHub[t]] = @ \ {t}]
                         /\ topicHub' = [topicHub EXCEPT ![t] = 0]
      /\ refs'[t] # 0 => UNCHANGED <<payloads, slots, topicHub>>
  BY DEF Pool!Releases, PoolInv, OnlyPoolReleases
<1>2. /\ IsFiniteSet(Holders(t)) /\ refs[t] = Cardinality(Holders(t))
      /\ \A d \in Holders(t) : hub[d] = topicHub[t]
      /\ \A g \in Pool!Hubs : t \in slots[g] <=> g = topicHub[t]
      /\ payloads[t] # Pool!None <=> Holders(t) # {}
      /\ topicHub[t] # 0 <=> Holders(t) # {}
  BY <1>1 DEF PoolInv, PoolExact
<1>3. /\ stage' \in [Consumers -> {"idle", "waiting", "reading", "lost", "releasing"}]
      /\ stage'[c] = "idle"
      /\ \A d \in Consumers \ {c} : stage'[d] = stage[d]
  BY <1>1 DEF PoolInv, Pool!TypeOK
<1>4. /\ c \in Holders(t) /\ Holders(t)' = Holders(t) \ {c}
      /\ \A u \in Pool!Topics \ {t} : Holders(u)' = Holders(u)
  BY <1>1, <1>3 DEF Holders
<1>5. /\ IsFiniteSet(Holders(t)')
      /\ Cardinality(Holders(t)') = Cardinality(Holders(t)) - 1
      /\ Cardinality(Holders(t)') \in Nat
      /\ Cardinality(Holders(t)') = 0 <=> Holders(t)' = {}
  BY <1>2, <1>4, FS_RemoveElement, FS_CardinalityType, FS_EmptySet
<1>6. refs'[t] = Cardinality(Holders(t)') /\ refs' \in [Pool!Topics -> Nat]
  BY <1>1, <1>2, <1>5 DEF PoolInv, Pool!TypeOK
<1>7. topicHub[t] \in Pool!Hubs
  <2>1. topicHub[t] # 0 /\ topicHub[t] \in 0..MaxHubs
    BY <1>2, <1>4 DEF PoolInv, Pool!TypeOK
  <2>. QED
    BY <2>1 DEF Pool!Hubs
<1>8. \A g, u : Pool!Queues(g, u)' = Pool!Queues(g, u)
  BY <1>1, <1>3 DEF Pool!Queues, Pool!HasQueue
<1>9. CASE refs'[t] = 0
  <2>1. Holders(t)' = {}
    BY <1>5, <1>6, <1>9
  <2>2. /\ payloads' = [payloads EXCEPT ![t] = Pool!None]
        /\ slots' = [slots EXCEPT ![topicHub[t]] = @ \ {t}]
        /\ topicHub' = [topicHub EXCEPT ![t] = 0]
    BY <1>1, <1>9
  <2>3. Pool!TypeOK'
    <3>1. slots' \in [Pool!Hubs -> SUBSET Pool!Topics]
      BY <1>7, <2>2 DEF PoolInv, Pool!TypeOK
    <3>2. payloads' \in [Pool!Topics -> Pool!Wants \cup {Pool!None}]
      BY <2>2 DEF PoolInv, Pool!TypeOK
    <3>3. topicHub' \in [Pool!Topics -> 0..MaxHubs]
      BY <2>2 DEF PoolInv, Pool!TypeOK
    <3>. QED
      BY <1>1, <1>3, <1>6, <3>1, <3>2, <3>3 DEF PoolInv, Pool!TypeOK
  <2>4. /\ payloads'[t] = Pool!None /\ topicHub'[t] = 0
        /\ \A g \in Pool!Hubs : t \notin slots'[g]
    BY <1>2, <1>7, <2>2 DEF PoolInv, Pool!TypeOK
  <2>5. ASSUME NEW u \in Pool!Topics, u # t
        PROVE  /\ refs'[u] = refs[u] /\ topicHub'[u] = topicHub[u]
               /\ payloads'[u] = payloads[u]
               /\ \A g \in Pool!Hubs : u \in slots'[g] <=> u \in slots[g]
    BY <1>1, <1>7, <2>2, <2>5 DEF PoolInv, Pool!TypeOK
  <2>6. PoolExact'
    <3> SUFFICES ASSUME NEW u \in Pool!Topics
                 PROVE  /\ IsFiniteSet(Holders(u)')
                        /\ refs'[u] = Cardinality(Holders(u)')
                        /\ \A d \in Holders(u)' : hub'[d] = topicHub'[u]
                        /\ \A g \in Pool!Hubs : u \in slots'[g] <=> g = topicHub'[u]
                        /\ payloads'[u] # Pool!None <=> Holders(u)' # {}
                        /\ topicHub'[u] # 0 <=> Holders(u)' # {}
      BY DEF PoolExact
    <3>1. CASE u = t
      <4>1. \A g \in Pool!Hubs : t \in slots'[g] <=> g = topicHub'[t]
        BY <2>4 DEF Pool!Hubs
      <4>2. \A d \in Holders(t)' : hub'[d] = topicHub'[t]
        BY <2>1
      <4>. QED
        BY <1>5, <1>6, <2>1, <2>4, <3>1, <4>1, <4>2
    <3>2. CASE u # t
      BY <1>1, <1>4, <2>5, <3>2 DEF PoolInv, PoolExact
    <3>. QED
      BY <3>1, <3>2
  <2>7. SlotsFit'
    <3> SUFFICES ASSUME NEW g \in Pool!Hubs PROVE Cardinality(slots'[g]) <= MaxSubs
      BY DEF SlotsFit
    <3>1. slots'[g] \subseteq slots[g] /\ IsFiniteSet(slots[g])
      BY <1>7, <2>2, TopicsFinite DEF PoolInv, Pool!TypeOK
    <3>2. /\ Cardinality(slots'[g]) <= Cardinality(slots[g])
          /\ Cardinality(slots'[g]) \in Nat /\ Cardinality(slots[g]) \in Nat
      BY <3>1, FS_Subset, FS_CardinalityType
    <3>3. Cardinality(slots[g]) <= MaxSubs
      BY <1>1 DEF PoolInv, SlotsFit
    <3>. QED
      BY <3>2, <3>3
  <2>8. TopicsKept'
    <3>1. ASSUME NEW d \in Consumers, Pool!HasQueue(d)'
          PROVE  payloads'[wanted[d]] = wanted[d]
      <4>1. PICK u \in Pool!Topics : u = wanted[d]
        BY DEF PoolInv, Pool!TypeOK, Pool!Topics
      <4>2. Pool!HasQueue(d) /\ d \in Holders(u)'
        BY <1>1, <1>3, <3>1, <4>1 DEF Pool!HasQueue, Holders
      <4>3. payloads'[u] = payloads[u]
        BY <2>1, <2>5, <4>2
      <4>. QED
        BY <1>1, <4>1, <4>2, <4>3 DEF PoolInv, TopicsKept, Pool!HasTable
    <3>2. \A u \in Pool!Topics : payloads'[u] \in {Pool!None, u}
      BY <2>4, <2>5 DEF PoolInv, TopicsKept
    <3>. QED
      BY <1>1, <3>1, <3>2 DEF PoolInv, TopicsKept
  <2>. QED
    BY <1>1, <1>3, <1>8, <2>3, <2>6, <2>7, <2>8
    DEF PoolInv, QueuesAnnounced, OnlyPoolReleases, Pool!Queues, Pool!HasQueue
<1>10. CASE refs'[t] # 0
  <2>1. UNCHANGED <<payloads, slots, topicHub>> /\ Holders(t)' # {} /\ Holders(t) # {}
    BY <1>1, <1>4, <1>5, <1>6, <1>10
  <2>2. Pool!TypeOK'
    BY <1>1, <1>3, <1>6, <2>1 DEF PoolInv, Pool!TypeOK
  <2>3. PoolExact'
    <3> SUFFICES ASSUME NEW u \in Pool!Topics
                 PROVE  /\ IsFiniteSet(Holders(u)')
                        /\ refs'[u] = Cardinality(Holders(u)')
                        /\ \A d \in Holders(u)' : hub[d] = topicHub[u]
                        /\ \A g \in Pool!Hubs : u \in slots[g] <=> g = topicHub[u]
                        /\ payloads[u] # Pool!None <=> Holders(u)' # {}
                        /\ topicHub[u] # 0 <=> Holders(u)' # {}
      BY <1>1, <2>1 DEF PoolExact
    <3>1. CASE u = t
      BY <1>2, <1>4, <1>5, <1>6, <2>1, <3>1
    <3>2. CASE u # t
      <4>1. refs'[u] = refs[u]
        BY <1>1, <3>2 DEF PoolInv, Pool!TypeOK
      <4>. QED
        BY <1>1, <1>4, <3>2, <4>1 DEF PoolInv, PoolExact
    <3>. QED
      BY <3>1, <3>2
  <2>4. TopicsKept'
    BY <1>1, <1>3, <2>1 DEF PoolInv, TopicsKept, Pool!HasTable, Pool!HasQueue
  <2>. QED
    BY <1>1, <1>3, <1>8, <2>1, <2>2, <2>3, <2>4
    DEF PoolInv, QueuesAnnounced, OnlyPoolReleases, SlotsFit, Pool!Queues, Pool!HasQueue
<1>. QED
  BY <1>9, <1>10

\* A connection announces every topic with a queue, and is forgotten as it breaks.
LEMMA ConnectionsKeepPool ==
  ASSUME PoolInv, NEW h \in Pool!Hubs, Pool!Connects(h) \/ Pool!Disconnects(h)
  PROVE  PoolInv'
<1>1. UNCHANGED <<adapter, stage, wanted, hub, payloads, refs, topicHub, slots>>
  BY DEF Pool!Connects, Pool!Disconnects
<1>2. \A g, u : Pool!Queues(g, u)' = Pool!Queues(g, u)
  BY <1>1 DEF Pool!Queues, Pool!HasQueue
<1>3. PICK f \in [Pool!Topics -> Pool!Wants \cup {Pool!None}] :
          /\ announced' = [announced EXCEPT ![h] = f]
          /\ \A u \in Pool!Topics : f[u] \in {Pool!None, u}
          /\ h \in up' => \A u \in Pool!Topics :
                              Pool!Queues(h, u) # {} => f[u] # Pool!None
  <2>1. CASE Pool!Connects(h)
    <3> DEFINE f == [t \in Pool!Topics |->
                        IF Pool!Queues(h, t) = {} THEN Pool!None ELSE Pool!SubPayload(t)]
    <3>1. \A u \in Pool!Topics : /\ f[u] \in {Pool!None, u}
                                 /\ Pool!Queues(h, u) # {} => f[u] # Pool!None
      BY SendsTopic
    <3>2. f \in [Pool!Topics -> Pool!Wants \cup {Pool!None}]
      BY <3>1 DEF Pool!Topics
    <3>3. announced' = [announced EXCEPT ![h] = f]
      BY <2>1 DEF Pool!Connects
    <3> HIDE DEF f
    <3>. QED
      BY <3>1, <3>2, <3>3
  <2>2. CASE Pool!Disconnects(h)
    <3> DEFINE f == [t \in Pool!Topics |-> Pool!None]
    <3>1. /\ f \in [Pool!Topics -> Pool!Wants \cup {Pool!None}]
          /\ \A u \in Pool!Topics : f[u] = Pool!None
      OBVIOUS
    <3>2. announced' = [announced EXCEPT ![h] = f] /\ h \notin up'
      BY <2>2 DEF Pool!Disconnects
    <3> HIDE DEF f
    <3>. QED
      BY <3>1, <3>2
  <2>. QED
    BY <2>1, <2>2
<1>4. /\ announced' \in [Pool!Hubs -> [Pool!Topics -> Pool!Wants \cup {Pool!None}]]
      /\ announced'[h] = f
      /\ \A g \in Pool!Hubs \ {h} : announced'[g] = announced[g]
  BY <1>3 DEF PoolInv, Pool!TypeOK
<1>5. up' \subseteq Pool!Hubs /\ up' \ {h} \subseteq up
  BY DEF PoolInv, Pool!TypeOK, Pool!Connects, Pool!Disconnects
<1>6. Pool!TypeOK'
  BY <1>1, <1>4, <1>5 DEF PoolInv, Pool!TypeOK
<1>7. PoolExact' /\ SlotsFit'
  BY <1>1, <1>6, PoolCountsStay
<1>8. TopicsKept' /\ OnlyPoolReleases'
  BY <1>1, <1>3, <1>4 DEF PoolInv, TopicsKept, OnlyPoolReleases, Pool!HasTable, Pool!HasQueue
<1>9. QueuesAnnounced'
  <2> SUFFICES ASSUME NEW g \in up', NEW u \in Pool!Topics,
                      Pool!Queues(g, u) # {}, announced'[g][u] = Pool!None
               PROVE  \E d \in Pool!Queues(g, u) : stage[d] \in {"waiting", "lost"}
    BY <1>1, <1>2 DEF QueuesAnnounced
  <2>1. g # h
    BY <1>3, <1>4
  <2>. QED
    BY <1>4, <1>5, <2>1 DEF PoolInv, QueuesAnnounced
<1>. QED
  BY <1>1, <1>6, <1>7, <1>8, <1>9 DEF PoolInv

\* The pool's invariant is about the pool's variables.
LEMMA PoolStutter ==
  ASSUME PoolInv,
         UNCHANGED <<adapter, stage, wanted, hub, payloads, refs, topicHub, slots, up,
                     announced>>
  PROVE  PoolInv'
<1>1. Pool!TypeOK'
  BY DEF PoolInv, Pool!TypeOK
<1>2. PoolExact' /\ SlotsFit'
  BY <1>1, PoolCountsStay
<1>3. TopicsKept' /\ OnlyPoolReleases'
  BY DEF PoolInv, TopicsKept, OnlyPoolReleases, Pool!HasTable, Pool!HasQueue
<1>4. \A g, u : Pool!Queues(g, u)' = Pool!Queues(g, u)
  BY DEF Pool!Queues, Pool!HasQueue
<1>5. QueuesAnnounced'
  BY <1>4 DEF PoolInv, QueuesAnnounced
<1>. QED
  BY <1>1, <1>2, <1>3, <1>5 DEF PoolInv

\* Every step of the pool keeps its invariant.
LEMMA PoolNextKeepsInv ==
  ASSUME PoolInv, Pool!Next
  PROVE  PoolInv'
<1>1. ASSUME NEW c \in Consumers, NEW w \in Pool!Wants, Pool!Opens(c, w)
      PROVE  PoolInv'
  BY <1>1, OpensKeepsPool
<1>2. ASSUME NEW c \in Consumers, NEW w \in Pool!Wants, Pool!Acquires(c, w)
      PROVE  PoolInv'
  BY <1>2, AcquiresKeepsPool
<1>3. ASSUME NEW c \in Consumers, Pool!Wakes(c) \/ Pool!TimesOut(c) \/ Pool!Cancelled(c)
      PROVE  PoolInv'
  BY <1>3, WaitEndsKeepPool
<1>4. ASSUME NEW c \in Consumers, Pool!Leaves(c)
      PROVE  PoolInv'
  BY <1>4, LeavesKeepsPool
<1>5. ASSUME NEW c \in Consumers, Pool!Releases(c)
      PROVE  PoolInv'
  BY <1>5, ReleasesKeepsPool
<1>6. ASSUME NEW h \in Pool!Hubs, Pool!Connects(h) \/ Pool!Disconnects(h)
      PROVE  PoolInv'
  BY <1>6, ConnectionsKeepPool
<1>. QED
  BY <1>1, <1>2, <1>3, <1>4, <1>5, <1>6 DEF Pool!Next

\* What the run checks follows: all tables agree with the holders, and a reader
\* on a connected hub has its topic announced.
LEMMA PoolInvIsSound ==
  ASSUME PoolInv
  PROVE  Pool!TypeOK /\ Pool!PoolIsExact /\ Pool!AnnouncedAsAsked
<1>1. Pool!PoolIsExact
  <2> SUFFICES ASSUME adapter = "hyperliquid", NEW t \in Pool!Topics
               PROVE  LET holders == Holders(t)
                      IN  /\ refs[t] = Pool!Cardinality(holders)
                          /\ \A c \in holders : hub[c] = topicHub[t]
                          /\ {h \in Pool!Hubs : t \in slots[h]} = {topicHub[t]} \ {0}
                          /\ payloads[t] # Pool!None <=> holders # {}
                          /\ topicHub[t] # 0 <=> holders # {}
                          /\ \A h \in Pool!Hubs : Pool!Cardinality(slots[h]) <= MaxSubs
    BY DEF Pool!PoolIsExact, Holders
  <2>1. /\ refs[t] = Pool!Cardinality(Holders(t))
        /\ \A c \in Holders(t) : hub[c] = topicHub[t]
        /\ \A h \in Pool!Hubs : t \in slots[h] <=> h = topicHub[t]
        /\ payloads[t] # Pool!None <=> Holders(t) # {}
        /\ topicHub[t] # 0 <=> Holders(t) # {}
    BY SameCardinality DEF PoolInv, PoolExact
  <2>2. topicHub[t] \in 0..MaxHubs
    BY DEF PoolInv, Pool!TypeOK
  <2>3. {h \in Pool!Hubs : t \in slots[h]} = {topicHub[t]} \ {0}
    BY <2>1, <2>2 DEF Pool!Hubs
  <2>4. \A h \in Pool!Hubs : Pool!Cardinality(slots[h]) <= MaxSubs
    BY SameCardinality DEF PoolInv, SlotsFit
  <2>. QED
    BY <2>1, <2>3, <2>4
<1>2. Pool!AnnouncedAsAsked
  <2> SUFFICES ASSUME NEW c \in Consumers, stage[c] = "reading", hub[c] \in up
               PROVE  \/ announced[hub[c]][wanted[c]] = wanted[c]
                      \/ /\ announced[hub[c]][wanted[c]] = Pool!None
                         /\ \E d \in Pool!Queues(hub[c], wanted[c]) :
                                stage[d] \in {"waiting", "lost"}
    BY DEF Pool!AnnouncedAsAsked, PoolInv
  <2>1. /\ c \in Pool!Queues(hub[c], wanted[c])
        /\ hub[c] \in Pool!Hubs /\ wanted[c] \in Pool!Topics
    BY DEF Pool!Queues, Pool!HasQueue, PoolInv, Pool!TypeOK, Pool!Topics
  <2>2. announced[hub[c]][wanted[c]] \in {Pool!None, wanted[c]}
    BY <2>1 DEF PoolInv, TopicsKept
  <2>. QED
    BY <2>1, <2>2 DEF PoolInv, QueuesAnnounced
<1>. QED
  BY <1>1, <1>2 DEF PoolInv

\* On adapters that tell their subscriptions apart, the tables of the pool agree
\* with the consumers who hold topics, no hub is overfull, and a consumer who reads
\* from a connected hub has been announced with its own payload.  Kraken builds one
\* payload for several topics, and there the last is false: see the finding.
THEOREM HubsStaySound ==
  ASSUME "kraken" \notin PoolAdapters
  PROVE  Spec => []HubsAreSound
<1> DEFINE IInv == part = "hubs" => PoolInv
<1>1. Init => IInv
  BY PoolInit DEF Init
<1>2. IInv /\ [Next]_vars => IInv'
  <2> SUFFICES ASSUME IInv, [Next]_vars, part' = "hubs" PROVE PoolInv'
    OBVIOUS
  <2>1. CASE PoolNext
    BY <2>1, PoolNextKeepsInv DEF PoolNext
  <2>2. CASE UNCHANGED vars
    <3>1. PoolInv /\ UNCHANGED <<adapter, stage, wanted, hub, payloads, refs, topicHub,
                                 slots, up, announced>>
      BY <2>2 DEF vars, PoolVars
    <3>. QED
      BY <3>1, PoolStutter
  <2>. QED
    BY <2>1, <2>2 DEF Next, InfoNext, SnapNext, QuoteNext
<1>3. IInv => HubsAreSound
  BY PoolInvIsSound DEF HubsAreSound
<1>. QED
  BY <1>1, <1>2, <1>3, PTL DEF Spec

-----------------------------------------------------------------------------
(* Cached snapshots *)

\* A range that is kept is as old as its candles.
RangeKept ==
    range # Snap!Nothing =>
        /\ {range.low, range.high, range.at} \subseteq Nat
        /\ range.since = range.at

\* A quote that is kept has a price.
QuoteKept == quote # Snap!Nothing => quote.price \in Snap!Prices

\* A call that is after the range has its price.
PricesKept ==
    \A c \in Calls :
        stage[c] \in {"range_lock", "range_request"} => price[c] \in Snap!Prices

\* The stream's own range is made of numbers, and unless it is about to be renewed
\* it is as young as the last attempt to, or the attempt was in vain.
OwnKept ==
    /\ {own.range.low, own.range.high, own.price, own.since, own.tried} \subseteq Nat
    /\ own.tried <= now
    /\ stream # "reseeding" => own.since >= own.tried \/ own.kept

\* What was given out last is right.
OutKept == Snap!RangeHoldsPrice /\ Snap!RangesExpire

\* The inductive invariant of the snapshots.
SnapInv ==
    /\ Snap!TypeOK
    /\ RangeKept
    /\ QuoteKept
    /\ PricesKept
    /\ OwnKept
    /\ OutKept

\* The bounds are positive.
LEMMA SnapNumbers ==
  /\ RangeTtl \in Nat /\ RangeTtl > 0
  /\ MaxPrice \in Nat /\ MaxPrice > 0
  /\ MaxTime \in Nat /\ MaxTime > 0
BY NumbersAssumption

HIDE HubsAssumption
USE CallsAssumption

\* A range that is widened by a price holds it.
LEMMA WidenedHolds ==
  ASSUME NEW r, NEW p \in Snap!Prices, {r.low, r.high} \subseteq Nat
  PROVE  /\ {Snap!Widened(r, p).low, Snap!Widened(r, p).high} \subseteq Nat
         /\ Snap!Widened(r, p).low <= p
         /\ p <= Snap!Widened(r, p).high
BY SnapNumbers DEF Snap!Widened, Snap!Prices

\* The ends of a range, also of the empty one, are numbers.
LEMMA RangesAreNumbers ==
  ASSUME NEW r \in Snap!Ranges \cup {Snap!NoRange}
  PROVE  {r.low, r.high} \subseteq Nat
BY SnapNumbers DEF Snap!Ranges, Snap!NoRange, Snap!Prices

\* There is nothing cached at first.
LEMMA SnapInit ==
  ASSUME Snap!Init
  PROVE  SnapInv
<1>1. Snap!TypeOK
  BY SnapNumbers DEF Snap!Init, Snap!TypeOK
<1>2. RangeKept /\ QuoteKept /\ PricesKept /\ OutKept
  BY DEF Snap!Init, RangeKept, QuoteKept, PricesKept, OutKept, Snap!RangeHoldsPrice,
     Snap!RangesExpire
<1>3. OwnKept
  BY SnapNumbers DEF Snap!Init, OwnKept, Snap!NoOwn, Snap!NoRange
<1>. QED
  BY <1>1, <1>2, <1>3 DEF SnapInv

\* With a range that is young enough, the ticker is right and so is the range.
LEMMA WithRangeGives ==
  ASSUME SnapInv, NEW c \in Calls, NEW p \in Snap!Prices, NEW r,
         {r.low, r.high, r.at} \subseteq Nat, r.since = r.at, now - r.at < RangeTtl,
         Snap!WithRange(c, p, r), now' = now
  PROVE  /\ RangeKept' /\ PricesKept' /\ OutKept'
         /\ stage' = [stage EXCEPT ![c] = "idle"]
         /\ price' = [price EXCEPT ![c] = 0]
<1> DEFINE w == Snap!Widened(r, p)
<1>1. {w.low, w.high} \subseteq Nat /\ w.low <= p /\ p <= w.high
  BY WidenedHolds
<1> HIDE DEF w
<1>2. /\ range' = [from |-> "candles", at |-> r.at, low |-> w.low, high |-> w.high,
                   since |-> r.since]
      /\ out' = [from |-> "REST", price |-> p, low |-> w.low, high |-> w.high,
                 tried |-> r.since, since |-> r.since, kept |-> FALSE]
      /\ stage' = [stage EXCEPT ![c] = "idle"]
      /\ price' = [price EXCEPT ![c] = 0]
  BY DEF Snap!WithRange, Snap!Gives, Snap!Goes, w
<1>3. RangeKept'
  BY <1>1, <1>2 DEF RangeKept
<1>4. OutKept'
  BY <1>1, <1>2 DEF OutKept, Snap!RangeHoldsPrice, Snap!RangesExpire
<1>5. PricesKept'
  BY <1>2 DEF PricesKept, SnapInv, Snap!TypeOK
<1>. QED
  BY <1>2, <1>3, <1>4, <1>5

\* With the quote at hand the ticker is given out, or the call goes on to the range.
LEMMA WithQuoteGives ==
  ASSUME SnapInv, NEW c \in Calls, NEW q, q.price \in Snap!Prices,
         Snap!WithQuote(c, q), now' = now
  PROVE  /\ RangeKept' /\ PricesKept' /\ OutKept'
         /\ stage' \in [Calls -> {"idle", "quote_lock", "quote_request", "range_lock",
                                  "range_request"}]
         /\ price' \in [Calls -> 0..MaxPrice]
<1>1. CASE adapter = "kraken"
  <2>1. /\ out' = [from |-> "REST", price |-> q.price, low |-> q.price,
                   high |-> q.price, tried |-> now, since |-> now, kept |-> FALSE]
        /\ stage' = [stage EXCEPT ![c] = "idle"]
        /\ UNCHANGED <<range, price>>
    BY <1>1 DEF Snap!WithQuote, Snap!Gives, Snap!Goes
  <2>2. OutKept'
    <3>1. q.price \in Nat /\ now \in Nat
      BY SnapNumbers DEF SnapInv, Snap!TypeOK, Snap!Prices
    <3>. QED
      BY <2>1, <3>1, SnapNumbers DEF OutKept, Snap!RangeHoldsPrice, Snap!RangesExpire
  <2>. QED
    BY <2>1, <2>2 DEF SnapInv, Snap!TypeOK, RangeKept, PricesKept
<1>2. CASE adapter = "hyperliquid" /\ Snap!Fresh(range, RangeTtl)
  <2>1. Snap!WithRange(c, q.price, range)
    BY <1>2 DEF Snap!WithQuote
  <2>2. /\ {range.low, range.high, range.at} \subseteq Nat
        /\ range.since = range.at /\ now - range.at < RangeTtl
    BY <1>2 DEF SnapInv, RangeKept, Snap!Fresh
  <2>3. PICK r : r = range
    OBVIOUS
  <2>4. /\ RangeKept' /\ PricesKept' /\ OutKept'
        /\ stage' = [stage EXCEPT ![c] = "idle"]
        /\ price' = [price EXCEPT ![c] = 0]
    BY <2>1, <2>2, <2>3, WithRangeGives
  <2>. QED
    BY <2>4, SnapNumbers DEF SnapInv, Snap!TypeOK
<1>3. CASE adapter # "kraken" /\ ~(adapter = "hyperliquid" /\ Snap!Fresh(range, RangeTtl))
  <2>1. /\ stage' = [stage EXCEPT ![c] = "range_lock"]
        /\ price' = [price EXCEPT ![c] = q.price]
        /\ out' = Snap!Nothing /\ range' = range
    BY <1>3 DEF Snap!WithQuote, Snap!Goes
  <2>2. OutKept' /\ RangeKept'
    BY <2>1 DEF SnapInv, OutKept, RangeKept, Snap!RangeHoldsPrice, Snap!RangesExpire
  <2>. QED
    BY <2>1, <2>2, SnapNumbers DEF SnapInv, Snap!TypeOK, PricesKept, Snap!Prices
<1>. QED
  BY <1>1, <1>2, <1>3

\* A step of a call keeps the invariant.
LEMMA CallsKeepSnapshots ==
  ASSUME SnapInv, NEW c \in Calls,
         \/ Snap!GetsTicker(c) \/ Snap!LocksQuote(c) \/ Snap!QuoteArrives(c)
         \/ Snap!LocksRange(c) \/ Snap!RangeArrives(c) \/ Snap!RequestFails(c)
  PROVE  SnapInv'
<1>1. now' = now /\ stream' = stream /\ own' = own
  BY DEF Snap!GetsTicker, Snap!LocksQuote, Snap!QuoteArrives, Snap!LocksRange,
     Snap!RangeArrives, Snap!RequestFails, Snap!NotStream
<1>2. holder' \in [Snap!Caches -> Calls \cup {Snap!Nobody}]
  BY DEF Snap!GetsTicker, Snap!LocksQuote, Snap!QuoteArrives, Snap!LocksRange,
     Snap!RangeArrives, Snap!RequestFails, SnapInv, Snap!TypeOK
<1>3. /\ RangeKept' /\ QuoteKept' /\ PricesKept' /\ OutKept'
      /\ stage' \in [Calls -> {"idle", "quote_lock", "quote_request", "range_lock",
                               "range_request"}]
      /\ price' \in [Calls -> 0..MaxPrice]
  <2> DEFINE Kept ==
        /\ RangeKept' /\ QuoteKept' /\ PricesKept' /\ OutKept'
        /\ stage' \in [Calls -> {"idle", "quote_lock", "quote_request", "range_lock",
                                 "range_request"}]
        /\ price' \in [Calls -> 0..MaxPrice]
  <2>1. ASSUME NEW s \in {"quote_lock", "quote_request", "idle"},
               stage' = [stage EXCEPT ![c] = s], out' = Snap!Nothing,
               UNCHANGED <<quote, range, price>>
        PROVE  Kept
    BY <2>1 DEF SnapInv, Snap!TypeOK, RangeKept, QuoteKept, PricesKept, OutKept,
       Snap!RangeHoldsPrice, Snap!RangesExpire
  <2>2. ASSUME quote # Snap!Nothing, Snap!WithQuote(c, quote), quote' = quote
        PROVE  Kept
    <3>1. PICK q : q = quote
      OBVIOUS
    <3>2. q.price \in Snap!Prices /\ Snap!WithQuote(c, q)
      BY <2>2, <3>1 DEF SnapInv, QuoteKept
    <3>3. QuoteKept'
      BY <2>2 DEF SnapInv, QuoteKept
    <3>. QED
      BY <1>1, <3>2, <3>3, WithQuoteGives
  <2>3. CASE Snap!GetsTicker(c)
    <3>1. CASE adapter = "hyperliquid" /\ Snap!Fresh(quote, QuoteTtl)
      BY <2>2, <2>3, <3>1 DEF Snap!GetsTicker, Snap!Fresh
    <3>2. CASE ~(adapter = "hyperliquid" /\ Snap!Fresh(quote, QuoteTtl))
      BY <2>1, <2>3, <3>2 DEF Snap!GetsTicker, Snap!Goes
    <3>. QED
      BY <3>1, <3>2
  <2>4. CASE Snap!LocksQuote(c)
    <3>1. CASE Snap!Fresh(quote, QuoteTtl)
      BY <2>2, <2>4, <3>1 DEF Snap!LocksQuote, Snap!Fresh
    <3>2. CASE ~Snap!Fresh(quote, QuoteTtl)
      BY <2>1, <2>4, <3>2 DEF Snap!LocksQuote, Snap!Goes
    <3>. QED
      BY <3>1, <3>2
  <2>5. CASE Snap!QuoteArrives(c)
    <3>1. PICK p \in Snap!Prices : quote' = [from |-> "request", at |-> now, price |-> p]
      BY <2>5 DEF Snap!QuoteArrives
    <3>2. PICK q : q = quote'
      OBVIOUS
    <3>3. q.price \in Snap!Prices /\ Snap!WithQuote(c, q) /\ QuoteKept'
      BY <2>5, <3>1, <3>2 DEF Snap!QuoteArrives, QuoteKept
    <3>. QED
      BY <1>1, <3>3, WithQuoteGives
  <2>6. ASSUME NEW r, {r.low, r.high, r.at} \subseteq Nat, r.since = r.at,
               now - r.at < RangeTtl, stage[c] \in {"range_lock", "range_request"},
               Snap!WithRange(c, price[c], r), quote' = quote
        PROVE  Kept
    <3>1. PICK p \in Snap!Prices : p = price[c]
      BY <2>6 DEF SnapInv, PricesKept
    <3>2. /\ RangeKept' /\ PricesKept' /\ OutKept'
          /\ stage' = [stage EXCEPT ![c] = "idle"]
          /\ price' = [price EXCEPT ![c] = 0]
      BY <1>1, <2>6, <3>1, WithRangeGives
    <3>. QED
      BY <2>6, <3>2, SnapNumbers DEF SnapInv, Snap!TypeOK, QuoteKept
  <2>7. CASE Snap!LocksRange(c)
    <3>1. CASE Snap!Fresh(range, RangeTtl)
      <4>1. /\ {range.low, range.high, range.at} \subseteq Nat /\ range.since = range.at
            /\ now - range.at < RangeTtl
        BY <3>1 DEF Snap!Fresh, SnapInv, RangeKept
      <4>2. PICK r : r = range
        OBVIOUS
      <4>. QED
        BY <2>6, <2>7, <3>1, <4>1, <4>2 DEF Snap!LocksRange
    <3>2. CASE ~Snap!Fresh(range, RangeTtl)
      <4>1. /\ stage' = [stage EXCEPT ![c] = "range_request"] /\ out' = Snap!Nothing
            /\ UNCHANGED <<quote, range, price>> /\ stage[c] = "range_lock"
        BY <2>7, <3>2 DEF Snap!LocksRange, Snap!Goes
      <4>. QED
        BY <4>1 DEF SnapInv, Snap!TypeOK, RangeKept, QuoteKept, PricesKept, OutKept,
           Snap!RangeHoldsPrice, Snap!RangesExpire
    <3>. QED
      BY <3>1, <3>2
  <2>8. CASE Snap!RangeArrives(c)
    <3>1. PICK r \in Snap!Ranges \cup {Snap!NoRange} :
              Snap!WithRange(c, price[c], [at |-> now, since |-> now,
                                           low |-> r.low, high |-> r.high])
      BY <2>8 DEF Snap!RangeArrives
    <3>2. PICK e : e = [at |-> now, since |-> now, low |-> r.low, high |-> r.high]
      OBVIOUS
    <3>3. now \in Nat
      BY SnapNumbers DEF SnapInv, Snap!TypeOK
    <3>4. {e.low, e.high, e.at} \subseteq Nat /\ e.since = e.at /\ now - e.at < RangeTtl
      BY <3>2, <3>3, RangesAreNumbers, SnapNumbers
    <3>. QED
      BY <2>6, <2>8, <3>1, <3>2, <3>4 DEF Snap!RangeArrives
  <2>9. CASE Snap!RequestFails(c)
    <3>1. /\ stage' = [stage EXCEPT ![c] = "idle"] /\ out' = Snap!Nothing
          /\ price' = [price EXCEPT ![c] = 0] /\ UNCHANGED <<quote, range>>
      BY <2>9 DEF Snap!RequestFails, Snap!Goes
    <3>. QED
      BY <3>1, SnapNumbers DEF SnapInv, Snap!TypeOK, RangeKept, QuoteKept, PricesKept,
         OutKept, Snap!RangeHoldsPrice, Snap!RangesExpire
  <2>. QED
    BY <2>3, <2>4, <2>5, <2>7, <2>8, <2>9
<1>. QED
  BY <1>1, <1>2, <1>3 DEF SnapInv, Snap!TypeOK, OwnKept

\* A step of the stream does.
LEMMA StreamKeepsSnapshots ==
  ASSUME SnapInv,
         \/ Snap!StreamBegins \/ Snap!Reseeded \/ Snap!ReseedRejected \/ Snap!StreamEnds
         \/ \E p \in Snap!Prices : Snap!FrameArrives(p)
  PROVE  SnapInv'
<1>1. UNCHANGED <<now, quote, range, holder, stage, price>>
  BY DEF Snap!StreamBegins, Snap!Reseeded, Snap!ReseedRejected, Snap!StreamEnds,
     Snap!FrameArrives, Snap!NotCalls
<1>2. /\ now \in Nat /\ own.tried <= now
      /\ {own.range.low, own.range.high, own.price, own.since, own.tried} \subseteq Nat
  BY SnapNumbers DEF SnapInv, Snap!TypeOK, OwnKept
<1>3. stream' \in {"off", "reading", "reseeding", "ended"} /\ OwnKept' /\ OutKept'
  <2>1. CASE Snap!StreamBegins
    <3>1. PICK r \in Snap!Ranges \cup {Snap!NoRange} :
              own' = [range |-> r, price |-> 0, tried |-> now, since |-> now,
                      kept |-> FALSE]
      BY <2>1 DEF Snap!StreamBegins
    <3>2. OwnKept'
      BY <1>1, <1>2, <3>1, RangesAreNumbers DEF OwnKept
    <3>. QED
      BY <2>1, <3>2 DEF Snap!StreamBegins, OutKept, Snap!RangeHoldsPrice,
         Snap!RangesExpire
  <2>2. CASE Snap!Reseeded
    <3>1. /\ {own'.range.low, own'.range.high, own'.price, own'.since, own'.tried}
                 \subseteq Nat
          /\ own'.tried = own.tried
          /\ own'.since >= own'.tried \/ own'.kept
      <4>1. CASE own' = [own EXCEPT !.price = 0, !.kept = TRUE]
        BY <1>2, <4>1
      <4>2. ASSUME NEW r \in Snap!Ranges,
                   own' = [own EXCEPT !.range = r, !.price = 0, !.since = own.tried,
                                      !.kept = FALSE]
            PROVE  /\ {own'.range.low, own'.range.high, own'.price, own'.since, own'.tried}
                          \subseteq Nat
                   /\ own'.tried = own.tried
                   /\ own'.since >= own'.tried \/ own'.kept
        BY <1>2, <4>2, RangesAreNumbers
      <4>. QED
        BY <2>2, <4>1, <4>2 DEF Snap!Reseeded
    <3>2. /\ out'.from = "reseeded_stream" /\ out'.since = own'.since
          /\ out'.tried = own'.tried /\ out'.kept = own'.kept
      BY <2>2, <3>1 DEF Snap!Reseeded, Snap!Gives
    <3>3. stream' = "reading"
      BY <2>2 DEF Snap!Reseeded
    <3>4. OwnKept'
      BY <1>1, <1>2, <3>1 DEF OwnKept
    <3>. QED
      BY <3>1, <3>2, <3>3, <3>4 DEF OutKept, Snap!RangeHoldsPrice, Snap!RangesExpire
  <2>3. CASE Snap!ReseedRejected
    <3>1. /\ own' = [own EXCEPT !.price = 0, !.kept = TRUE]
          /\ stream' = "reading" /\ out' = Snap!Nothing
      BY <2>3 DEF Snap!ReseedRejected
    <3>2. OwnKept'
      BY <1>1, <1>2, <3>1 DEF OwnKept
    <3>. QED
      BY <3>1, <3>2 DEF OutKept, Snap!RangeHoldsPrice, Snap!RangesExpire
  <2>4. CASE Snap!StreamEnds
    <3>1. OwnKept'
      BY <1>1, <1>2, <2>4, SnapNumbers DEF Snap!StreamEnds, OwnKept, Snap!NoOwn,
         Snap!NoRange
    <3>. QED
      BY <2>4, <3>1 DEF Snap!StreamEnds, OutKept, Snap!RangeHoldsPrice,
         Snap!RangesExpire
  <2>5. ASSUME NEW p \in Snap!Prices, Snap!FrameArrives(p)
        PROVE  stream' \in {"off", "reading", "reseeding", "ended"} /\ OwnKept' /\ OutKept'
    <3> DEFINE w == Snap!Widened(own.range, p)
               s == IF own.range = Snap!NoRange THEN now ELSE own.since
               wider == [own EXCEPT !.range = w, !.since = s]
    <3>1. {w.low, w.high} \subseteq Nat /\ w.low <= p /\ p <= w.high
      BY <1>2, WidenedHolds
    <3>2. p \in Nat /\ s \in Nat /\ (s >= own.tried \/ own.kept)
      <4>1. p \in Nat
        BY SnapNumbers DEF Snap!Prices
      <4>2. own.since >= own.tried \/ own.kept
        BY <2>5 DEF SnapInv, OwnKept, Snap!FrameArrives
      <4>3. now \in Nat /\ own.since \in Nat /\ own.tried \in Nat /\ now >= own.tried
        BY <1>2
      <4>. QED
        BY <4>1, <4>2, <4>3
    <3>3. /\ IF now >= own.tried + RangeTtl
             THEN /\ stream' = "reseeding"
                  /\ own' = [wider EXCEPT !.price = p, !.tried = now]
                  /\ out' = Snap!Nothing
             ELSE /\ own' = wider
                  /\ Snap!Gives("stream", p, wider.range, wider.tried, wider.since,
                                wider.kept)
                  /\ UNCHANGED stream
          /\ stream = "reading"
      BY <2>5 DEF Snap!FrameArrives
    <3> HIDE DEF w, s
    <3>4. CASE now >= own.tried + RangeTtl
      <4>1. /\ stream' = "reseeding" /\ out' = Snap!Nothing
            /\ {own'.range.low, own'.range.high, own'.price, own'.since, own'.tried}
                   \subseteq Nat
            /\ own'.tried = now
        <5>1. /\ stream' = "reseeding" /\ out' = Snap!Nothing
              /\ own' = [wider EXCEPT !.price = p, !.tried = now]
          BY <3>3, <3>4
        <5>2. /\ own'.range = w /\ own'.price = p /\ own'.since = s
              /\ own'.tried = now
          BY <1>2, <5>1
        <5>. QED
          BY <1>2, <3>1, <3>2, <5>1, <5>2
      <4>. QED
        BY <1>1, <1>2, <4>1 DEF OwnKept, OutKept, Snap!RangeHoldsPrice,
           Snap!RangesExpire
    <3>5. CASE ~(now >= own.tried + RangeTtl)
      <4>1. /\ stream' = "reading" /\ own' = wider
            /\ out' = [from |-> "stream", price |-> p, low |-> w.low, high |-> w.high,
                       tried |-> own.tried, since |-> s, kept |-> own.kept]
        BY <3>3, <3>5 DEF Snap!Gives
      <4>2. OwnKept'
        BY <1>1, <1>2, <3>1, <3>2, <4>1 DEF OwnKept
      <4>3. OutKept'
        BY <1>1, <1>2, <3>1, <3>2, <3>5, <4>1, SnapNumbers DEF OutKept,
           Snap!RangeHoldsPrice, Snap!RangesExpire
      <4>. QED
        BY <4>1, <4>2, <4>3
    <3>. QED
      BY <3>4, <3>5
  <2>. QED
    BY <2>1, <2>2, <2>3, <2>4, <2>5
<1>. QED
  BY <1>1, <1>3 DEF SnapInv, Snap!TypeOK, RangeKept, QuoteKept, PricesKept

\* And so does time.
LEMMA SnapNextKeepsInv ==
  ASSUME SnapInv, Snap!Next
  PROVE  SnapInv'
<1>1. CASE Snap!Tick
  BY <1>1, SnapNumbers DEF Snap!Tick, Snap!NotStream, SnapInv, Snap!TypeOK, RangeKept,
     QuoteKept, PricesKept, OwnKept, OutKept, Snap!RangeHoldsPrice, Snap!RangesExpire
<1>. QED
  BY <1>1, CallsKeepSnapshots, StreamKeepsSnapshots DEF Snap!Next

\* The invariant holds of every behaviour that is about snapshots.
LEMMA SnapshotsKept == Spec => [](part = "snapshots" => SnapInv)
<1> DEFINE IInv == part = "snapshots" => SnapInv
<1>1. Init => IInv
  BY SnapInit DEF Init
<1>2. IInv /\ [Next]_vars => IInv'
  <2> SUFFICES ASSUME IInv, [Next]_vars, part' = "snapshots" PROVE SnapInv'
    OBVIOUS
  <2>1. CASE SnapNext
    BY <2>1, SnapNextKeepsInv DEF SnapNext
  <2>2. CASE UNCHANGED vars
    BY <2>2 DEF vars, SnapVars, SnapInv, Snap!TypeOK, RangeKept, QuoteKept, PricesKept,
       OwnKept, OutKept, Snap!RangeHoldsPrice, Snap!RangesExpire
  <2>. QED
    BY <2>1, <2>2 DEF Next, InfoNext, PoolNext, QuoteNext
<1>. QED
  BY <1>1, <1>2, PTL DEF Spec

\* A ticker's low and high hold its price, whether a call or a stream gives it out,
\* but for the frame of a stream that brings new candles. They come from candles that
\* are younger than the time a range is kept for, or are those of a stream that has
\* asked for newer ones in that time in vain.
THEOREM RangesStaySound == Spec => []RangesAreSound
<1>1. (part = "snapshots" => SnapInv) => RangesAreSound
  BY DEF RangesAreSound, SnapInv, OutKept
<1>. QED
  BY <1>1, SnapshotsKept, PTL

\* A lock is taken by a call that has found nothing fresh under it; all others
\* release it.
LEMMA SnapNextShares ==
  ASSUME Snap!TypeOK, Snap!Next
  PROVE  Snap!SharedStep
<1> SUFFICES ASSUME NEW c \in Calls, NEW k \in Snap!Caches,
                    holder[k] # c, holder'[k] = c
             PROVE  ~ Snap!Fresh(IF k = "quote" THEN quote ELSE range,
                                 IF k = "quote" THEN QuoteTtl ELSE RangeTtl)
  BY DEF Snap!SharedStep
<1>1. holder' # holder /\ c # Snap!Nobody
  BY DEF Snap!Nobody
<1>2. PICK d \in Calls : \/ Snap!GetsTicker(d) \/ Snap!LocksQuote(d)
                         \/ Snap!QuoteArrives(d) \/ Snap!LocksRange(d)
                         \/ Snap!RangeArrives(d) \/ Snap!RequestFails(d)
  BY <1>1 DEF Snap!Next, Snap!Tick, Snap!StreamBegins, Snap!Reseeded,
     Snap!ReseedRejected, Snap!StreamEnds, Snap!FrameArrives, Snap!NotCalls
<1>3. CASE Snap!LocksQuote(d) /\ ~Snap!Fresh(quote, QuoteTtl)
  BY <1>1, <1>3 DEF Snap!LocksQuote, Snap!TypeOK
<1>4. CASE Snap!LocksRange(d) /\ ~Snap!Fresh(range, RangeTtl)
  BY <1>1, <1>4 DEF Snap!LocksRange, Snap!TypeOK
<1>5. CASE Snap!QuoteArrives(d) \/ Snap!RangeArrives(d) \/ Snap!RequestFails(d)
  BY <1>1, <1>5 DEF Snap!QuoteArrives, Snap!RangeArrives, Snap!RequestFails, Snap!TypeOK
<1>. QED
  BY <1>1, <1>2, <1>3, <1>4, <1>5 DEF Snap!GetsTicker, Snap!LocksQuote, Snap!LocksRange

\* A snapshot is asked for only by the call that holds its lock and found it stale:
\* the calls that wait behind it use what it brings.
THEOREM RequestsStayShared == Spec => RequestsAreShared
<1>1. RangesAreSound /\ [Next]_vars => [part = "snapshots" => Snap!SharedStep]_vars
  <2> SUFFICES ASSUME RangesAreSound, Next, part = "snapshots"
               PROVE  Snap!SharedStep
    OBVIOUS
  <2>. QED
    BY SnapNextShares DEF RangesAreSound, Next, InfoNext, PoolNext, SnapNext, QuoteNext
<1>. QED
  BY <1>1, RangesStaySound, PTL DEF Spec, RequestsAreShared

-----------------------------------------------------------------------------
(* The instrument cache *)

HIDE CallsAssumption
HIDE DEF Pool!TopicOf

\* The lock of the listings, and that of the map of symbols.
Locks == {"info", "map"}

\* The queue q of a lock, whose first is the holder.
Stands(c, q)   == \E i \in DOMAIN q : q[i] = c
NobodyTwice(q) == \A i, j \in DOMAIN q : q[i] = q[j] => i = j
IsFirst(c, q)  == q # <<>> /\ q[1] = c

\* A coroutine that is inside a use of a cache that has a lock.
Locking(c, l) ==
    stage[c] # "idle" /\ wants[c] # "interval" /\ Info!LockOf(wants[c]) = l

\* What a use asks for exists, and goes through the stages that it has.
UsesRight ==
    \A c \in Info!Callers :
        /\ stage[c] = "idle" <=> wants[c] = "none"
        /\ stage[c] # "idle" => wants[c] \in Info!Offered
        /\ stage[c] = "waiting" => wants[c] # "interval"
        /\ stage[c] = "optional" => wants[c] = "perp"

\* The queue of a lock is who uses what it guards, and asks the exchange only as
\* the first of it.
QueuesRight ==
    \A l \in Locks :
        /\ NobodyTwice(queue[l])
        /\ \A c \in Info!Callers :
               /\ Stands(c, queue[l]) <=> Locking(c, l)
               /\ Locking(c, l) /\ stage[c] \in {"listing", "optional"} =>
                      IsFirst(c, queue[l])

\* A fetch is due when it begins and is counted from then on.
FetchRight ==
    /\ (\A c \in Info!Callers : ~Info!Fetching(c)) => since = 0
    /\ \A c \in Info!Callers :
           /\ stage[c] = "optional" => left \in {1, 2}
           /\ Info!Fetching(c) =>
                  /\ tried[wants[c]] = since
                  /\ wants[c] \in cached => elapsed[wants[c]] = Refresh

\* Shutdown begins without calls and ends without the warm-up.
WarmRight ==
    /\ stage[Warm] # "idle" => warmLeft # <<>>
    /\ server # "running" => \A c \in Calls : stage[c] = "idle"
    /\ server = "closed" => stage[Warm] = "idle" /\ warmLeft = <<>>

\* What is known of intervals is of symbols that are listed.
IntervalsRight ==
    /\ Info!IntervalsCoverListing
    /\ \A c \in Info!Callers :
           stage[c] = "optional" /\ Info!Fetch("perp").fills = "at_once" =>
               intervals # "none"

\* An entry passes for as old as its listing or, after a failed attempt, for so
\* old that it is due by when the next attempt is; and no sooner, unless the
\* listing is being fetched.
AgeRight(k) ==
    /\ elapsed[k] <= age[k]
    /\ elapsed[k] = age[k] \/ elapsed[k] >= (Refresh - Retry) + tried[k]
    /\ \/ \E c \in Info!Callers : Info!Fetching(c) /\ wants[c] = k
       \/ tried[k] = Retry
       \/ elapsed[k] <= (Refresh - Retry) + tried[k]

AgesRight == \A k \in Info!Markets : k \in cached => AgeRight(k)

\* The inductive invariant of the info caches.
InfoInv ==
    /\ Info!TypeOK
    /\ UsesRight
    /\ QueuesRight
    /\ FetchRight
    /\ WarmRight
    /\ IntervalsRight
    /\ AgesRight

\* A fetch takes less time than a retry, and that less than a refresh.
LEMMA InfoNumbers ==
  /\ Refresh \in Nat /\ Retry \in Nat /\ MaxFetch \in Nat
  /\ MaxFetch < Retry /\ Retry < Refresh
BY InfoCacheAssumption

\* Who leaves a queue leaves the others as they are.
LEMMA WithoutGives ==
  ASSUME NEW S, NEW q \in Seq(S), NEW c, NobodyTwice(q)
  PROVE  /\ Info!Without(q, c) \in Seq(S)
         /\ NobodyTwice(Info!Without(q, c))
         /\ \A d : Stands(d, Info!Without(q, c)) <=> Stands(d, q) /\ d # c
         /\ \A d : IsFirst(d, q) /\ d # c => IsFirst(d, Info!Without(q, c))
<1>1. CASE ~Stands(c, q)
  BY <1>1 DEF Info!Without, Stands, IsFirst
<1>2. CASE Stands(c, q)
  <2>1. PICK n \in DOMAIN q : n = CHOOSE i \in DOMAIN q : q[i] = c
    BY <1>2 DEF Stands
  <2>2. q[n] = c /\ n \in 1..Len(q) /\ Len(q) \in Nat
    BY <1>2, <2>1 DEF Stands
  <2> DEFINE r == SubSeq(q, 1, n - 1) \o SubSeq(q, n + 1, Len(q))
  <2>3. Info!Without(q, c) = r
    BY <1>2, <2>1 DEF Info!Without, Info!RemoveAt, Stands
  <2>4. /\ r \in Seq(S) /\ Len(r) = Len(q) - 1
        /\ \A i \in 1..Len(r) : r[i] = IF i < n THEN q[i] ELSE q[i + 1]
    <3> DEFINE a == SubSeq(q, 1, n - 1)
               b == SubSeq(q, n + 1, Len(q))
    <3>1. a \in Seq(S) /\ Len(a) = n - 1 /\ \A i \in 1..(n - 1) : a[i] = q[i]
      BY <2>2
    <3>2. /\ b \in Seq(S) /\ Len(b) = Len(q) - n
          /\ \A i \in 1..(Len(q) - n) : b[i] = q[i + n]
      BY <2>2
    <3> HIDE DEF a, b
    <3>3. /\ a \o b \in Seq(S) /\ Len(a \o b) = Len(q) - 1
          /\ \A i \in 1..(Len(q) - 1) :
                 (a \o b)[i] = IF i < n THEN a[i] ELSE b[i - (n - 1)]
      <4>1. a \o b \in Seq(S) /\ Len(a \o b) = Len(a) + Len(b)
        BY <3>1, <3>2, ConcatProperties
      <4>2. \A i \in 1..(Len(a) + Len(b)) :
                (a \o b)[i] = IF i <= Len(a) THEN a[i] ELSE b[i - Len(a)]
        BY <3>1, <3>2, ConcatProperties
      <4>. QED
        BY <2>2, <3>1, <3>2, <4>1, <4>2
    <3>4. ASSUME NEW i \in 1..(Len(q) - 1)
          PROVE  (a \o b)[i] = IF i < n THEN q[i] ELSE q[i + 1]
      BY <2>2, <3>1, <3>2, <3>3
    <3>. QED
      BY <3>3, <3>4 DEF a, b
  <2> HIDE DEF r
  <2>5. DOMAIN r = 1..(Len(q) - 1) /\ DOMAIN q = 1..Len(q)
    BY <2>4
  <2>6. NobodyTwice(r)
    BY <2>2, <2>4, <2>5 DEF NobodyTwice
  <2>7. ASSUME NEW d, Stands(d, r) PROVE Stands(d, q) /\ d # c
    BY <2>2, <2>4, <2>5, <2>7 DEF Stands, NobodyTwice
  <2>8. ASSUME NEW d, Stands(d, q), d # c PROVE Stands(d, r)
    <3>1. PICK i \in 1..Len(q) : q[i] = d
      BY <2>5, <2>8 DEF Stands
    <3>2. CASE i < n
      BY <2>2, <2>4, <2>5, <3>1, <3>2 DEF Stands
    <3>3. CASE i > n
      <4>1. (i - 1) \in DOMAIN r /\ r[i - 1] = d
        BY <2>2, <2>4, <2>5, <3>1, <3>3
      <4>. QED
        BY <4>1 DEF Stands
    <3>. QED
      BY <2>2, <2>8, <3>1, <3>2, <3>3
  <2>9. ASSUME NEW d, IsFirst(d, q), d # c PROVE IsFirst(d, r)
    <3>1. n # 1 /\ 1 \in 1..Len(r)
      BY <2>2, <2>4, <2>9 DEF IsFirst
    <3>. QED
      BY <2>2, <2>4, <2>9, <3>1 DEF IsFirst
  <2>. QED
    BY <2>3, <2>4, <2>6, <2>7, <2>8, <2>9
<1>. QED
  BY <1>1, <1>2

\* When the holder leaves, the next one is first.
LEMMA FrontGives ==
  ASSUME NEW S, NEW q \in Seq(S), NEW c \in S, NobodyTwice(q)
  PROVE  LET r == <<c>> \o Info!Without(q, c)
         IN  /\ r \in Seq(S) /\ NobodyTwice(r) /\ IsFirst(c, r)
             /\ \A d : Stands(d, r) <=> Stands(d, q) \/ d = c
<1> DEFINE w == Info!Without(q, c)
           r == <<c>> \o w
<1>1. /\ w \in Seq(S) /\ NobodyTwice(w)
      /\ \A d : Stands(d, w) <=> Stands(d, q) /\ d # c
  BY WithoutGives
<1> HIDE DEF w
<1>2. /\ r \in Seq(S) /\ Len(r) = Len(w) + 1 /\ Len(w) \in Nat
      /\ r[1] = c /\ \A i \in 1..Len(w) : r[i + 1] = w[i]
  BY <1>1
<1> HIDE DEF r
<1>3. DOMAIN r = 1..(Len(w) + 1) /\ DOMAIN w = 1..Len(w) /\ IsFirst(c, r)
  BY <1>1, <1>2 DEF IsFirst
<1>4. ASSUME NEW i \in DOMAIN r, i # 1 PROVE (i - 1) \in DOMAIN w /\ r[i] = w[i - 1]
  BY <1>2, <1>3, <1>4
<1>5. \A i \in DOMAIN w : (i + 1) \in DOMAIN r /\ r[i + 1] = w[i]
  BY <1>2, <1>3
<1>6. \A d : Stands(d, r) <=> Stands(d, w) \/ d = c
  <2>1. ASSUME NEW d, Stands(d, r) PROVE Stands(d, w) \/ d = c
    BY <1>2, <1>4, <2>1 DEF Stands
  <2>2. ASSUME NEW d, Stands(d, w) PROVE Stands(d, r)
    BY <1>5, <2>2 DEF Stands
  <2>3. Stands(c, r)
    BY <1>2, <1>3 DEF Stands
  <2>. QED
    BY <2>1, <2>2, <2>3
<1>7. NobodyTwice(r)
  <2> SUFFICES ASSUME NEW i \in DOMAIN r, NEW j \in DOMAIN r, r[i] = r[j], i # j
               PROVE  FALSE
    BY DEF NobodyTwice
  <2>1. i # 1 /\ j # 1
    BY <1>1, <1>2, <1>4 DEF Stands
  <2>2. i - 1 = j - 1
    BY <1>1, <1>4, <2>1 DEF NobodyTwice
  <2>. QED
    BY <1>2, <1>3, <2>2
<1>. QED
  BY <1>1, <1>2, <1>3, <1>6, <1>7 DEF r, w

\* Who joins a queue is its last.
LEMMA BackGives ==
  ASSUME NEW S, NEW q \in Seq(S), NEW c \in S, NobodyTwice(q), ~Stands(c, q)
  PROVE  /\ Append(q, c) \in Seq(S) /\ NobodyTwice(Append(q, c))
         /\ \A d : Stands(d, Append(q, c)) <=> Stands(d, q) \/ d = c
         /\ \A d : IsFirst(d, q) => IsFirst(d, Append(q, c))
<1> DEFINE r == Append(q, c)
<1>1. /\ r \in Seq(S) /\ DOMAIN r = 1..(Len(q) + 1) /\ DOMAIN q = 1..Len(q)
      /\ Len(q) \in Nat /\ r[Len(q) + 1] = c /\ \A i \in 1..Len(q) : r[i] = q[i]
  OBVIOUS
<1> HIDE DEF r
<1>2. NobodyTwice(r)
  BY <1>1 DEF NobodyTwice, Stands
<1>3. \A d : Stands(d, r) <=> Stands(d, q) \/ d = c
  BY <1>1 DEF Stands
<1>4. ASSUME NEW d, IsFirst(d, q) PROVE IsFirst(d, r)
  <2>1. q # <<>> /\ q[1] = d
    BY <1>4 DEF IsFirst
  <2>2. 1 \in 1..Len(q)
    BY <2>1
  <2>. QED
    BY <1>1, <2>1, <2>2 DEF IsFirst
<1>. QED
  BY <1>1, <1>2, <1>3, <1>4 DEF r

\* The service starts with its warm-up and empty caches.
LEMMA InfoInit ==
  ASSUME Info!Init
  PROVE  InfoInv
<1> USE DEF Info!Init
<1>1. /\ queue \in [Locks -> Seq(Info!Callers)]
      /\ \A l \in Locks : queue[l] = <<>>
  <2>1. <<>> \in Seq(Info!Callers)
    OBVIOUS
  <2>. QED
    BY <2>1 DEF Locks
<1>2. warmLeft \in Seq(Info!Caches)
  <2>1. {"spot", "perp", "map", "interval"} = Info!Caches
    BY DEF Info!Caches, Info!Markets
  <2>2. /\ <<"perp", "perp", "interval">> \in Seq({"spot", "perp", "map", "interval"})
        /\ <<"spot", "perp", "map">> \in Seq({"spot", "perp", "map", "interval"})
        /\ <<"spot", "perp">> \in Seq({"spot", "perp", "map", "interval"})
    OBVIOUS
  <2>3. warmLeft \in {<<"perp", "perp", "interval">>, <<"spot", "perp", "map">>,
                      <<"spot", "perp">>}
    BY DEF Info!WarmSteps
  <2>. QED
    BY <2>1, <2>2, <2>3
<1>3. Info!TypeOK
  <2>1. /\ elapsed \in [Info!Markets -> 0..Refresh]
        /\ age \in [Info!Markets -> 0..Refresh]
        /\ tried \in [Info!Markets -> 0..Retry]
        /\ since \in 0..MaxFetch /\ left \in 0..2
    BY InfoNumbers
  <2>2. /\ stage \in [Info!Callers -> {"idle", "waiting", "listing", "optional"}]
        /\ wants \in [Info!Callers -> Info!Caches \cup {"none"}]
        /\ cached \subseteq Info!Offered /\ partial \subseteq Info!Markets
    OBVIOUS
  <2>. QED
    BY <1>1, <1>2, <2>1, <2>2 DEF Info!TypeOK, Locks
<1>4. UsesRight /\ FetchRight /\ WarmRight
  BY DEF UsesRight, FetchRight, WarmRight, Info!Fetching, Info!Callers
<1>5. QueuesRight
  BY <1>1 DEF QueuesRight, Locking, NobodyTwice, Stands
<1>6. IntervalsRight /\ AgesRight
  BY DEF IntervalsRight, AgesRight, Info!IntervalsCoverListing, Info!Callers
<1>. QED
  BY <1>3, <1>4, <1>5, <1>6 DEF InfoInv

\* The lock of the listings lets one coroutine fetch.
LEMMA FetchIsUnique ==
  ASSUME QueuesRight, NEW c \in Info!Callers, NEW d \in Info!Callers,
         Info!Fetching(c), Info!Fetching(d)
  PROVE  c = d /\ IsFirst(c, queue["info"])
<1>1. Locking(c, "info") /\ Locking(d, "info")
  BY DEF Info!Fetching, Locking, Info!LockOf, Info!Markets
<1>. QED
  BY <1>1 DEF QueuesRight, Locks, Info!Fetching, IsFirst

\* What a fetch is depends on the adapter alone.
LEMMA FetchStays ==
  ASSUME adapter' = adapter, NEW k
  PROVE  Info!Fetch(k)' = Info!Fetch(k)
BY DEF Info!Fetch, Info!BinanceFetch, Info!BybitFetch, Info!HyperliquidFetch,
     Info!KrakenFetch, Info!KucoinFetch, Info!OKXFetch, Info!Plain

\* Intervals stay right where neither they nor the listings change.
LEMMA IntervalsStay ==
  ASSUME IntervalsRight, UNCHANGED <<adapter, cached, intervals>>,
         \A d \in Info!Callers : stage'[d] = "optional" => stage[d] = "optional"
  PROVE  IntervalsRight'
<1>1. Info!Fetch("perp")' = Info!Fetch("perp")
  BY FetchStays
<1>. QED
  BY <1>1 DEF IntervalsRight, Info!IntervalsCoverListing

\* A use that ends, whatever it leaves in the caches, if that is right.
LEMMA EndsKeepsInfo ==
  ASSUME InfoInv, NEW c \in Info!Callers, NEW r \in BOOLEAN, Info!Ends(c, r),
         c = Warm => warmLeft # <<>>,
         UNCHANGED <<adapter, server>>,
         cached' \subseteq Info!Offered, partial' \subseteq Info!Markets,
         intervals' \in {"none", "rows", "default"},
         elapsed' \in [Info!Markets -> 0..Refresh],
         age' \in [Info!Markets -> 0..Refresh],
         tried' \in [Info!Markets -> 0..Retry],
         \A k \in Info!Markets : ~(Info!Fetching(c) /\ wants[c] = k) =>
             /\ k \in cached' <=> k \in cached
             /\ elapsed'[k] = elapsed[k] /\ age'[k] = age[k] /\ tried'[k] = tried[k],
         Info!Fetching(c) /\ wants[c] \in cached' =>
             /\ elapsed'[wants[c]] <= age'[wants[c]]
             /\ \/ elapsed'[wants[c]] = age'[wants[c]]
                \/ elapsed'[wants[c]] >= (Refresh - Retry) + tried'[wants[c]]
             /\ \/ tried'[wants[c]] = Retry
                \/ elapsed'[wants[c]] <= (Refresh - Retry) + tried'[wants[c]],
         Info!IntervalsCoverListing',
         intervals # "none" => intervals' # "none"
  PROVE  InfoInv' /\ Info!FetchStep
<1>1. /\ stage' = [stage EXCEPT ![c] = "idle"]
      /\ wants' = [wants EXCEPT ![c] = "none"]
      /\ queue' = [l \in Locks |-> Info!Without(queue[l], c)]
      /\ warmLeft' = IF c # Warm THEN warmLeft ELSE IF r THEN <<>> ELSE Tail(warmLeft)
      /\ Info!Fetching(c) => since' = 0 /\ left' = 0
      /\ ~Info!Fetching(c) => since' = since /\ left' = left
  BY DEF Info!Ends, Info!fetchVars, Locks
<1>2. /\ stage' \in [Info!Callers -> {"idle", "waiting", "listing", "optional"}]
      /\ wants' \in [Info!Callers -> Info!Caches \cup {"none"}]
      /\ stage'[c] = "idle" /\ wants'[c] = "none"
      /\ \A d \in Info!Callers \ {c} : stage'[d] = stage[d] /\ wants'[d] = wants[d]
  BY <1>1 DEF InfoInv, Info!TypeOK
<1>3. ASSUME NEW l \in Locks
      PROVE  /\ queue[l] \in Seq(Info!Callers) /\ NobodyTwice(queue[l])
             /\ queue'[l] = Info!Without(queue[l], c)
             /\ queue'[l] \in Seq(Info!Callers) /\ NobodyTwice(queue'[l])
             /\ \A d : Stands(d, queue'[l]) <=> Stands(d, queue[l]) /\ d # c
             /\ \A d : IsFirst(d, queue[l]) /\ d # c => IsFirst(d, queue'[l])
  <2>1. queue[l] \in Seq(Info!Callers) /\ NobodyTwice(queue[l])
    BY DEF InfoInv, Info!TypeOK, QueuesRight, Locks
  <2>2. queue'[l] = Info!Without(queue[l], c)
    BY <1>1
  <2>. QED
    BY <2>1, <2>2, WithoutGives
<1>4. warmLeft' \in Seq(Info!Caches)
  <2>1. warmLeft \in Seq(Info!Caches)
    BY DEF InfoInv, Info!TypeOK
  <2>. QED
    BY <1>1, <2>1
<1>5. since' \in 0..MaxFetch /\ left' \in 0..2
  BY <1>1, InfoNumbers DEF InfoInv, Info!TypeOK
<1>6. Info!TypeOK'
  <2>1. queue' \in [Locks -> Seq(Info!Callers)]
    BY <1>1, <1>3
  <2>. QED
    BY <1>2, <1>4, <1>5, <2>1 DEF InfoInv, Info!TypeOK, Locks, Info!Offered
<1>7. UsesRight'
  BY <1>2 DEF InfoInv, UsesRight, Info!Offered
<1>8. QueuesRight'
  <2>1. \A l \in Locks, d \in Info!Callers : Locking(d, l)' <=> Locking(d, l) /\ d # c
    BY <1>2 DEF Locking
  <2> SUFFICES ASSUME NEW l \in Locks
               PROVE  /\ NobodyTwice(queue'[l])
                      /\ \A d \in Info!Callers :
                             /\ Stands(d, queue'[l]) <=> Locking(d, l)'
                             /\ Locking(d, l)' /\ stage'[d] \in {"listing", "optional"} =>
                                    IsFirst(d, queue'[l])
    BY DEF QueuesRight, NobodyTwice, Stands, IsFirst
  <2>. QED
    BY <1>2, <1>3, <2>1 DEF InfoInv, QueuesRight
<1>9. \A d \in Info!Callers : Info!Fetching(d)' <=> Info!Fetching(d) /\ d # c
  BY <1>2 DEF Info!Fetching
<1>10. FetchRight'
  <2>1. CASE Info!Fetching(c)
    <3>1. \A d \in Info!Callers : ~Info!Fetching(d)'
      BY <1>9, <2>1, FetchIsUnique DEF InfoInv
    <3>2. \A d \in Info!Callers : stage'[d] # "optional"
      BY <1>2, <3>1 DEF Info!Fetching, UsesRight, InfoInv, Info!Markets
    <3>. QED
      BY <1>1, <2>1, <3>1, <3>2 DEF FetchRight
  <2>2. CASE ~Info!Fetching(c)
    <3>1. since' = since /\ left' = left
      BY <1>1, <2>2
    <3>2. ASSUME NEW d \in Info!Callers, Info!Fetching(d)'
          PROVE  /\ tried'[wants'[d]] = since'
                 /\ wants'[d] \in cached' => elapsed'[wants'[d]] = Refresh
      <4>1. Info!Fetching(d) /\ wants'[d] = wants[d] /\ wants[d] \in Info!Markets
        BY <1>2, <1>9, <3>2 DEF Info!Fetching
      <4>. QED
        BY <2>2, <3>1, <4>1 DEF InfoInv, FetchRight
    <3>3. (\A d \in Info!Callers : ~Info!Fetching(d)') => since' = 0
      BY <1>9, <2>2, <3>1 DEF InfoInv, FetchRight
    <3>. QED
      BY <1>2, <3>1, <3>2, <3>3 DEF InfoInv, FetchRight
  <2>. QED
    BY <2>1, <2>2
<1>11. WarmRight'
  BY <1>1, <1>2 DEF InfoInv, WarmRight, Info!Callers
<1>12. IntervalsRight'
  <2>1. Info!Fetch("perp")' = Info!Fetch("perp")
    BY FetchStays
  <2>. QED
    BY <1>2, <2>1 DEF InfoInv, IntervalsRight
<1>13. AgesRight'
  <2> SUFFICES ASSUME NEW k \in Info!Markets, k \in cached' PROVE AgeRight(k)'
    BY DEF AgesRight
  <2>1. CASE Info!Fetching(c) /\ wants[c] = k
    BY <2>1 DEF AgeRight
  <2>2. CASE ~(Info!Fetching(c) /\ wants[c] = k)
    <3>1. /\ k \in cached /\ AgeRight(k)
          /\ elapsed'[k] = elapsed[k] /\ age'[k] = age[k] /\ tried'[k] = tried[k]
      BY <2>2 DEF InfoInv, AgesRight
    <3>2. (\E d \in Info!Callers : Info!Fetching(d) /\ wants[d] = k) =>
              \E d \in Info!Callers : Info!Fetching(d)' /\ wants'[d] = k
      BY <1>2, <1>9, <2>2
    <3>. QED
      BY <3>1, <3>2 DEF AgeRight
  <2>. QED
    BY <2>1, <2>2
<1>14. Info!FetchStep
  BY <1>2 DEF Info!FetchStep
<1>. QED
  BY <1>6, <1>7, <1>8, <1>10, <1>11, <1>12, <1>13, <1>14 DEF InfoInv

\* Who begins to ask the exchange is first at the lock and finds nothing fresh: an
\* entry that is due, and nobody who fetches it.
LEMMA RequestsKeepInfo ==
  ASSUME InfoInv, NEW c \in Info!Callers, NEW k \in Info!Offered,
         Info!Requests(c, k), ~Info!Fresh(k),
         stage[c] = "idle" \/ (stage[c] = "waiting" /\ wants[c] = k),
         \/ k = "interval"
         \/ queue[Info!LockOf(k)] = <<>>
         \/ IsFirst(c, queue[Info!LockOf(k)]),
         c = Warm => warmLeft # <<>>,
         server # "running" => stage[c] # "idle",
         UNCHANGED <<adapter, cached, partial, intervals, elapsed, server, age>>
  PROVE  InfoInv' /\ Info!FetchStep
<1> DEFINE l == Info!LockOf(k)
<1>0. /\ k \in Info!Caches /\ k # "none" /\ l \in Locks
      /\ k \in Info!Markets => k # "interval" /\ l = "info"
      /\ k \notin Info!Markets => l = "map"
  BY DEF Info!Offered, Info!Caches, Info!Markets, Info!LockOf, Locks
<1> HIDE DEF l
<1>1. /\ stage' = [stage EXCEPT ![c] = "listing"]
      /\ wants' = [wants EXCEPT ![c] = k]
      /\ queue' = IF k = "interval" THEN queue
                  ELSE [queue EXCEPT ![l] = <<c>> \o Info!Without(@, c)]
      /\ tried' = IF k \in Info!Markets THEN [tried EXCEPT ![k] = 0] ELSE tried
      /\ UNCHANGED <<since, left, warmLeft>>
  BY DEF Info!Requests, Info!fetchVars, l
<1>2. /\ stage' \in [Info!Callers -> {"idle", "waiting", "listing", "optional"}]
      /\ wants' \in [Info!Callers -> Info!Caches \cup {"none"}]
      /\ stage'[c] = "listing" /\ wants'[c] = k
      /\ \A d \in Info!Callers \ {c} : stage'[d] = stage[d] /\ wants'[d] = wants[d]
  BY <1>0, <1>1 DEF InfoInv, Info!TypeOK
<1>3. /\ queue \in [Locks -> Seq(Info!Callers)]
      /\ \A m \in Locks : NobodyTwice(queue[m])
  BY DEF InfoInv, Info!TypeOK, QueuesRight, Locks
<1>4. /\ queue' \in [Locks -> Seq(Info!Callers)]
      /\ \A m \in Locks :
             /\ m # l \/ k = "interval" => queue'[m] = queue[m]
             /\ m = l /\ k # "interval" =>
                    /\ NobodyTwice(queue'[m]) /\ IsFirst(c, queue'[m])
                    /\ \A d : Stands(d, queue'[m]) <=> Stands(d, queue[m]) \/ d = c
  <2>1. CASE k = "interval"
    BY <1>0, <1>1, <1>3, <2>1
  <2>2. CASE k # "interval"
    <3> DEFINE r == <<c>> \o Info!Without(queue[l], c)
    <3>1. queue' = [queue EXCEPT ![l] = r]
      BY <1>1, <2>2
    <3>2. queue[l] \in Seq(Info!Callers) /\ NobodyTwice(queue[l])
      BY <1>0, <1>3
    <3>3. /\ r \in Seq(Info!Callers) /\ NobodyTwice(r) /\ IsFirst(c, r)
          /\ \A d : Stands(d, r) <=> Stands(d, queue[l]) \/ d = c
      BY <3>2, FrontGives
    <3> HIDE DEF r
    <3>. QED
      BY <1>0, <1>3, <2>2, <3>1, <3>3
  <2>. QED
    BY <2>1, <2>2
<1>5. Info!TypeOK'
  <2>1. tried' \in [Info!Markets -> 0..Retry]
    BY <1>1, InfoNumbers DEF InfoInv, Info!TypeOK
  <2>. QED
    BY <1>1, <1>2, <1>4, <2>1 DEF InfoInv, Info!TypeOK, Locks, Info!Offered
<1>6. UsesRight'
  BY <1>0, <1>2 DEF InfoInv, UsesRight, Info!Offered
\* Whom the lock lets through is alone with it.
<1>7. ASSUME NEW d \in Info!Callers, k # "interval", Locking(d, l),
             stage[d] \in {"listing", "optional"}
      PROVE  FALSE
  <2>1. IsFirst(d, queue[l])
    BY <1>0, <1>7 DEF InfoInv, QueuesRight
  <2>2. IsFirst(c, queue[l])
    BY <1>7, <2>1 DEF IsFirst, l
  <2>. QED
    BY <1>7, <2>1, <2>2 DEF IsFirst
<1>8. QueuesRight'
  <2>1. ASSUME NEW m \in Locks, m # l \/ k = "interval", NEW d \in Info!Callers
        PROVE  Locking(d, m)' <=> Locking(d, m)
    BY <1>2, <2>1 DEF Locking, l
  <2>2. ASSUME k # "interval", NEW d \in Info!Callers
        PROVE  Locking(d, l)' <=> Locking(d, l) \/ d = c
    BY <1>2, <2>2 DEF Locking, l
  <2> SUFFICES ASSUME NEW m \in Locks
               PROVE  /\ NobodyTwice(queue'[m])
                      /\ \A d \in Info!Callers :
                             /\ Stands(d, queue'[m]) <=> Locking(d, m)'
                             /\ Locking(d, m)' /\ stage'[d] \in {"listing", "optional"} =>
                                    IsFirst(d, queue'[m])
    BY DEF QueuesRight, NobodyTwice, Stands, IsFirst
  <2>3. CASE m # l \/ k = "interval"
    <3>1. Locking(c, m)' => FALSE
      BY <1>2, <2>3 DEF Locking, l
    <3>. QED
      BY <1>2, <1>4, <2>1, <2>3, <3>1 DEF InfoInv, QueuesRight
  <2>4. CASE m = l /\ k # "interval"
    BY <1>2, <1>4, <1>7, <2>2, <2>4 DEF InfoInv, QueuesRight
  <2>. QED
    BY <2>3, <2>4
<1>9. /\ k \in Info!Markets => \A d \in Info!Callers : ~Info!Fetching(d)
      /\ \A d \in Info!Callers \ {c} : Info!Fetching(d)' <=> Info!Fetching(d)
      /\ Info!Fetching(c)' <=> k \in Info!Markets
      /\ ~Info!Fetching(c)
  <2>1. ASSUME k \in Info!Markets, NEW d \in Info!Callers, Info!Fetching(d)
        PROVE  FALSE
    BY <1>0, <1>7, <2>1 DEF Info!Fetching, Locking, Info!LockOf, Info!Markets
  <2>. QED
    BY <1>2, <2>1 DEF Info!Fetching
<1>10. k \in Info!Markets /\ k \in cached => elapsed[k] = Refresh
  BY InfoNumbers DEF Info!Fresh, InfoInv, Info!TypeOK
<1>11. FetchRight'
  <2>1. ASSUME NEW d \in Info!Callers, Info!Fetching(d)'
        PROVE  /\ tried'[wants'[d]] = since'
               /\ wants'[d] \in cached' => elapsed'[wants'[d]] = Refresh
    <3>1. CASE d = c
      BY <1>1, <1>2, <1>9, <1>10, <2>1, <3>1 DEF InfoInv, FetchRight, Info!TypeOK
    <3>2. CASE d # c
      BY <1>1, <1>2, <1>9, <2>1, <3>2 DEF InfoInv, FetchRight
    <3>. QED
      BY <3>1, <3>2
  <2>. QED
    BY <1>1, <1>2, <1>9, <2>1 DEF InfoInv, FetchRight
<1>12. WarmRight'
  BY <1>1, <1>2 DEF InfoInv, WarmRight, Info!Callers
<1>13. IntervalsRight'
  BY <1>2, IntervalsStay DEF InfoInv
<1>14. ASSUME k \in Info!Markets, k \in cached
       PROVE  age[k] = Refresh /\ tried[k] = Retry
  <2>1. /\ elapsed[k] = Refresh /\ age[k] \in 0..Refresh /\ tried[k] \in 0..Retry
        /\ AgeRight(k)
    BY <1>10, <1>14 DEF InfoInv, AgesRight, Info!TypeOK
  <2>. QED
    BY <1>9, <1>14, <2>1, InfoNumbers DEF AgeRight
<1>15. AgesRight'
  <2> SUFFICES ASSUME NEW m \in Info!Markets, m \in cached PROVE AgeRight(m)'
    BY DEF AgesRight
  <2>1. CASE m = k
    <3>1. tried'[m] = 0 /\ elapsed'[m] = Refresh /\ age'[m] = Refresh
      BY <1>1, <1>10, <1>14, <2>1 DEF InfoInv, Info!TypeOK
    <3>2. Info!Fetching(c)' /\ wants'[c] = m
      BY <1>2, <1>9, <2>1
    <3>. QED
      BY <3>1, <3>2, InfoNumbers DEF AgeRight
  <2>2. CASE m # k
    <3>1. /\ AgeRight(m) /\ tried'[m] = tried[m]
          /\ elapsed'[m] = elapsed[m] /\ age'[m] = age[m]
      BY <1>1, <2>2 DEF InfoInv, AgesRight, Info!TypeOK
    <3>2. (\E d \in Info!Callers : Info!Fetching(d) /\ wants[d] = m) =>
              \E d \in Info!Callers : Info!Fetching(d)' /\ wants'[d] = m
      BY <1>2, <1>9
    <3>. QED
      BY <3>1, <3>2 DEF AgeRight
  <2>. QED
    BY <2>1, <2>2
<1>16. Info!FetchStep
  <2> SUFFICES ASSUME NEW d \in Info!Callers, stage[d] # "listing", stage'[d] = "listing",
                      wants'[d] # "interval"
               PROVE  \/ wants'[d] \notin cached
                      \/ /\ wants'[d] \in Info!Markets
                         /\ age[wants'[d]] >= Refresh /\ tried[wants'[d]] >= Retry
    BY DEF Info!FetchStep
  <2>1. d = c /\ wants'[d] = k
    BY <1>2
  <2>2. k \notin Info!Markets => k \notin cached
    BY DEF Info!Fresh
  <2>. QED
    BY <1>14, <2>1, <2>2, InfoNumbers
<1>. QED
  BY <1>5, <1>6, <1>8, <1>11, <1>12, <1>13, <1>15, <1>16 DEF InfoInv

\* A use that ends and leaves the caches as they are.
LEMMA EndsQuietlyKeepsInfo ==
  ASSUME InfoInv, NEW c \in Info!Callers, NEW r \in BOOLEAN, Info!Ends(c, r),
         ~Info!Fetching(c), c = Warm => warmLeft # <<>>,
         UNCHANGED <<adapter, server, cached, partial, intervals, elapsed, age, tried>>
  PROVE  InfoInv' /\ Info!FetchStep
<1>1. /\ Info!IntervalsCoverListing'
      /\ cached' \subseteq Info!Offered /\ partial' \subseteq Info!Markets
      /\ intervals' \in {"none", "rows", "default"}
      /\ elapsed' \in [Info!Markets -> 0..Refresh]
      /\ age' \in [Info!Markets -> 0..Refresh]
      /\ tried' \in [Info!Markets -> 0..Retry]
  BY FetchStays DEF InfoInv, Info!TypeOK, IntervalsRight, Info!IntervalsCoverListing
<1>. QED
  BY <1>1, EndsKeepsInfo

\* Who has the lock uses what is fresh, or begins to ask.
LEMMA LooksKeepsInfo ==
  ASSUME InfoInv, NEW c \in Info!Callers, NEW k \in Info!Offered, Info!Looks(c, k),
         stage[c] = "idle" \/ (stage[c] = "waiting" /\ wants[c] = k),
         \/ Info!Fresh(k) \/ k = "interval"
         \/ queue[Info!LockOf(k)] = <<>>
         \/ IsFirst(c, queue[Info!LockOf(k)]),
         c = Warm => warmLeft # <<>>,
         server # "running" => stage[c] # "idle",
         UNCHANGED <<adapter, cached, partial, intervals, elapsed, server, age>>
  PROVE  InfoInv' /\ Info!FetchStep
<1>1. CASE Info!Fresh(k)
  <2>1. Info!Ends(c, FALSE) /\ tried' = tried
    BY <1>1 DEF Info!Looks
  <2>2. ~Info!Fetching(c)
    BY DEF Info!Fetching
  <2>. QED
    BY <2>1, <2>2, EndsQuietlyKeepsInfo
<1>2. CASE ~Info!Fresh(k)
  <2>1. Info!Requests(c, k)
    BY <1>2 DEF Info!Looks
  <2>. QED
    BY <1>2, <2>1, RequestsKeepInfo
<1>. QED
  BY <1>1, <1>2

\* Who finds the lock taken waits behind all others.
LEMMA WaitsKeepInfo ==
  ASSUME InfoInv, NEW c \in Info!Callers, NEW k \in Info!Offered, k # "interval",
         stage[c] = "idle", server = "running", c = Warm => warmLeft # <<>>,
         stage' = [stage EXCEPT ![c] = "waiting"],
         wants' = [wants EXCEPT ![c] = k],
         queue' = [queue EXCEPT ![Info!LockOf(k)] = Append(@, c)],
         UNCHANGED <<adapter, cached, partial, intervals, elapsed, server, age, since,
                     left, tried, warmLeft>>
  PROVE  InfoInv' /\ Info!FetchStep
<1> DEFINE l == Info!LockOf(k)
<1>0. k \in Info!Caches /\ k # "none" /\ l \in Locks
  BY DEF Info!Offered, Info!Caches, Info!Markets, Info!LockOf, Locks
<1>1. queue' = [queue EXCEPT ![l] = Append(queue[l], c)]
  OBVIOUS
<1> HIDE DEF l
<1>2. /\ stage' \in [Info!Callers -> {"idle", "waiting", "listing", "optional"}]
      /\ wants' \in [Info!Callers -> Info!Caches \cup {"none"}]
      /\ stage'[c] = "waiting" /\ wants'[c] = k
      /\ \A d \in Info!Callers \ {c} : stage'[d] = stage[d] /\ wants'[d] = wants[d]
  BY <1>0 DEF InfoInv, Info!TypeOK
<1>3. /\ queue \in [Locks -> Seq(Info!Callers)]
      /\ \A m \in Locks : NobodyTwice(queue[m])
      /\ ~Stands(c, queue[l])
  BY <1>0 DEF InfoInv, Info!TypeOK, QueuesRight, Locking, Locks
<1>4. /\ queue' \in [Locks -> Seq(Info!Callers)]
      /\ \A m \in Locks : m # l => queue'[m] = queue[m]
      /\ NobodyTwice(queue'[l])
      /\ \A d : Stands(d, queue'[l]) <=> Stands(d, queue[l]) \/ d = c
      /\ \A d : IsFirst(d, queue[l]) => IsFirst(d, queue'[l])
  <2> DEFINE q == Append(queue[l], c)
  <2>1. queue[l] \in Seq(Info!Callers)
    BY <1>0, <1>3
  <2>2. /\ q \in Seq(Info!Callers) /\ NobodyTwice(q)
        /\ \A d : Stands(d, q) <=> Stands(d, queue[l]) \/ d = c
        /\ \A d : IsFirst(d, queue[l]) => IsFirst(d, q)
    BY <1>0, <1>3, <2>1, BackGives
  <2>3. queue' = [queue EXCEPT ![l] = q]
    BY <1>1
  <2> HIDE DEF q
  <2>. QED
    BY <1>0, <1>3, <2>2, <2>3
<1>5. Info!TypeOK'
  BY <1>2, <1>4 DEF InfoInv, Info!TypeOK, Locks, Info!Offered
<1>6. UsesRight'
  BY <1>0, <1>2 DEF InfoInv, UsesRight, Info!Offered
<1>7. QueuesRight'
  <2>1. \A m \in Locks, d \in Info!Callers :
            Locking(d, m)' <=> Locking(d, m) \/ (d = c /\ m = l)
    BY <1>2 DEF Locking, l
  <2> SUFFICES ASSUME NEW m \in Locks
               PROVE  /\ NobodyTwice(queue'[m])
                      /\ \A d \in Info!Callers :
                             /\ Stands(d, queue'[m]) <=> Locking(d, m)'
                             /\ Locking(d, m)' /\ stage'[d] \in {"listing", "optional"} =>
                                    IsFirst(d, queue'[m])
    BY DEF QueuesRight, NobodyTwice, Stands, IsFirst
  <2>2. CASE m # l
    BY <1>2, <1>4, <2>1, <2>2 DEF InfoInv, QueuesRight
  <2>3. CASE m = l
    BY <1>2, <1>4, <2>1, <2>3 DEF InfoInv, QueuesRight
  <2>. QED
    BY <2>2, <2>3
<1>8. \A d \in Info!Callers : Info!Fetching(d)' <=> Info!Fetching(d)
  BY <1>2 DEF Info!Fetching
<1>9. \A d \in Info!Callers : Info!Fetching(d) => wants'[d] = wants[d]
  BY <1>2 DEF Info!Fetching
<1>10. FetchRight'
  BY <1>2, <1>8, <1>9 DEF InfoInv, FetchRight
<1>11. WarmRight'
  BY <1>2 DEF InfoInv, WarmRight, Info!Callers
<1>12. IntervalsRight'
  BY <1>2, IntervalsStay DEF InfoInv
<1>13. AgesRight'
  BY <1>8, <1>9 DEF InfoInv, AgesRight, AgeRight
<1>14. Info!FetchStep
  BY <1>2 DEF Info!FetchStep
<1>. QED
  BY <1>5, <1>6, <1>7, <1>10, <1>11, <1>12, <1>13, <1>14 DEF InfoInv

\* A use begins: at once, behind others, or with a look.
LEMMA AsksKeepsInfo ==
  ASSUME InfoInv, NEW c \in Info!Callers, NEW k \in Info!Caches,
         Info!Asks(c, k) \/ Info!Proceeds(c)
  PROVE  InfoInv' /\ Info!FetchStep
<1>1. CASE Info!Asks(c, k)
  <2>1. /\ server = "running" /\ stage[c] = "idle" /\ k \in Info!Offered
        /\ c = Warm => warmLeft # <<>>
        /\ UNCHANGED <<adapter, cached, partial, intervals, elapsed, server, age>>
    BY <1>1 DEF Info!Asks, Info!cacheVars
  <2>2. CASE k = "interval" \/ (k = "map" /\ Info!Fresh(k)) \/ queue[Info!LockOf(k)] = <<>>
    <3>1. Info!Looks(c, k)
      BY <1>1, <2>2 DEF Info!Asks
    <3>. QED
      BY <2>1, <2>2, <3>1, LooksKeepsInfo
  <2>3. CASE ~(k = "interval" \/ (k = "map" /\ Info!Fresh(k))
                              \/ queue[Info!LockOf(k)] = <<>>)
    <3>1. /\ stage' = [stage EXCEPT ![c] = "waiting"]
          /\ wants' = [wants EXCEPT ![c] = k]
          /\ queue' = [queue EXCEPT ![Info!LockOf(k)] = Append(@, c)]
          /\ UNCHANGED <<since, left, tried, warmLeft>>
      BY <1>1, <2>3 DEF Info!Asks, Info!fetchVars
    <3>. QED
      BY <2>1, <2>3, <3>1, WaitsKeepInfo
  <2>. QED
    BY <2>2, <2>3
<1>2. CASE Info!Proceeds(c)
  <2>1. PICK m \in Info!Offered : m = wants[c]
    BY <1>2 DEF Info!Proceeds, InfoInv, UsesRight
  <2>2. /\ stage[c] = "waiting" /\ wants[c] = m /\ Info!Looks(c, m)
        /\ Head(queue[Info!LockOf(m)]) = c
        /\ UNCHANGED <<adapter, cached, partial, intervals, elapsed, server, age>>
    BY <1>2, <2>1 DEF Info!Proceeds, Info!cacheVars
  <2>3. IsFirst(c, queue[Info!LockOf(m)])
    <3>1. PICK l \in Locks : l = Info!LockOf(m)
      BY DEF Info!LockOf, Locks
    <3>2. Locking(c, l)
      BY <2>2, <3>1 DEF Locking, InfoInv, UsesRight
    <3>3. Stands(c, queue[l]) /\ queue[l] \in Seq(Info!Callers)
      BY <3>2 DEF InfoInv, QueuesRight, Info!TypeOK, Locks
    <3>4. queue[l] # <<>> /\ Head(queue[l]) = c
      BY <2>2, <3>1, <3>3 DEF Stands
    <3>5. queue[l][1] = c
      BY <3>3, <3>4
    <3>. QED
      BY <3>1, <3>4, <3>5 DEF IsFirst
  <2>4. c = Warm => warmLeft # <<>>
    BY <2>2 DEF InfoInv, WarmRight
  <2>. QED
    BY <2>2, <2>3, <2>4, LooksKeepsInfo
<1>. QED
  BY <1>1, <1>2

\* What is fetched, adapter by adapter.
LEMMA FetchFacts ==
  ASSUME adapter \in Info!Adapters, NEW k \in Info!Markets
  PROVE  /\ Info!Fetch(k).optionals \in 0..2
         /\ Info!Fetch(k).fills \in {"never", "at_once", "at_the_end"}
         /\ k # "perp" => Info!Fetch(k).optionals = 0 /\ Info!Fetch(k).fills = "never"
         /\ Info!Fetch(k).fills = "at_the_end" => Info!Fetch(k).optionals = 1
BY DEF Info!Adapters, Info!Markets, Info!Fetch, Info!BinanceFetch, Info!BybitFetch,
   Info!HyperliquidFetch, Info!KrakenFetch, Info!KucoinFetch, Info!OKXFetch, Info!Plain

\* A listing that is stored is as old as its fetch.
LEMMA StoresKeepsInfo ==
  ASSUME InfoInv, NEW c \in Info!Callers, NEW k \in Info!Markets, NEW whole \in BOOLEAN,
         Info!Fetching(c), wants[c] = k, Info!Stores(c, k, whole),
         UNCHANGED <<adapter, server, tried>>,
         intervals' \in {"none", "rows", "default"},
         intervals # "none" => intervals' # "none",
         k = "perp" /\ Info!Fetch(k).fills # "never" => intervals' # "none"
  PROVE  InfoInv' /\ Info!FetchStep
<1>1. /\ cached' = cached \cup {k} /\ partial' \subseteq Info!Markets
      /\ elapsed' = [elapsed EXCEPT ![k] = since]
      /\ age' = [age EXCEPT ![k] = since]
      /\ Info!Ends(c, FALSE)
  BY DEF Info!Stores, InfoInv, Info!TypeOK
<1>2. /\ since \in 0..MaxFetch /\ since \in 0..Refresh /\ tried[k] = since
      /\ since <= (Refresh - Retry) + since
  BY InfoNumbers DEF InfoInv, Info!TypeOK, FetchRight
<1>3. /\ elapsed' \in [Info!Markets -> 0..Refresh] /\ elapsed'[k] = since
      /\ age' \in [Info!Markets -> 0..Refresh] /\ age'[k] = since
      /\ \A m \in Info!Markets \ {k} : elapsed'[m] = elapsed[m] /\ age'[m] = age[m]
  BY <1>1, <1>2 DEF InfoInv, Info!TypeOK
<1>4. cached' \subseteq Info!Offered
  BY <1>1 DEF InfoInv, UsesRight, Info!Fetching, Info!TypeOK
<1>5. Info!IntervalsCoverListing'
  <2>1. Info!Fetch("perp")' = Info!Fetch("perp")
    BY FetchStays
  <2>. QED
    BY <1>1, <2>1 DEF InfoInv, IntervalsRight, Info!IntervalsCoverListing
<1>6. c = Warm => warmLeft # <<>>
  BY DEF InfoInv, WarmRight, Info!Fetching
<1>7. tried' \in [Info!Markets -> 0..Retry]
  BY DEF InfoInv, Info!TypeOK
<1>8. /\ elapsed'[wants[c]] <= age'[wants[c]]
      /\ elapsed'[wants[c]] = age'[wants[c]]
      /\ elapsed'[wants[c]] <= (Refresh - Retry) + tried'[wants[c]]
  BY <1>2, <1>3
<1>9. \A m \in Info!Markets : ~(Info!Fetching(c) /\ wants[c] = m) =>
          /\ m \in cached' <=> m \in cached
          /\ elapsed'[m] = elapsed[m] /\ age'[m] = age[m] /\ tried'[m] = tried[m]
  BY <1>1, <1>3
<1>. QED
  BY <1>1, <1>3, <1>4, <1>5, <1>6, <1>7, <1>8, <1>9, EndsKeepsInfo

\* A fetch that goes on with optional requests.
LEMMA GoesOnKeepsInfo ==
  ASSUME InfoInv, NEW c \in Info!Callers, Info!Fetching(c), wants[c] = "perp",
         stage' \in [Info!Callers -> {"idle", "waiting", "listing", "optional"}],
         stage'[c] = "optional",
         \A d \in Info!Callers \ {c} : stage'[d] = stage[d],
         left' \in {1, 2}, intervals' \in {"none", "rows", "default"},
         intervals # "none" => intervals' # "none",
         Info!Fetch("perp").fills = "at_once" => intervals' # "none",
         UNCHANGED <<adapter, cached, partial, elapsed, queue, wants, since, warmLeft,
                     server, age, tried>>
  PROVE  InfoInv' /\ Info!FetchStep
<1>1. Info!TypeOK'
  BY DEF InfoInv, Info!TypeOK, Info!Offered
<1>2. UsesRight'
  BY DEF InfoInv, UsesRight, Info!Fetching, Info!Offered
<1>3. QueuesRight'
  BY DEF InfoInv, QueuesRight, Locking, Info!Fetching
<1>4. \A d \in Info!Callers : Info!Fetching(d)' <=> Info!Fetching(d)
  BY DEF Info!Fetching
<1>5. FetchRight'
  BY <1>4 DEF InfoInv, FetchRight
<1>6. WarmRight'
  BY DEF InfoInv, WarmRight, Info!Fetching, Info!Callers
<1>7. IntervalsRight'
  <2>1. Info!Fetch("perp")' = Info!Fetch("perp")
    BY FetchStays
  <2>. QED
    BY <2>1 DEF InfoInv, IntervalsRight, Info!IntervalsCoverListing
<1>8. AgesRight'
  BY <1>4 DEF InfoInv, AgesRight, AgeRight
<1>9. Info!FetchStep
  BY DEF Info!FetchStep
<1>. QED
  BY <1>1, <1>2, <1>3, <1>5, <1>6, <1>7, <1>8, <1>9 DEF InfoInv

\* A listing arrives: it is stored, or the fetch goes on.
LEMMA ListedKeepsInfo ==
  ASSUME InfoInv, NEW c \in Info!Callers, Info!Listed(c)
  PROVE  InfoInv' /\ Info!FetchStep
<1>1. PICK k \in Info!Markets : k = wants[c]
  BY DEF Info!Listed
<1>2. /\ stage[c] = "listing" /\ Info!Fetching(c) /\ adapter \in Info!Adapters
      /\ intervals' = IF Info!Fetch(k).fills = "at_once" THEN "rows" ELSE intervals
      /\ UNCHANGED <<adapter, server, tried>>
  BY <1>1 DEF Info!Listed, Info!Fetching, InfoInv, Info!TypeOK
<1>3. intervals' \in {"none", "rows", "default"}
  BY <1>2 DEF InfoInv, Info!TypeOK
<1>4. CASE Info!Fetch(k).optionals = 0
  <2>1. Info!Stores(c, k, TRUE)
    BY <1>1, <1>4 DEF Info!Listed
  <2>2. Info!Fetch(k).fills # "never" => Info!Fetch(k).fills = "at_once"
    BY <1>2, <1>4, FetchFacts
  <2>. QED
    BY <1>1, <1>2, <1>3, <2>1, <2>2, StoresKeepsInfo
<1>5. CASE Info!Fetch(k).optionals # 0
  <2>1. k = "perp" /\ Info!Fetch(k).optionals \in {1, 2}
    BY <1>2, <1>5, FetchFacts
  <2>2. /\ stage' = [stage EXCEPT ![c] = "optional"]
        /\ left' = Info!Fetch(k).optionals
        /\ UNCHANGED <<cached, partial, elapsed, queue, wants, since, warmLeft, age>>
    BY <1>1, <1>5 DEF Info!Listed
  <2>3. /\ stage' \in [Info!Callers -> {"idle", "waiting", "listing", "optional"}]
        /\ stage'[c] = "optional"
        /\ \A d \in Info!Callers \ {c} : stage'[d] = stage[d]
    BY <2>2 DEF InfoInv, Info!TypeOK
  <2>. QED
    BY <1>1, <1>2, <1>3, <2>1, <2>2, <2>3, GoesOnKeepsInfo
<1>. QED
  BY <1>4, <1>5

\* An optional request ends, and the listing is stored or the next one begins.
LEMMA OptionalKeepsInfo ==
  ASSUME InfoInv, NEW c \in Info!Callers, NEW answered \in BOOLEAN,
         Info!OptionalEnds(c, answered)
  PROVE  InfoInv' /\ Info!FetchStep
<1>1. /\ stage[c] = "optional" /\ wants[c] = "perp" /\ Info!Fetching(c)
      /\ "perp" \in Info!Markets /\ adapter \in Info!Adapters /\ left \in {1, 2}
      /\ intervals' = IF Info!Fetch("perp").fills # "at_the_end" THEN intervals
                      ELSE IF answered THEN "rows" ELSE "default"
      /\ UNCHANGED <<adapter, server, tried>>
  BY DEF Info!OptionalEnds, InfoInv, UsesRight, FetchRight, Info!Fetching, Info!Markets,
     Info!TypeOK
<1>2. /\ intervals' \in {"none", "rows", "default"}
      /\ intervals # "none" => intervals' # "none"
      /\ Info!Fetch("perp").fills # "never" => intervals' # "none"
  <2>1. Info!Fetch("perp").fills \in {"never", "at_once", "at_the_end"}
    BY <1>1, FetchFacts
  <2>. QED
    BY <1>1, <2>1 DEF InfoInv, Info!TypeOK, IntervalsRight
<1>3. CASE left = 1 \/ ~answered
  <2>1. Info!Stores(c, "perp", answered)
    BY <1>1, <1>3 DEF Info!OptionalEnds
  <2>. QED
    BY <1>1, <1>2, <2>1, StoresKeepsInfo
<1>4. CASE ~(left = 1 \/ ~answered)
  <2>1. /\ left' = left - 1
        /\ UNCHANGED <<cached, partial, elapsed, queue, stage, wants, since, warmLeft, age>>
    BY <1>4 DEF Info!OptionalEnds
  <2>2. left' \in {1, 2}
    BY <1>1, <1>4, <2>1
  <2>3. stage' \in [Info!Callers -> {"idle", "waiting", "listing", "optional"}]
    BY <2>1 DEF InfoInv, Info!TypeOK
  <2>. QED
    BY <1>1, <1>2, <2>1, <2>2, <2>3, GoesOnKeepsInfo
<1>. QED
  BY <1>3, <1>4

\* A failed fetch leaves an old entry that is due again after Retry.
LEMMA FailsKeepsInfo ==
  ASSUME InfoInv, NEW c \in Info!Callers, Info!Fails(c)
  PROVE  InfoInv' /\ Info!FetchStep
<1>1. PICK k \in Info!Markets : k = wants[c]
  BY DEF Info!Fails, Info!Fetching
<1>2. /\ Info!Fetching(c)
      /\ intervals' \in {intervals, "rows", "default"}
      /\ elapsed' = IF k \notin cached THEN elapsed
                    ELSE [elapsed EXCEPT ![k] = Refresh - Retry + since]
      /\ Info!Ends(c, k \notin cached)
      /\ UNCHANGED <<adapter, cached, partial, server, age, tried>>
  BY <1>1 DEF Info!Fails, Info!Fetching, Info!historyVars
<1>3. /\ since \in 0..MaxFetch /\ tried[k] = since
      /\ k \in cached => elapsed[k] = Refresh /\ age[k] = Refresh
  <2>1. since \in 0..MaxFetch /\ tried[k] = since /\ (k \in cached => elapsed[k] = Refresh)
    BY <1>1, <1>2 DEF InfoInv, Info!TypeOK, FetchRight
  <2>2. k \in cached => elapsed[k] <= age[k] /\ age[k] \in 0..Refresh
    BY DEF InfoInv, Info!TypeOK, AgesRight, AgeRight
  <2>. QED
    BY <2>1, <2>2, InfoNumbers
<1>4. Refresh - Retry + since \in 0..Refresh
  BY <1>3, InfoNumbers
<1>5. /\ elapsed' \in [Info!Markets -> 0..Refresh]
      /\ k \in cached => elapsed'[k] = Refresh - Retry + since
      /\ \A m \in Info!Markets \ {k} : elapsed'[m] = elapsed[m]
  BY <1>2, <1>4 DEF InfoInv, Info!TypeOK
<1>6. k \in cached =>
          /\ elapsed'[k] <= age'[k]
          /\ elapsed'[k] >= (Refresh - Retry) + tried'[k]
          /\ elapsed'[k] <= (Refresh - Retry) + tried'[k]
  BY <1>2, <1>3, <1>4, <1>5, InfoNumbers
<1>7. Info!IntervalsCoverListing'
  <2>1. Info!Fetch("perp")' = Info!Fetch("perp")
    BY <1>2, FetchStays
  <2>. QED
    BY <1>2, <2>1 DEF InfoInv, IntervalsRight, Info!IntervalsCoverListing
<1>8. /\ cached' \subseteq Info!Offered /\ partial' \subseteq Info!Markets
      /\ intervals' \in {"none", "rows", "default"}
      /\ intervals # "none" => intervals' # "none"
      /\ age' \in [Info!Markets -> 0..Refresh]
      /\ tried' \in [Info!Markets -> 0..Retry]
      /\ c = Warm => warmLeft # <<>>
  BY <1>2 DEF InfoInv, Info!TypeOK, WarmRight, Info!Fetching
<1>9. \A m \in Info!Markets : ~(Info!Fetching(c) /\ wants[c] = m) =>
          /\ m \in cached' <=> m \in cached
          /\ elapsed'[m] = elapsed[m] /\ age'[m] = age[m] /\ tried'[m] = tried[m]
  BY <1>1, <1>2, <1>5
<1>10. PICK r \in BOOLEAN : Info!Ends(c, r)
  BY <1>2
<1>. QED
  BY <1>1, <1>2, <1>5, <1>6, <1>7, <1>8, <1>9, <1>10, EndsKeepsInfo

\* A map of symbols arrives, or the interval of one symbol.
LEMMA LooksUpKeepsInfo ==
  ASSUME InfoInv, NEW c \in Info!Callers, NEW answered \in BOOLEAN,
         Info!LooksUp(c, answered)
  PROVE  InfoInv' /\ Info!FetchStep
<1>1. PICK k \in Info!Offered \ Info!Markets : k = wants[c]
  BY DEF Info!LooksUp, InfoInv, UsesRight
<1>2. /\ stage[c] = "listing" /\ ~Info!Fetching(c)
      /\ cached' \in {cached, cached \cup {k}}
      /\ UNCHANGED <<adapter, partial, intervals, elapsed, server, age, tried>>
  BY <1>1 DEF Info!LooksUp, Info!Fetching, Info!historyVars
<1>3. PICK r \in BOOLEAN : Info!Ends(c, r)
  BY DEF Info!LooksUp
<1>4. Info!IntervalsCoverListing'
  <2>1. Info!Fetch("perp")' = Info!Fetch("perp") /\ k # "perp"
    BY <1>2, FetchStays DEF Info!Markets
  <2>. QED
    BY <1>2, <2>1 DEF InfoInv, IntervalsRight, Info!IntervalsCoverListing
<1>5. /\ cached' \subseteq Info!Offered /\ partial' \subseteq Info!Markets
      /\ intervals' \in {"none", "rows", "default"}
      /\ elapsed' \in [Info!Markets -> 0..Refresh]
      /\ age' \in [Info!Markets -> 0..Refresh]
      /\ tried' \in [Info!Markets -> 0..Retry]
      /\ c = Warm => warmLeft # <<>>
  BY <1>2 DEF InfoInv, Info!TypeOK, WarmRight
<1>6. \A m \in Info!Markets : m \in cached' <=> m \in cached
  BY <1>2
<1>. QED
  BY <1>2, <1>3, <1>4, <1>5, <1>6, EndsKeepsInfo

\* A use that is cancelled gives up its place, and its fetch does not count.
LEMMA CancelledKeepsInfo ==
  ASSUME InfoInv, NEW c \in Info!Callers, Info!Cancelled(c)
  PROVE  InfoInv' /\ Info!FetchStep
<1>1. /\ Info!Ends(c, TRUE)
      /\ tried' = IF Info!Fetching(c) THEN [tried EXCEPT ![wants[c]] = Retry] ELSE tried
      /\ UNCHANGED <<adapter, cached, partial, intervals, elapsed, server, age>>
      /\ c = Warm => warmLeft # <<>>
  BY DEF Info!Cancelled, Info!cacheVars, InfoInv, WarmRight
<1>2. CASE ~Info!Fetching(c)
  BY <1>1, <1>2, EndsQuietlyKeepsInfo
<1>3. CASE Info!Fetching(c)
  <2>1. PICK k \in Info!Markets : k = wants[c]
    BY <1>3 DEF Info!Fetching
  <2>2. /\ tried' \in [Info!Markets -> 0..Retry] /\ tried'[k] = Retry
        /\ \A m \in Info!Markets \ {k} : tried'[m] = tried[m]
    BY <1>1, <1>3, <2>1, InfoNumbers DEF InfoInv, Info!TypeOK
  <2>3. k \in cached => /\ elapsed[k] = Refresh /\ elapsed[k] <= age[k]
                        /\ elapsed[k] >= (Refresh - Retry) + Retry
    BY <1>3, <2>1, InfoNumbers DEF InfoInv, FetchRight, AgesRight, AgeRight
  <2>4. /\ cached' \subseteq Info!Offered /\ partial' \subseteq Info!Markets
        /\ intervals' \in {"none", "rows", "default"}
        /\ elapsed' \in [Info!Markets -> 0..Refresh]
        /\ age' \in [Info!Markets -> 0..Refresh]
        /\ intervals # "none" => intervals' # "none"
        /\ Info!IntervalsCoverListing'
    BY <1>1, FetchStays DEF InfoInv, Info!TypeOK, IntervalsRight,
       Info!IntervalsCoverListing
  <2>5. \A m \in Info!Markets : ~(Info!Fetching(c) /\ wants[c] = m) =>
            /\ m \in cached' <=> m \in cached
            /\ elapsed'[m] = elapsed[m] /\ age'[m] = age[m] /\ tried'[m] = tried[m]
    BY <1>1, <1>3, <2>1, <2>2
  <2>6. Info!Fetching(c) /\ wants[c] \in cached' =>
            /\ elapsed'[wants[c]] <= age'[wants[c]]
            /\ elapsed'[wants[c]] >= (Refresh - Retry) + tried'[wants[c]]
            /\ tried'[wants[c]] = Retry
    BY <1>1, <2>1, <2>2, <2>3
  <2>. QED
    BY <1>1, <2>2, <2>4, <2>5, <2>6, EndsKeepsInfo
<1>. QED
  BY <1>2, <1>3

\* A tick ages everything alike, up to what is old enough.
LEMMA TickKeepsInfo ==
  ASSUME InfoInv, Info!Tick
  PROVE  InfoInv' /\ Info!FetchStep
<1>1. /\ \A c \in Info!Callers : Info!Fetching(c) => since < MaxFetch
      /\ since' = IF \E c \in Info!Callers : Info!Fetching(c) THEN since + 1 ELSE since
      /\ elapsed' = [k \in Info!Markets |-> Info!Least(elapsed[k] + 1, Refresh)]
      /\ age' = [k \in Info!Markets |-> Info!Least(age[k] + 1, Refresh)]
      /\ tried' = [k \in Info!Markets |-> Info!Least(tried[k] + 1, Retry)]
      /\ UNCHANGED <<adapter, cached, partial, intervals, queue, stage, wants, left,
                     warmLeft, server>>
  BY DEF Info!Tick
<1>2. ASSUME NEW m \in Nat, NEW n \in 0..m
      PROVE  Info!Least(n + 1, m) = (IF n = m THEN m ELSE n + 1)
  BY DEF Info!Least
<1>3. ASSUME NEW k \in Info!Markets
      PROVE  /\ elapsed[k] \in 0..Refresh /\ age[k] \in 0..Refresh /\ tried[k] \in 0..Retry
             /\ elapsed'[k] = IF elapsed[k] = Refresh THEN Refresh ELSE elapsed[k] + 1
             /\ age'[k] = IF age[k] = Refresh THEN Refresh ELSE age[k] + 1
             /\ tried'[k] = IF tried[k] = Retry THEN Retry ELSE tried[k] + 1
  BY <1>1, <1>2, InfoNumbers DEF InfoInv, Info!TypeOK
<1>4. /\ elapsed' \in [Info!Markets -> 0..Refresh]
      /\ age' \in [Info!Markets -> 0..Refresh]
      /\ tried' \in [Info!Markets -> 0..Retry]
  <2>1. \A k \in Info!Markets : /\ Info!Least(elapsed[k] + 1, Refresh) \in 0..Refresh
                                /\ Info!Least(age[k] + 1, Refresh) \in 0..Refresh
                                /\ Info!Least(tried[k] + 1, Retry) \in 0..Retry
    BY <1>3, InfoNumbers DEF Info!Least
  <2>. QED
    BY <1>1, <2>1
<1>5. since' \in 0..MaxFetch
  BY <1>1, InfoNumbers DEF InfoInv, Info!TypeOK
<1>6. Info!TypeOK'
  BY <1>1, <1>4, <1>5 DEF InfoInv, Info!TypeOK, Info!Offered
<1>7. UsesRight' /\ QueuesRight' /\ WarmRight'
  BY <1>1 DEF InfoInv, UsesRight, QueuesRight, WarmRight, Locking, Info!Offered
<1>8. IntervalsRight'
  BY <1>1, IntervalsStay DEF InfoInv
<1>9. \A c \in Info!Callers : Info!Fetching(c)' <=> Info!Fetching(c)
  BY <1>1 DEF Info!Fetching
<1>10. FetchRight'
  <2>1. ASSUME NEW c \in Info!Callers, Info!Fetching(c)
        PROVE  /\ tried'[wants[c]] = since'
               /\ wants[c] \in cached => elapsed'[wants[c]] = Refresh
    <3>1. PICK k \in Info!Markets : k = wants[c]
      BY <2>1 DEF Info!Fetching
    <3>2. /\ tried[k] = since /\ since < MaxFetch /\ since' = since + 1
          /\ k \in cached => elapsed[k] = Refresh
      BY <1>1, <2>1, <3>1 DEF InfoInv, FetchRight
    <3>3. tried'[k] = since + 1
      BY <1>3, <3>2, InfoNumbers
    <3>4. k \in cached => elapsed'[k] = Refresh
      BY <1>3, <3>2
    <3>. QED
      BY <3>1, <3>2, <3>3, <3>4
  <2>2. ASSUME \A c \in Info!Callers : ~Info!Fetching(c) PROVE since' = 0
    BY <1>1, <2>2 DEF InfoInv, FetchRight
  <2>. QED
    BY <1>1, <1>9, <2>1, <2>2 DEF InfoInv, FetchRight
<1>11. AgesRight'
  <2> SUFFICES ASSUME NEW k \in Info!Markets, k \in cached' PROVE AgeRight(k)'
    BY DEF AgesRight
  <2>1. AgeRight(k)
    BY <1>1 DEF InfoInv, AgesRight
  <2>2. elapsed'[k] <= age'[k]
    BY <1>3, <2>1, InfoNumbers DEF AgeRight
  <2>3. elapsed'[k] = age'[k] \/ elapsed'[k] >= (Refresh - Retry) + tried'[k]
    BY <1>3, <2>1, InfoNumbers DEF AgeRight
  <2>4. \/ \E c \in Info!Callers : Info!Fetching(c) /\ wants[c] = k
        \/ tried'[k] = Retry
        \/ elapsed'[k] <= (Refresh - Retry) + tried'[k]
    BY <1>3, <2>1, InfoNumbers DEF AgeRight
  <2>. QED
    BY <1>1, <1>9, <2>2, <2>3, <2>4 DEF AgeRight
<1>12. Info!FetchStep
  BY <1>1 DEF Info!FetchStep
<1>. QED
  BY <1>6, <1>7, <1>8, <1>10, <1>11, <1>12 DEF InfoInv

\* The warm-up and the shutdown.
LEMMA ServerKeepsInfo ==
  ASSUME InfoInv,
         UNCHANGED <<adapter, cached, partial, intervals, elapsed, queue, stage, wants,
                     since, left, warmLeft, age, tried>>,
         Info!ShutdownBegins \/ Info!ShutdownEnds \/ server' = server
  PROVE  InfoInv' /\ Info!FetchStep
<1>1. /\ server' \in {"running", "stopping", "closed"}
      /\ server' = server \/ server' = "stopping" \/ server' = "closed"
  BY DEF Info!ShutdownBegins, Info!ShutdownEnds, InfoInv, Info!TypeOK
<1>2. Info!TypeOK'
  BY <1>1 DEF InfoInv, Info!TypeOK, Info!Offered
<1>3. UsesRight' /\ QueuesRight'
  BY DEF InfoInv, UsesRight, QueuesRight, Locking, Info!Offered
<1>4. WarmRight'
  BY DEF InfoInv, WarmRight, Info!ShutdownBegins, Info!ShutdownEnds
<1>5. IntervalsRight'
  BY IntervalsStay DEF InfoInv
<1>6. FetchRight' /\ AgesRight'
  <2>1. \A c \in Info!Callers : Info!Fetching(c)' <=> Info!Fetching(c)
    BY DEF Info!Fetching
  <2>. QED
    BY <2>1 DEF InfoInv, FetchRight, AgesRight, AgeRight
<1>7. Info!FetchStep
  BY DEF Info!FetchStep
<1>. QED
  BY <1>2, <1>3, <1>4, <1>5, <1>6, <1>7 DEF InfoInv

\* Every step of the info caches keeps their invariant.
LEMMA InfoNextKeepsInv ==
  ASSUME InfoInv, Info!Next
  PROVE  InfoInv' /\ Info!FetchStep
<1>1. ASSUME NEW c \in Info!Callers, Info!CallNext(c)
      PROVE  InfoInv' /\ Info!FetchStep
  <2>1. CASE \E k \in Info!Caches : Info!Asks(c, k)
    BY <2>1, AsksKeepsInfo
  <2>2. CASE Info!Proceeds(c)
    <3>1. PICK k \in Info!Caches : TRUE
      BY DEF Info!Caches, Info!Markets
    <3>. QED
      BY <2>2, <3>1, AsksKeepsInfo
  <2>3. CASE Info!Listed(c) \/ Info!Fails(c) \/ Info!Cancelled(c)
    BY <2>3, ListedKeepsInfo, FailsKeepsInfo, CancelledKeepsInfo
  <2>4. CASE \E answered \in BOOLEAN :
                 Info!OptionalEnds(c, answered) \/ Info!LooksUp(c, answered)
    BY <2>4, OptionalKeepsInfo, LooksUpKeepsInfo
  <2>. QED
    BY <1>1, <2>1, <2>2, <2>3, <2>4 DEF Info!CallNext
<1>2. CASE Info!Tick
  BY <1>2, TickKeepsInfo
<1>3. CASE Info!ShutdownBegins \/ Info!ShutdownEnds \/ Info!Terminated
  BY <1>3, ServerKeepsInfo DEF Info!ShutdownBegins, Info!ShutdownEnds, Info!Terminated,
     Info!vars, Info!cacheVars, Info!fetchVars, Info!historyVars
<1>. QED
  BY <1>1, <1>2, <1>3 DEF Info!Next

\* What the run checks follows.
LEMMA InfoInvIsSound ==
  ASSUME InfoInv
  PROVE  Info!InfoInvariant /\ Info!FreshIsRecent
<1>1. Info!NothingAfterShutdown
  BY DEF InfoInv, WarmRight, Info!NothingAfterShutdown, Info!Callers
<1>2. Info!FreshIsRecent
  <2> SUFFICES ASSUME NEW k \in Info!Markets, k \in cached, elapsed[k] < Refresh
               PROVE  age[k] < Refresh \/ tried[k] < Retry
    BY DEF Info!FreshIsRecent, Info!Fresh
  <2>1. /\ elapsed[k] \in 0..Refresh /\ age[k] \in 0..Refresh /\ tried[k] \in 0..Retry
        /\ AgeRight(k)
    BY DEF InfoInv, Info!TypeOK, AgesRight
  <2>. QED
    BY <2>1, InfoNumbers DEF AgeRight
<1>. QED
  BY <1>1, <1>2 DEF InfoInv, IntervalsRight, Info!InfoInvariant

\* The invariant holds throughout.
LEMMA InfoStaysInv == Spec => [](part = "info" => InfoInv)
<1> DEFINE IInv == part = "info" => InfoInv
<1>1. Init => IInv
  BY InfoInit DEF Init
<1>2. IInv /\ [Next]_vars => IInv'
  <2> SUFFICES ASSUME IInv, [Next]_vars, part' = "info" PROVE InfoInv'
    OBVIOUS
  <2>1. CASE InfoNext
    BY <2>1, InfoNextKeepsInv DEF InfoNext
  <2>2. CASE UNCHANGED vars
    <3>1. /\ InfoInv /\ server' = server
          /\ UNCHANGED <<adapter, cached, partial, intervals, elapsed, queue, stage,
                         wants, since, left, warmLeft, age, tried>>
      BY <2>2 DEF vars, InfoVars
    <3>. QED
      BY <3>1, ServerKeepsInfo
  <2>. QED
    BY <2>1, <2>2 DEF Next, SnapNext, PoolNext, QuoteNext
<1>. QED
  BY <1>1, <1>2, PTL DEF Spec

\* Whoever is served a listing finds its intervals, nobody asks once the adapter is
\* closed, and what passes for fresh is younger than the period of refresh or was
\* tried within the last hour.
THEOREM CachesStaySound == Spec => []CachesAreSound
<1>1. (part = "info" => InfoInv) => CachesAreSound
  BY InfoInvIsSound DEF CachesAreSound
<1>. QED
  BY <1>1, InfoStaysInv, PTL

\* A listing is fetched only when it is due, by one coroutine, and after a failure
\* not before the time to retry, however many calls and streams want it.
THEOREM FetchesStaySpaced == Spec => FetchesAreSpaced
<1>1. (part = "info" => InfoInv) /\ [Next]_vars => [part = "info" => Info!FetchStep]_vars
  <2> SUFFICES ASSUME part = "info" => InfoInv, Next, part = "info"
               PROVE  Info!FetchStep
    OBVIOUS
  <2>. QED
    BY InfoNextKeepsInv DEF Next, InfoNext, PoolNext, SnapNext, QuoteNext
<1>. QED
  BY <1>1, InfoStaysInv, PTL DEF Spec, FetchesAreSpaced

-----------------------------------------------------------------------------
(* Quotes *)

\* What a price, an amount and a funding block must be, as the properties say.
AmountIsTrue(v, f) ==
    v.kind = "value" /\ Quote!Complete(f) =>
        /\ v.usd \in {Quote!Missing, Quote!Usd(f)}
        /\ v.usd = Quote!Missing => route = "orderbook"
        /\ v.unit = IF market = "inverse" THEN "contract" ELSE "base"
        /\ v.native = IF market = "inverse" THEN f.size ELSE Quote!Base(f)
BlockIsWhole(v) ==
    v.kind = "mark" /\ v.funding.kind # "none" =>
        /\ v.funding.power = 0
        /\ v.funding.cycle # Quote!Missing
        /\ v.funding.until > Quote!Now
IsTrue(v, f) == AmountIsTrue(v, f) /\ BlockIsWhole(v)

\* A stream leaves out what a call raises on.
Streamed(v) == IF v = Quote!Raised THEN Quote!Skipped ELSE v

\* A listing of the market: of a symbol that is known, or of one that is not.
IsListing(i) == \E k \in BOOLEAN : i = Quote!Listing(market, k)

\* What a call gives is the route's, what a stream gives the stream's, for a frame
\* that the exchange may send and a listing that there may be.
OutFits ==
    \/ out.way = "none" /\ out.result = Quote!Nothing
    \/ /\ out.way = "rest"
       /\ route \in Quote!RestRoutes(market)
       /\ out.frame \in Quote!Frames(route)
       /\ IsListing(out.listing)
       /\ out.result = Quote!Rest(out.frame, out.listing)
    \/ /\ out.way = "stream"
       /\ route \in Quote!StreamRoutes(adapter, market)
       /\ out.frame \in Quote!Frames(route)
       /\ IsListing(out.listing) /\ ~Quote!CannotOpen(out.listing)
       /\ out.result = Streamed(Quote!Frame(out.frame, out.listing))

\* An open stream has a listing to open with.
KeptOpens ==
    stream = "open" => /\ route \in Quote!StreamRoutes(adapter, market)
                       /\ ~Quote!CannotOpen(kept)

\* The inductive invariant of the quotes.
QuoteInv == Quote!TypeOK /\ OutFits /\ KeptOpens

\* Contract sizes and cycles are positive, and there is one where it is needed.
LEMMA ListingFacts ==
  ASSUME NEW i, IsListing(i)
  PROVE  /\ i.known \in BOOLEAN
         /\ i.size \in {Quote!Missing, UsdSize}
         /\ market = "inverse" \/ i.size = Quote!Missing
         /\ i.multiplier \in {Quote!Missing, BaseSize}
         /\ market = "linear" \/ i.multiplier = Quote!Missing
         /\ i.cycle \in {Quote!Missing, Cycle}
BY DEF IsListing, Quote!Listing

\* The fields of a frame.
LEMMA FrameFacts ==
  ASSUME NEW f \in Quote!Frames(route)
  PROVE  /\ f.price \in {Quote!Missing, 0, Price}
         /\ f.size \in {Quote!Missing, Size}
         /\ f.next \in {Quote!Missing, Quote!Now - 1, Quote!Now + 1}
         /\ f.rate \in BOOLEAN
         /\ route = "mark_price" => f.size = Quote!Missing
BY DEF Quote!Frames

USE NumbersAssumption
USE DEF Quote!Qty, Quote!Volume, Quote!Level, Quote!Value, Quote!Mark, Quote!Funding,
    Quote!NoFunding, Quote!Nothing, Quote!Raised, Quote!Skipped, Quote!Missing,
    Quote!OrZero, Quote!Needs, Quote!Unit, Quote!BuyOrSell, Quote!Complete, Quote!Now

\* What Binance's calls give is true.
LEMMA BinanceRestIsTrue ==
  ASSUME adapter = "binance", market \in Quote!MarketsOf("binance"),
         route \in {"ticker", "book_ticker", "orderbook", "trades", "mark_price"},
         market = "spot" => route # "mark_price",
         NEW f \in Quote!Frames(route), NEW i, IsListing(i)
  PROVE  IsTrue(Quote!BinanceRest(market, route, f, i), f)
<1> USE ListingFacts, FrameFacts DEF Quote!BinanceRest, IsTrue, AmountIsTrue,
      BlockIsWhole, Quote!Base, Quote!Usd, Quote!InContracts, Quote!Markets,
      Quote!MarketsOf
<1>1. CASE route = "ticker"
  BY <1>1 DEF Quote!BinanceGetTicker
<1>2. CASE route = "book_ticker"
  BY <1>2 DEF Quote!BinanceGetBookTicker
<1>3. CASE route = "orderbook"
  BY <1>3 DEF Quote!BinanceGetOrderbook
<1>4. CASE route = "trades"
  BY <1>4 DEF Quote!BinanceGetTrades
<1>5. CASE route = "mark_price"
  BY <1>5 DEF Quote!BinanceGetMarkPrice, Quote!Discrete, Quote!Later
<1>. QED
  BY <1>1, <1>2, <1>3, <1>4, <1>5

\* What Binance's streams give is true.
LEMMA BinanceFrameIsTrue ==
  ASSUME adapter = "binance", market \in Quote!MarketsOf("binance"),
         route \in {"ticker", "book_ticker", "orderbook", "trades", "agg_trades",
                   "mark_price", "liquidations"},
         market = "spot" => route # "mark_price",
         NEW f \in Quote!Frames(route), NEW i, IsListing(i)
  PROVE  IsTrue(Quote!BinanceFrame(market, route, f, i), f)
<1> USE ListingFacts, FrameFacts DEF Quote!BinanceFrame, IsTrue, AmountIsTrue,
      BlockIsWhole, Quote!Base, Quote!Usd, Quote!InContracts, Quote!Markets,
      Quote!MarketsOf
<1>1. CASE route = "ticker"
  BY <1>1 DEF Quote!BinanceStreamTicker
<1>2. CASE route = "book_ticker"
  BY <1>2 DEF Quote!BinanceStreamBookTicker
<1>3. CASE route = "orderbook"
  BY <1>3 DEF Quote!BinanceStreamOrderbook
<1>4. CASE route = "trades"
  BY <1>4 DEF Quote!BinanceStreamTrades
<1>5. CASE route = "agg_trades"
  BY <1>5 DEF Quote!BinanceStreamAggTrades
<1>6. CASE route = "mark_price"
  BY <1>6 DEF Quote!BinanceStreamMarkPrice, Quote!Discrete, Quote!Later
<1>7. CASE route = "liquidations"
  BY <1>7 DEF Quote!BinanceStreamLiquidations
<1>. QED
  BY <1>1, <1>2, <1>3, <1>4, <1>5, <1>6, <1>7

\* What Bybit's calls give is true.
LEMMA BybitRestIsTrue ==
  ASSUME adapter = "bybit", market \in Quote!MarketsOf("bybit"),
         route \in {"ticker", "book_ticker", "orderbook", "trades", "mark_price"},
         market = "spot" => route # "mark_price",
         NEW f \in Quote!Frames(route), NEW i, IsListing(i)
  PROVE  IsTrue(Quote!BybitRest(market, route, f, i), f)
<1> USE ListingFacts, FrameFacts DEF Quote!BybitRest, IsTrue, AmountIsTrue,
      BlockIsWhole, Quote!Base, Quote!Usd, Quote!InContracts, Quote!Markets,
      Quote!MarketsOf
<1>1. CASE route = "ticker"
  BY <1>1 DEF Quote!BybitGetTicker
<1>2. CASE route = "book_ticker"
  BY <1>2 DEF Quote!BybitGetBookTicker
<1>3. CASE route = "orderbook"
  BY <1>3 DEF Quote!BybitGetOrderbook
<1>4. CASE route = "trades"
  BY <1>4 DEF Quote!BybitGetTrades
<1>5. CASE route = "mark_price"
  BY <1>5 DEF Quote!BybitGetMarkPrice, Quote!Discrete, Quote!Later
<1>. QED
  BY <1>1, <1>2, <1>3, <1>4, <1>5

\* What Bybit's streams give is true.
LEMMA BybitFrameIsTrue ==
  ASSUME adapter = "bybit", market \in Quote!MarketsOf("bybit"),
         route \in {"ticker", "book_ticker", "trades", "liquidations"},
         NEW f \in Quote!Frames(route), NEW i, IsListing(i)
  PROVE  IsTrue(Quote!BybitFrame(market, route, f, i), f)
<1> USE ListingFacts, FrameFacts DEF Quote!BybitFrame, IsTrue, AmountIsTrue,
      BlockIsWhole, Quote!Base, Quote!Usd, Quote!InContracts, Quote!Markets,
      Quote!MarketsOf
<1>1. CASE route = "ticker"
  BY <1>1 DEF Quote!BybitStreamTicker
<1>2. CASE route = "book_ticker"
  BY <1>2 DEF Quote!BybitStreamBookTicker
<1>3. CASE route = "trades"
  BY <1>3 DEF Quote!BybitStreamTrades
<1>4. CASE route = "liquidations"
  BY <1>4 DEF Quote!BybitStreamLiquidations
<1>. QED
  BY <1>1, <1>2, <1>3, <1>4

\* What Hyperliquid's calls give is true.
LEMMA HyperliquidRestIsTrue ==
  ASSUME adapter = "hyperliquid", market \in Quote!MarketsOf("hyperliquid"),
         route \in {"ticker", "book_ticker", "orderbook", "trades", "mark_price"},
         market = "spot" => route # "mark_price",
         NEW f \in Quote!Frames(route), NEW i, IsListing(i)
  PROVE  IsTrue(Quote!HyperliquidRest(route, f), f)
<1> USE ListingFacts, FrameFacts DEF Quote!HyperliquidRest, IsTrue, AmountIsTrue,
      BlockIsWhole, Quote!Base, Quote!Usd, Quote!InContracts, Quote!Markets,
      Quote!MarketsOf
<1>1. CASE route = "ticker"
  BY <1>1 DEF Quote!HyperliquidGetTicker
<1>2. CASE route = "book_ticker"
  BY <1>2 DEF Quote!HyperliquidGetBookTicker
<1>3. CASE route = "orderbook"
  BY <1>3 DEF Quote!HyperliquidGetOrderbook
<1>4. CASE route = "trades"
  BY <1>4 DEF Quote!HyperliquidGetTrades
<1>5. CASE route = "mark_price"
  BY <1>5 DEF Quote!HyperliquidGetMarkPrice, Quote!HyperliquidFunding
<1>. QED
  BY <1>1, <1>2, <1>3, <1>4, <1>5

\* What Hyperliquid's streams give is true.
LEMMA HyperliquidFrameIsTrue ==
  ASSUME adapter = "hyperliquid", market \in Quote!MarketsOf("hyperliquid"),
         route \in {"ticker", "book_ticker", "trades", "mark_price"},
         market = "spot" => route # "mark_price",
         NEW f \in Quote!Frames(route), NEW i, IsListing(i)
  PROVE  IsTrue(Quote!HyperliquidFrame(route, f), f)
<1> USE ListingFacts, FrameFacts DEF Quote!HyperliquidFrame, IsTrue, AmountIsTrue,
      BlockIsWhole, Quote!Base, Quote!Usd, Quote!InContracts, Quote!Markets,
      Quote!MarketsOf
<1>1. CASE route = "ticker"
  BY <1>1 DEF Quote!HyperliquidStreamTicker
<1>2. CASE route = "book_ticker"
  BY <1>2 DEF Quote!HyperliquidStreamBookTicker
<1>3. CASE route = "trades"
  BY <1>3 DEF Quote!HyperliquidStreamTrades
<1>4. CASE route = "mark_price"
  BY <1>4 DEF Quote!HyperliquidStreamMarkPrice, Quote!HyperliquidFunding
<1>. QED
  BY <1>1, <1>2, <1>3, <1>4

\* What Kraken's calls give is true.
LEMMA KrakenRestIsTrue ==
  ASSUME adapter = "kraken", market \in Quote!MarketsOf("kraken"),
         route \in {"ticker", "book_ticker", "orderbook", "trades", "mark_price"},
         market = "spot" => route # "mark_price",
         NEW f \in Quote!Frames(route), NEW i, IsListing(i)
  PROVE  IsTrue(Quote!KrakenRest(market, route, f, i), f)
<1> USE ListingFacts, FrameFacts DEF Quote!KrakenRest, IsTrue, AmountIsTrue,
      BlockIsWhole, Quote!Base, Quote!Usd, Quote!InContracts, Quote!Markets,
      Quote!MarketsOf
<1>1. CASE route = "ticker"
  BY <1>1 DEF Quote!KrakenGetTicker
<1>2. CASE route = "book_ticker"
  BY <1>2 DEF Quote!KrakenGetBookTicker
<1>3. CASE route = "orderbook"
  BY <1>3 DEF Quote!KrakenGetOrderbook
<1>4. CASE route = "trades"
  BY <1>4 DEF Quote!KrakenGetTrades
<1>5. CASE route = "mark_price"
  BY <1>5 DEF Quote!KrakenGetMarkPrice, Quote!KrakenFunding, Quote!RatePower
<1>. QED
  BY <1>1, <1>2, <1>3, <1>4, <1>5

\* What Kraken's streams give is true.
LEMMA KrakenFrameIsTrue ==
  ASSUME adapter = "kraken", market \in Quote!MarketsOf("kraken"),
         route \in {"ticker", "book_ticker", "trades", "mark_price"},
         market = "spot" => route # "mark_price",
         NEW f \in Quote!Frames(route), NEW i, IsListing(i)
  PROVE  IsTrue(Quote!KrakenFrame(market, route, f, i), f)
<1> USE ListingFacts, FrameFacts DEF Quote!KrakenFrame, IsTrue, AmountIsTrue,
      BlockIsWhole, Quote!Base, Quote!Usd, Quote!InContracts, Quote!Markets,
      Quote!MarketsOf
<1>1. CASE route = "ticker"
  BY <1>1 DEF Quote!KrakenStreamTicker
<1>2. CASE route = "book_ticker"
  BY <1>2 DEF Quote!KrakenStreamBookTicker
<1>3. CASE route = "trades"
  BY <1>3 DEF Quote!KrakenStreamTrades
<1>4. CASE route = "mark_price"
  BY <1>4 DEF Quote!KrakenStreamMarkPrice, Quote!KrakenFunding, Quote!RatePower
<1>. QED
  BY <1>1, <1>2, <1>3, <1>4

\* What KuCoin's calls give is true.
LEMMA KucoinRestIsTrue ==
  ASSUME adapter = "kucoin", market \in Quote!MarketsOf("kucoin"),
         route \in {"ticker", "book_ticker", "orderbook", "trades", "mark_price"},
         market = "spot" => route # "mark_price",
         NEW f \in Quote!Frames(route), NEW i, IsListing(i)
  PROVE  IsTrue(Quote!KucoinRest(market, route, f, i), f)
<1> USE ListingFacts, FrameFacts DEF Quote!KucoinRest, IsTrue, AmountIsTrue,
      BlockIsWhole, Quote!Base, Quote!Usd, Quote!InContracts, Quote!Markets,
      Quote!MarketsOf
<1>1. CASE route = "ticker"
  BY <1>1 DEF Quote!KucoinGetTicker
<1>2. CASE route = "book_ticker"
  BY <1>2 DEF Quote!KucoinGetBookTicker, Quote!KucoinQty
<1>3. CASE route = "orderbook"
  BY <1>3 DEF Quote!KucoinGetOrderbook, Quote!KucoinLevel
<1>4. CASE route = "trades"
  BY <1>4 DEF Quote!KucoinGetTrades, Quote!KucoinQty
<1>5. CASE route = "mark_price"
  BY <1>5 DEF Quote!KucoinGetMarkPrice, Quote!Discrete, Quote!Later
<1>. QED
  BY <1>1, <1>2, <1>3, <1>4, <1>5

\* What KuCoin's streams give is true.
LEMMA KucoinFrameIsTrue ==
  ASSUME adapter = "kucoin", market \in Quote!MarketsOf("kucoin"),
         route \in {"ticker", "book_ticker", "orderbook", "trades", "mark_price"},
         market = "spot" => route # "mark_price",
         NEW f \in Quote!Frames(route), NEW i, IsListing(i)
  PROVE  IsTrue(Quote!KucoinFrame(market, route, f, i), f)
<1> USE ListingFacts, FrameFacts DEF Quote!KucoinFrame, IsTrue, AmountIsTrue,
      BlockIsWhole, Quote!Base, Quote!Usd, Quote!InContracts, Quote!Markets,
      Quote!MarketsOf
<1>1. CASE route = "ticker"
  BY <1>1 DEF Quote!KucoinStreamTicker
<1>2. CASE route = "book_ticker"
  BY <1>2 DEF Quote!KucoinStreamBookTicker, Quote!KucoinQty
<1>3. CASE route = "orderbook"
  BY <1>3 DEF Quote!KucoinStreamOrderbook, Quote!KucoinLevel
<1>4. CASE route = "trades"
  BY <1>4 DEF Quote!KucoinStreamTrades, Quote!KucoinQty
<1>5. CASE route = "mark_price"
  BY <1>5 DEF Quote!KucoinStreamMarkPrice, Quote!Discrete, Quote!Later
<1>. QED
  BY <1>1, <1>2, <1>3, <1>4, <1>5

\* What OKX's calls give is true.
LEMMA OkxRestIsTrue ==
  ASSUME adapter = "okx", market \in Quote!MarketsOf("okx"),
         route \in {"ticker", "book_ticker", "orderbook", "trades", "mark_price"},
         market = "spot" => route # "mark_price",
         NEW f \in Quote!Frames(route), NEW i, IsListing(i)
  PROVE  IsTrue(Quote!OkxRest(market, route, f, i), f)
<1> USE ListingFacts, FrameFacts DEF Quote!OkxRest, IsTrue, AmountIsTrue,
      BlockIsWhole, Quote!Base, Quote!Usd, Quote!InContracts, Quote!Markets,
      Quote!MarketsOf
<1>1. CASE route = "ticker"
  BY <1>1 DEF Quote!OkxGetTicker
<1>2. CASE route = "book_ticker"
  BY <1>2 DEF Quote!OkxGetBookTicker, Quote!OkxQty
<1>3. CASE route = "orderbook"
  BY <1>3 DEF Quote!OkxGetOrderbook
<1>4. CASE route = "trades"
  BY <1>4 DEF Quote!OkxGetTrades, Quote!OkxQty
<1>5. CASE route = "mark_price"
  BY <1>5 DEF Quote!OkxGetMarkPrice, Quote!Discrete, Quote!Later
<1>. QED
  BY <1>1, <1>2, <1>3, <1>4, <1>5

\* What OKX's streams give is true.
LEMMA OkxFrameIsTrue ==
  ASSUME adapter = "okx", market \in Quote!MarketsOf("okx"),
         route \in {"ticker", "book_ticker", "trades", "mark_price", "liquidations"},
         market = "spot" => route # "mark_price",
         NEW f \in Quote!Frames(route), NEW i, IsListing(i)
  PROVE  IsTrue(Quote!OkxFrame(market, route, f, i), f)
<1> USE ListingFacts, FrameFacts DEF Quote!OkxFrame, IsTrue, AmountIsTrue,
      BlockIsWhole, Quote!Base, Quote!Usd, Quote!InContracts, Quote!Markets,
      Quote!MarketsOf
<1>1. CASE route = "ticker"
  BY <1>1 DEF Quote!OkxStreamTicker
<1>2. CASE route = "book_ticker"
  BY <1>2 DEF Quote!OkxStreamBookTicker, Quote!OkxQty
<1>3. CASE route = "trades"
  BY <1>3 DEF Quote!OkxStreamTrades, Quote!OkxQty
<1>4. CASE route = "mark_price"
  BY <1>4 DEF Quote!OkxStreamMarkPrice
<1>5. CASE route = "liquidations"
  BY <1>5 DEF Quote!OkxStreamLiquidations, Quote!OkxQty
<1>. QED
  BY <1>1, <1>2, <1>3, <1>4, <1>5

\* Binance's streams and calls make the same of a frame.
LEMMA BinanceStreamsMatch ==
  ASSUME adapter = "binance", market \in Quote!MarketsOf("binance"),
         route \in {"ticker", "book_ticker", "orderbook", "trades"},
         NEW f \in Quote!Frames(route), NEW i, IsListing(i),
         Quote!Complete(f), f.side = "buy"
  PROVE  Streamed(Quote!BinanceFrame(market, route, f, i))
             = Streamed(Quote!BinanceRest(market, route, f, i))
<1> USE ListingFacts, FrameFacts DEF Streamed, Quote!BinanceFrame,
      Quote!BinanceRest, Quote!Markets, Quote!MarketsOf
<1>1. CASE route = "ticker"
  BY <1>1 DEF Quote!BinanceStreamTicker, Quote!BinanceGetTicker
<1>2. CASE route = "book_ticker"
  BY <1>2 DEF Quote!BinanceStreamBookTicker, Quote!BinanceGetBookTicker
<1>3. CASE route = "orderbook"
  BY <1>3 DEF Quote!BinanceStreamOrderbook, Quote!BinanceGetOrderbook
<1>4. CASE route = "trades"
  BY <1>4 DEF Quote!BinanceStreamTrades, Quote!BinanceGetTrades
<1>. QED
  BY <1>1, <1>2, <1>3, <1>4

\* Bybit's streams and calls make the same of a frame.
LEMMA BybitStreamsMatch ==
  ASSUME adapter = "bybit", market \in Quote!MarketsOf("bybit"),
         route \in {"ticker", "book_ticker", "trades"},
         NEW f \in Quote!Frames(route), NEW i, IsListing(i),
         Quote!Complete(f), f.side = "buy"
  PROVE  Streamed(Quote!BybitFrame(market, route, f, i))
             = Streamed(Quote!BybitRest(market, route, f, i))
<1> USE ListingFacts, FrameFacts DEF Streamed, Quote!BybitFrame,
      Quote!BybitRest, Quote!Markets, Quote!MarketsOf
<1>1. CASE route = "ticker"
  BY <1>1 DEF Quote!BybitStreamTicker, Quote!BybitGetTicker
<1>2. CASE route = "book_ticker"
  BY <1>2 DEF Quote!BybitStreamBookTicker, Quote!BybitGetBookTicker
<1>3. CASE route = "trades"
  BY <1>3 DEF Quote!BybitStreamTrades, Quote!BybitGetTrades
<1>. QED
  BY <1>1, <1>2, <1>3

\* Hyperliquid's streams and calls make the same of a frame.
LEMMA HyperliquidStreamsMatch ==
  ASSUME adapter = "hyperliquid", market \in Quote!MarketsOf("hyperliquid"),
         route \in {"ticker", "book_ticker", "trades"},
         NEW f \in Quote!Frames(route), NEW i, IsListing(i),
         Quote!Complete(f), f.side = "buy"
  PROVE  Streamed(Quote!HyperliquidFrame(route, f))
             = Streamed(Quote!HyperliquidRest(route, f))
<1> USE ListingFacts, FrameFacts DEF Streamed, Quote!HyperliquidFrame,
      Quote!HyperliquidRest, Quote!Markets, Quote!MarketsOf
<1>1. CASE route = "ticker"
  BY <1>1 DEF Quote!HyperliquidStreamTicker, Quote!HyperliquidGetTicker
<1>2. CASE route = "book_ticker"
  BY <1>2 DEF Quote!HyperliquidStreamBookTicker, Quote!HyperliquidGetBookTicker
<1>3. CASE route = "trades"
  BY <1>3 DEF Quote!HyperliquidStreamTrades, Quote!HyperliquidGetTrades
<1>. QED
  BY <1>1, <1>2, <1>3

\* Kraken's streams and calls make the same of a frame.
LEMMA KrakenStreamsMatch ==
  ASSUME adapter = "kraken", market \in Quote!MarketsOf("kraken"),
         route \in {"ticker", "book_ticker", "trades"},
         NEW f \in Quote!Frames(route), NEW i, IsListing(i),
         Quote!Complete(f), f.side = "buy"
  PROVE  Streamed(Quote!KrakenFrame(market, route, f, i))
             = Streamed(Quote!KrakenRest(market, route, f, i))
<1> USE ListingFacts, FrameFacts DEF Streamed, Quote!KrakenFrame,
      Quote!KrakenRest, Quote!Markets, Quote!MarketsOf
<1>1. CASE route = "ticker"
  BY <1>1 DEF Quote!KrakenStreamTicker, Quote!KrakenGetTicker
<1>2. CASE route = "book_ticker"
  BY <1>2 DEF Quote!KrakenStreamBookTicker, Quote!KrakenGetBookTicker
<1>3. CASE route = "trades"
  BY <1>3 DEF Quote!KrakenStreamTrades, Quote!KrakenGetTrades
<1>. QED
  BY <1>1, <1>2, <1>3

\* KuCoin's streams and calls make the same of a frame.
LEMMA KucoinStreamsMatch ==
  ASSUME adapter = "kucoin", market \in Quote!MarketsOf("kucoin"),
         route \in {"ticker", "book_ticker", "orderbook", "trades"},
         NEW f \in Quote!Frames(route), NEW i, IsListing(i),
         Quote!Complete(f), f.side = "buy"
  PROVE  Streamed(Quote!KucoinFrame(market, route, f, i))
             = Streamed(Quote!KucoinRest(market, route, f, i))
<1> USE ListingFacts, FrameFacts DEF Streamed, Quote!KucoinFrame,
      Quote!KucoinRest, Quote!Markets, Quote!MarketsOf
<1>1. CASE route = "ticker"
  BY <1>1 DEF Quote!KucoinStreamTicker, Quote!KucoinGetTicker
<1>2. CASE route = "book_ticker"
  BY <1>2 DEF Quote!KucoinStreamBookTicker, Quote!KucoinGetBookTicker, Quote!KucoinQty
<1>3. CASE route = "orderbook"
  BY <1>3 DEF Quote!KucoinStreamOrderbook, Quote!KucoinGetOrderbook, Quote!KucoinLevel
<1>4. CASE route = "trades"
  BY <1>4 DEF Quote!KucoinStreamTrades, Quote!KucoinGetTrades, Quote!KucoinQty
<1>. QED
  BY <1>1, <1>2, <1>3, <1>4

\* OKX's streams and calls make the same of a frame.
LEMMA OkxStreamsMatch ==
  ASSUME adapter = "okx", market \in Quote!MarketsOf("okx"),
         route \in {"ticker", "book_ticker", "trades"},
         NEW f \in Quote!Frames(route), NEW i, IsListing(i),
         Quote!Complete(f), f.side = "buy"
  PROVE  Streamed(Quote!OkxFrame(market, route, f, i))
             = Streamed(Quote!OkxRest(market, route, f, i))
<1> USE ListingFacts, FrameFacts DEF Streamed, Quote!OkxFrame,
      Quote!OkxRest, Quote!Markets, Quote!MarketsOf
<1>1. CASE route = "ticker"
  BY <1>1 DEF Quote!OkxStreamTicker, Quote!OkxGetTicker
<1>2. CASE route = "book_ticker"
  BY <1>2 DEF Quote!OkxStreamBookTicker, Quote!OkxGetBookTicker, Quote!OkxQty
<1>3. CASE route = "trades"
  BY <1>3 DEF Quote!OkxStreamTrades, Quote!OkxGetTrades, Quote!OkxQty
<1>. QED
  BY <1>1, <1>2, <1>3

HIDE DEF Quote!Qty, Quote!Volume, Quote!Level, Quote!Value, Quote!Mark, Quote!Funding,
    Quote!NoFunding, Quote!OrZero, Quote!Needs, Quote!Unit, Quote!BuyOrSell,
    Quote!Complete, Quote!Now

\* What any adapter's calls give is true.
LEMMA RestIsTrue ==
  ASSUME Quote!TypeOK, route \in Quote!RestRoutes(market),
         NEW f \in Quote!Frames(route), NEW i, IsListing(i)
  PROVE  IsTrue(Quote!Rest(f, i), f)
<1>1. /\ adapter \in {"binance", "bybit", "hyperliquid", "kraken", "kucoin", "okx"}
      /\ market \in Quote!MarketsOf(adapter)
      /\ route \in {"ticker", "book_ticker", "orderbook", "trades", "mark_price"}
      /\ market = "spot" => route # "mark_price"
  BY DEF Quote!TypeOK, Quote!Adapters, Quote!RestRoutes
<1>2. IsTrue(Quote!Raised, f)
  BY DEF IsTrue, AmountIsTrue, BlockIsWhole
<1>3. CASE adapter = "binance"
  BY <1>1, <1>3, BinanceRestIsTrue DEF Quote!Rest
<1>4. CASE adapter = "bybit"
  BY <1>1, <1>4, BybitRestIsTrue DEF Quote!Rest
<1>5. CASE adapter = "hyperliquid"
  BY <1>1, <1>2, <1>5, HyperliquidRestIsTrue DEF Quote!Rest
<1>6. CASE adapter = "kraken"
  BY <1>1, <1>6, KrakenRestIsTrue DEF Quote!Rest
<1>7. CASE adapter = "kucoin"
  BY <1>1, <1>7, KucoinRestIsTrue DEF Quote!Rest
<1>8. CASE adapter = "okx"
  BY <1>1, <1>8, OkxRestIsTrue DEF Quote!Rest
<1>. QED
  BY <1>1, <1>3, <1>4, <1>5, <1>6, <1>7, <1>8

\* What any adapter's streams give is true.
LEMMA FrameIsTrue ==
  ASSUME Quote!TypeOK, route \in Quote!StreamRoutes(adapter, market),
         NEW f \in Quote!Frames(route), NEW i, IsListing(i)
  PROVE  IsTrue(Quote!Frame(f, i), f)
<1>1. /\ adapter \in {"binance", "bybit", "hyperliquid", "kraken", "kucoin", "okx"}
      /\ market \in Quote!MarketsOf(adapter)
  BY DEF Quote!TypeOK, Quote!Adapters
<1> USE DEF Quote!StreamRoutes
<1>3. CASE adapter = "binance"
  BY <1>1, <1>3, BinanceFrameIsTrue DEF Quote!Frame
<1>4. CASE adapter = "bybit"
  BY <1>1, <1>4, BybitFrameIsTrue DEF Quote!Frame
<1>5. CASE adapter = "hyperliquid"
  BY <1>1, <1>5, HyperliquidFrameIsTrue DEF Quote!Frame
<1>6. CASE adapter = "kraken"
  BY <1>1, <1>6, KrakenFrameIsTrue DEF Quote!Frame
<1>7. CASE adapter = "kucoin"
  BY <1>1, <1>7, KucoinFrameIsTrue DEF Quote!Frame
<1>8. CASE adapter = "okx"
  BY <1>1, <1>8, OkxFrameIsTrue DEF Quote!Frame
<1>. QED
  BY <1>1, <1>3, <1>4, <1>5, <1>6, <1>7, <1>8

\* A stream that was opened makes the same of a frame as a call.
LEMMA FrameMatchesRest ==
  ASSUME Quote!TypeOK, route \in Quote!StreamRoutes(adapter, market),
         route \in Quote!RestRoutes(market) \ {"mark_price"},
         NEW f \in Quote!Frames(route), NEW i, IsListing(i), ~Quote!CannotOpen(i),
         Quote!Complete(f), f.side = "buy"
  PROVE  Streamed(Quote!Frame(f, i)) = Streamed(Quote!Rest(f, i))
<1>1. /\ adapter \in {"binance", "bybit", "hyperliquid", "kraken", "kucoin", "okx"}
      /\ market \in Quote!MarketsOf(adapter)
      /\ route \in {"ticker", "book_ticker", "orderbook", "trades"}
  BY DEF Quote!TypeOK, Quote!Adapters, Quote!RestRoutes
<1> USE DEF Quote!StreamRoutes
<1>3. CASE adapter = "binance"
  BY <1>1, <1>3, BinanceStreamsMatch DEF Quote!Frame, Quote!Rest
<1>4. CASE adapter = "bybit"
  BY <1>1, <1>4, BybitStreamsMatch DEF Quote!Frame, Quote!Rest
<1>5. CASE adapter = "hyperliquid"
  BY <1>1, <1>5, HyperliquidStreamsMatch DEF Quote!Frame, Quote!Rest, Quote!CannotOpen
<1>6. CASE adapter = "kraken"
  BY <1>1, <1>6, KrakenStreamsMatch DEF Quote!Frame, Quote!Rest
<1>7. CASE adapter = "kucoin"
  BY <1>1, <1>7, KucoinStreamsMatch DEF Quote!Frame, Quote!Rest
<1>8. CASE adapter = "okx"
  BY <1>1, <1>8, OkxStreamsMatch DEF Quote!Frame, Quote!Rest
<1>. QED
  BY <1>1, <1>3, <1>4, <1>5, <1>6, <1>7, <1>8

\* No stream is open at first, and nothing has been given.
LEMMA QuoteInit ==
  ASSUME Quote!Init
  PROVE  QuoteInv
BY DEF Quote!Init, QuoteInv, Quote!TypeOK, OutFits, KeptOpens, Quote!NoResult

\* A listing that is read is one of the market.
LEMMA ReadsListing ==
  ASSUME NEW k \in BOOLEAN
  PROVE  IsListing(Quote!Listing(market, k))
BY DEF IsListing

\* What a call or a stream gives depends on variables that never change.
LEMMA SameOperators ==
  ASSUME UNCHANGED <<adapter, market, route>>
  PROVE  \A f, i : /\ Quote!Rest(f, i)' = Quote!Rest(f, i)
                   /\ Quote!Frame(f, i)' = Quote!Frame(f, i)
                   /\ Quote!CannotOpen(i)' = Quote!CannotOpen(i)
                   /\ IsListing(i)' = IsListing(i)
BY DEF Quote!Rest, Quote!Frame, Quote!CannotOpen, IsListing

\* Every step of calls, streams and listings keeps the invariant.
LEMMA QuoteNextKeepsInv ==
  ASSUME QuoteInv, Quote!Next
  PROVE  QuoteInv'
<1>1. UNCHANGED <<adapter, market, route>>
  BY DEF Quote!Next, Quote!Relists, Quote!Gets, Quote!Opens, Quote!FrameArrives,
     Quote!Closes
<1>2. Quote!TypeOK'
  BY <1>1 DEF QuoteInv, Quote!TypeOK, Quote!Next, Quote!Relists, Quote!Gets,
     Quote!Opens, Quote!FrameArrives, Quote!Closes
<1>3. OutFits' /\ KeptOpens'
  <2>1. CASE Quote!Relists \/ Quote!Closes
    BY <1>1, <2>1, SameOperators
       DEF Quote!Relists, Quote!Closes, QuoteInv, OutFits, KeptOpens
  <2>2. CASE \E f \in Quote!Frames(route) : Quote!Gets(f)
    <3>1. PICK f \in Quote!Frames(route) : Quote!Gets(f)
      BY <2>2
    <3>2. IsListing(Quote!Listing(market, listed))
      BY DEF QuoteInv, Quote!TypeOK, IsListing
    <3>. QED
      BY <1>1, <3>1, <3>2, SameOperators
         DEF Quote!Gets, QuoteInv, OutFits, KeptOpens
  <2>3. CASE Quote!Opens
    BY <1>1, <2>3, SameOperators DEF Quote!Opens, QuoteInv, OutFits, KeptOpens
  <2>4. CASE \E f \in Quote!Frames(route) : Quote!FrameArrives(f)
    <3>1. PICK f \in Quote!Frames(route) : Quote!FrameArrives(f)
      BY <2>4
    <3>2. /\ IsListing(kept) /\ ~Quote!CannotOpen(kept)
          /\ route \in Quote!StreamRoutes(adapter, market)
      BY <3>1 DEF Quote!FrameArrives, QuoteInv, Quote!TypeOK, KeptOpens, IsListing
    <3>3. /\ out' = [way |-> "stream", frame |-> f, listing |-> kept,
                     result |-> Streamed(Quote!Frame(f, kept))]
          /\ kept' = kept
      BY <3>1 DEF Quote!FrameArrives, Streamed
    <3>. QED
      BY <1>1, <3>2, <3>3, SameOperators DEF OutFits, KeptOpens
  <2>. QED
    BY <2>1, <2>2, <2>3, <2>4 DEF Quote!Next
<1>. QED
  BY <1>2, <1>3 DEF QuoteInv

\* What the runs check follows.
LEMMA QuoteInvIsTrue ==
  ASSUME QuoteInv
  PROVE  Quote!AmountsAreTrue /\ Quote!FundingIsWhole /\ Quote!StreamsMatchRest
<1>1. CASE out.way = "none"
  BY <1>1 DEF QuoteInv, OutFits, Quote!AmountsAreTrue, Quote!FundingIsWhole,
     Quote!StreamsMatchRest
<1>2. CASE out.way = "rest"
  <2>1. IsTrue(out.result, out.frame)
    BY <1>2, RestIsTrue DEF QuoteInv, OutFits
  <2>. QED
    BY <1>2, <2>1 DEF IsTrue, AmountIsTrue, BlockIsWhole, Quote!AmountsAreTrue,
       Quote!FundingIsWhole, Quote!StreamsMatchRest
<1>3. CASE out.way = "stream"
  <2>1. /\ Quote!TypeOK /\ route \in Quote!StreamRoutes(adapter, market)
        /\ out.frame \in Quote!Frames(route)
        /\ IsListing(out.listing) /\ ~Quote!CannotOpen(out.listing)
        /\ out.result = Streamed(Quote!Frame(out.frame, out.listing))
    BY <1>3 DEF QuoteInv, OutFits
  <2>2. IsTrue(out.result, out.frame)
    BY <2>1, FrameIsTrue DEF Streamed, IsTrue, AmountIsTrue, BlockIsWhole
  <2>3. Quote!StreamsMatchRest
    BY <2>1, FrameMatchesRest DEF Quote!StreamsMatchRest, Streamed
  <2>. QED
    BY <2>2, <2>3 DEF IsTrue, AmountIsTrue, BlockIsWhole, Quote!AmountsAreTrue,
       Quote!FundingIsWhole
<1>. QED
  BY <1>1, <1>2, <1>3 DEF QuoteInv, OutFits

\* The invariant holds throughout.
LEMMA QuoteStaysInv == Spec => [](part = "quotes" => QuoteInv)
<1> DEFINE IInv == part = "quotes" => QuoteInv
<1>1. Init => IInv
  BY QuoteInit DEF Init
<1>2. IInv /\ [Next]_vars => IInv'
  <2> SUFFICES ASSUME IInv, [Next]_vars, part' = "quotes" PROVE QuoteInv'
    OBVIOUS
  <2>1. CASE QuoteNext
    BY <2>1, QuoteNextKeepsInv DEF QuoteNext
  <2>2. CASE UNCHANGED vars
    <3>1. QuoteInv /\ UNCHANGED <<adapter, market, route, listed, stream, kept, out>>
      BY <2>2 DEF vars, QuoteVars
    <3>. QED
      BY <3>1, SameOperators DEF QuoteInv, Quote!TypeOK, OutFits, KeptOpens
  <2>. QED
    BY <2>1, <2>2 DEF Next, InfoNext, SnapNext, PoolNext
<1>. QED
  BY <1>1, <1>2, PTL DEF Spec

\* An amount that a route or a stream gives is in the declared unit and worth what
\* it says, and a funding block is whole, for any prices, sizes and contract sizes,
\* on every adapter, market and route, and however old a stream's listing is.
THEOREM ValuesStayTrue == Spec => []ValuesAreTrue
<1>1. (part = "quotes" => QuoteInv) => ValuesAreTrue
  BY QuoteInvIsTrue DEF ValuesAreTrue, QuoteInv
<1>. QED
  BY <1>1, QuoteStaysInv, PTL

\* A stream gives what a call gives for the same frame and listing, and leaves out
\* what the call raises on.
THEOREM StreamsStayMatched == Spec => []StreamsMatchRest
<1>1. (part = "quotes" => QuoteInv) => StreamsMatchRest
  BY QuoteInvIsTrue DEF StreamsMatchRest
<1>. QED
  BY <1>1, QuoteStaysInv, PTL

=============================================================================
