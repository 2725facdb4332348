-------------------------------- MODULE Hubs --------------------------------
(***************************************************************************)
(* Which hub carries a subscription, and what it tells the exchange: the   *)
(* _ws_connect and _get_hub of the adapters, Hyperliquid's pool of hubs,   *)
(* and the tables from which hubs build their payloads.                    *)
(*                                                                         *)
(* The inside of a hub is the module StreamHub; here a hub is connected or *)
(* not, and announces the topics that have queues.  The sections under the *)
(* adapters' locks have no await but the acquisition, so opening a stream  *)
(* is one step up to the wait in StreamHub.subscribe.                      *)
(***************************************************************************)
EXTENDS Naturals, FiniteSets

CONSTANTS
    Adapters,   \* of AllAdapters, those that this instance looks at
    Consumers,  \* generators, each reading one stream after the other
    MaxHubs,    \* _MAX_HUBS of Hyperliquid
    MaxSubs     \* _MAX_SUBS_PER_HUB of Hyperliquid

AllAdapters == {"binance", "bybit", "kucoin", "okx", "kraken", "hyperliquid"}

VARIABLES
    adapter,   \* the adapter that this behaviour is about
    stage,     \* the await at which a consumer is; "lost" if cancelled there
    wanted,    \* the payload of a consumer's subscription
    hub,       \* the hub that it got
    payloads,  \* _topic_payloads of Kraken, _topic_args of OKX and Hyperliquid
    refs,      \* _topic_refs of Hyperliquid
    topicHub,  \* _topic_hub of Hyperliquid, 0 for none
    slots,     \* _hubs of Hyperliquid: the topics of each
    up,        \* the hubs that are connected
    announced  \* the payload with which a topic was announced on a connection

vars == <<adapter, stage, wanted, hub, payloads, refs, topicHub, slots, up,
          announced>>

-----------------------------------------------------------------------------
\* Those of the pool, or the three that the others have at most.
Hubs  == (1..MaxHubs) \cup (1..3)
Wants == {"ticker", "ticker_bbo", "trade"}
None  == "none"

\* The topic under which the messages of a subscription are routed. Kraken's do
\* not tell what triggers them.
TopicOf(w) ==
    IF adapter = "kraken" /\ w = "ticker_bbo" THEN "ticker" ELSE w

Topics == Wants

\* The hub of a subscription: one per market at Bybit, KuCoin and OKX, one per
\* bucket of channels at Binance, one per shape of the payload at Kraken.
HubKey(w) ==
    CASE adapter = "binance" -> IF w = "ticker" THEN 1 ELSE 2
      [] adapter = "kraken" /\ w = "ticker" -> 1
      [] adapter = "kraken" /\ w = "ticker_bbo" -> 2
      [] adapter = "kraken" /\ w = "trade" -> 3
      [] OTHER -> 1

HasTable == adapter \in {"kraken", "okx", "hyperliquid"}

\* What the hub's subscribe_payload makes of a topic; the others put the topic
\* itself into the payload.
SubPayload(t) == IF HasTable THEN payloads[t] ELSE t

HasQueue(c)   == stage[c] \in {"waiting", "reading", "lost"}
Queues(h, t)  == {c \in Consumers :
                     HasQueue(c) /\ hub[c] = h /\ TopicOf(wanted[c]) = t}

Init ==
    /\ adapter \in Adapters
    /\ stage = [c \in Consumers |-> "idle"]
    /\ wanted = [c \in Consumers |-> "trade"]
    /\ hub = [c \in Consumers |-> 1]
    /\ payloads = [t \in Topics |-> None]
    /\ refs = [t \in Topics |-> 0]
    /\ topicHub = [t \in Topics |-> 0]
    /\ slots = [h \in Hubs |-> {}]
    /\ up = {}
    /\ announced = [h \in Hubs |-> [t \in Topics |-> None]]

-----------------------------------------------------------------------------
\* StreamHub.subscribe up to its wait: only the first queue of a topic waits.
Registers(c, w, h) ==
    /\ wanted' = [wanted EXCEPT ![c] = w]
    /\ hub' = [hub EXCEPT ![c] = h]
    /\ stage' = [stage EXCEPT ![c] =
           IF Queues(h, TopicOf(w)) = {} THEN "waiting" ELSE "reading"]

Opens(c, w) ==
    /\ adapter # "hyperliquid"
    /\ stage[c] = "idle"
    /\ payloads' = IF HasTable THEN [payloads EXCEPT ![TopicOf(w)] = w]
                               ELSE payloads
    /\ Registers(c, w, HubKey(w))
    /\ UNCHANGED <<adapter, refs, topicHub, slots, up, announced>>

HasRoom(h) == Cardinality(slots[h]) < MaxSubs

\* The hub of the topic, or else the first one with room, which a hub that has
\* not been made yet has.
HubsFor(t) ==
    IF topicHub[t] # 0
    THEN {topicHub[t]}
    ELSE {h \in 1..MaxHubs : HasRoom(h) /\ \A g \in 1..(h - 1) : ~HasRoom(g)}

\* _acquire_topic, and subscribe. Without room UpstreamUnavailableError is
\* raised and nothing is changed.
Acquires(c, t) ==
    /\ adapter = "hyperliquid"
    /\ stage[c] = "idle"
    /\ \E h \in HubsFor(t) :
           /\ topicHub' = [topicHub EXCEPT ![t] = h]
           /\ slots' = [slots EXCEPT ![h] = @ \cup {t}]
           /\ Registers(c, t, h)
    /\ payloads' = [payloads EXCEPT ![t] = t]
    /\ refs' = [refs EXCEPT ![t] = @ + 1]
    /\ UNCHANGED <<adapter, up, announced>>

\* Connected in time: the topic is announced, unless the connection has
\* announced it itself.
Wakes(c) ==
    LET h == hub[c]
        t == TopicOf(wanted[c])
    IN  /\ stage[c] = "waiting"
        /\ h \in up
        /\ stage' = [stage EXCEPT ![c] = "reading"]
        /\ announced' = IF announced[h][t] # None
                        THEN announced
                        ELSE [announced EXCEPT ![h][t] = SubPayload(t)]
        /\ UNCHANGED <<adapter, wanted, hub, payloads, refs, topicHub, slots, up>>

TimesOut(c) ==
    /\ stage[c] = "waiting"
    /\ hub[c] \notin up
    /\ stage' = [stage EXCEPT ![c] = "reading"]
    /\ UNCHANGED <<adapter, wanted, hub, payloads, refs, topicHub, slots, up,
                   announced>>

\* The consumer is cancelled in subscribe, which stands before the try: its
\* queue and its reference stay.
Cancelled(c) ==
    /\ stage[c] = "waiting"
    /\ stage' = [stage EXCEPT ![c] = "lost"]
    /\ UNCHANGED <<adapter, wanted, hub, payloads, refs, topicHub, slots, up,
                   announced>>

\* StreamHub.unsubscribe, which sends to withdraw the topic with its last queue.
\* Hyperliquid's release is under way while it does.
Leaves(c) ==
    LET h == hub[c]
        t == TopicOf(wanted[c])
    IN  /\ stage[c] = "reading"
        /\ stage' = [stage EXCEPT ![c] =
               IF adapter = "hyperliquid" THEN "releasing" ELSE "idle"]
        /\ announced' = IF Queues(h, t) = {c}
                        THEN [announced EXCEPT ![h][t] = None]
                        ELSE announced
        /\ UNCHANGED <<adapter, wanted, hub, payloads, refs, topicHub, slots, up>>

\* Mutant: who has withdrawn the topic takes it out of the tables, whoever has
\* come for it meanwhile.
Releases_Whole(c) ==
    LET t == wanted[c]
    IN  /\ stage[c] = "releasing"
        /\ stage' = [stage EXCEPT ![c] = "idle"]
        /\ refs' = [refs EXCEPT ![t] = 0]
        /\ payloads' = [payloads EXCEPT ![t] = None]
        /\ slots' = [slots EXCEPT ![topicHub[t]] = @ \ {t}]
        /\ topicHub' = [topicHub EXCEPT ![t] = 0]
        /\ UNCHANGED <<adapter, wanted, hub, up, announced>>

\* The rest of _release_topic.
Releases(c) ==
    LET t == wanted[c]
    IN  /\ stage[c] = "releasing"
        /\ stage' = [stage EXCEPT ![c] = "idle"]
        /\ refs' = [refs EXCEPT ![t] = @ - 1]
        /\ IF refs'[t] = 0
           THEN /\ payloads' = [payloads EXCEPT ![t] = None]
                /\ slots' = [slots EXCEPT ![topicHub[t]] = @ \ {t}]
                /\ topicHub' = [topicHub EXCEPT ![t] = 0]
           ELSE UNCHANGED <<payloads, slots, topicHub>>
        /\ UNCHANGED <<adapter, wanted, hub, up, announced>>

\* A hub connects and announces what has queues, from the table as it is now.
Connects(h) ==
    /\ h \notin up
    /\ \E c \in Consumers : hub[c] = h /\ stage[c] # "idle"
    /\ up' = up \cup {h}
    /\ announced' = [announced EXCEPT ![h] =
           [t \in Topics |-> IF Queues(h, t) = {} THEN None ELSE SubPayload(t)]]
    /\ UNCHANGED <<adapter, stage, wanted, hub, payloads, refs, topicHub, slots>>

Disconnects(h) ==
    /\ h \in up
    /\ up' = up \ {h}
    /\ announced' = [announced EXCEPT ![h] = [t \in Topics |-> None]]
    /\ UNCHANGED <<adapter, stage, wanted, hub, payloads, refs, topicHub, slots>>

Next ==
    \/ \E c \in Consumers :
        \/ \E w \in Wants : Opens(c, w) \/ Acquires(c, w)
        \/ Wakes(c) \/ TimesOut(c) \/ Cancelled(c) \/ Leaves(c) \/ Releases(c)
    \/ \E h \in Hubs : Connects(h) \/ Disconnects(h)

Spec == Init /\ [][Next]_vars

-----------------------------------------------------------------------------
(* Correctness *)

TypeOK ==
    /\ adapter \in Adapters
    /\ stage \in [Consumers -> {"idle", "waiting", "reading", "lost", "releasing"}]
    /\ wanted \in [Consumers -> Wants]
    /\ hub \in [Consumers -> Hubs]
    /\ payloads \in [Topics -> Wants \cup {None}]
    /\ refs \in [Topics -> Nat]
    /\ topicHub \in [Topics -> 0..MaxHubs]
    /\ slots \in [Hubs -> SUBSET Topics]
    /\ up \subseteq Hubs
    /\ announced \in [Hubs -> [Topics -> Wants \cup {None}]]

\* Hyperliquid's pool is exact, whoever opens the same stream while another is
\* leaving it: every holder of a topic, and nobody else, is counted; a topic is
\* in the slot of one hub, within its limit, as long as it is held; all its
\* queues are on that hub; and it can be announced and withdrawn there.
PoolIsExact ==
    adapter = "hyperliquid" =>
        \A t \in Topics :
            LET holders == {c \in Consumers : stage[c] # "idle" /\ wanted[c] = t}
            IN  /\ refs[t] = Cardinality(holders)
                /\ \A c \in holders : hub[c] = topicHub[t]
                /\ {h \in Hubs : t \in slots[h]} = {topicHub[t]} \ {0}
                /\ payloads[t] # None <=> holders # {}
                /\ topicHub[t] # 0 <=> holders # {}
                /\ \A h \in Hubs : Cardinality(slots[h]) <= MaxSubs

\* Whoever reads from a hub that is connected reads what it asked for: its topic
\* was announced there in the shape that the hub stands for. Only the topics of
\* somebody who was cancelled before the announcement are not announced.
AnnouncedAsAsked ==
    \A c \in Consumers :
        stage[c] = "reading" /\ hub[c] \in up =>
            LET t == TopicOf(wanted[c])
            IN  \/ announced[hub[c]][t] = wanted[c]
                \/ announced[hub[c]][t] = None
                   /\ \E d \in Queues(hub[c], t) : stage[d] \in {"waiting", "lost"}

\* "The `ticker` channel needs `event_trigger: "bbo"` to emit BBO updates
\* without trade activity ... a separate hub per subscription shape"
\* (Contributor_Guide.md): what a hub announces has its shape.
HubsKeepTheirShape ==
    \A h \in Hubs, t \in Topics :
        adapter = "kraken" /\ announced[h][t] # None => HubKey(announced[h][t]) = h

=============================================================================
