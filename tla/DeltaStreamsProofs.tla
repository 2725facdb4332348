------------------------- MODULE DeltaStreamsProofs -------------------------
(***************************************************************************)
(* Proofs about DeltaStreams, for any readers, levels, queue size and      *)
(* number of changes.                                                      *)
(*                                                                         *)
(* Whether a book is true is decided by the messages still on their way to *)
(* it: what a reader has applied last, what is in its queue and what is on *)
(* the connection must follow on one another, except before a snapshot,    *)
(* and as long as the exchange streams the topic, the end of that chain is *)
(* the exchange's book as it is now.  A loss cuts the chain's beginning    *)
(* off.  Where updates carry numbers that are checked the chain is not     *)
(* needed, and where every message is a whole book there is none.          *)
(***************************************************************************)
EXTENDS DeltaStreams, SequenceTheorems, TLAPS

\* What may be on its way, given the changes so far.
Sent == {m \in [full : BOOLEAN, at : 1..Len(past)] : WholeBooks => m.full}

\* The types of the variables, and that no message is ahead of the exchange.
Types ==
    /\ stream \in Streams
    /\ past \in Seq(SUBSET Levels)
    /\ Len(past) \in 1..MaxChanges
    /\ wire \in Seq(Sent)
    /\ DOMAIN queue = Consumers
    /\ \A c \in Consumers : queue[c] \in Seq(Sent) /\ Len(queue[c]) <= QueueSize
    /\ reader \in [Consumers -> {"idle", "on", "ended"}]
    /\ book \in [Consumers -> SUBSET Levels]
    /\ bootstrapped \in [Consumers -> BOOLEAN]
    /\ last \in [Consumers -> 0..Len(past)]
    /\ joined \in [Consumers -> {"fresh", "shared", "leftover"}]
    /\ missed \in [Consumers -> BOOLEAN]

\* What the readers need of the hub: it has their queues, and a connection
\* that is being made streams nothing yet.
HubFeeds ==
    /\ queues \in [{Topic} -> SUBSET Consumers]
    /\ con \in [Consumers -> {"idle", "waiting", "sending", "reading", "leaving",
                              "gone"}]
    /\ ws # "up" => Topic \notin streamed
    /\ run \in {"none", "connecting", "sleeping"} => ws # "up"
    /\ \A c \in Consumers :
           /\ con[c] = "idle" => reader[c] = "idle"
           /\ reader[c] = "idle" => ~bootstrapped[c] /\ queue[c] = <<>>
           /\ reader[c] = "on" => c \in queues[Topic]

\* A message follows on the one before it, or is a snapshot; and the last one is
\* up to date while the topic is streamed.
Chained(s) == \A i \in 2..Len(s) : s[i].full \/ s[i].at = s[i - 1].at + 1
Current(s) == Topic \in streamed /\ s # <<>> => s[Len(s)].at = Len(past)
Unbroken(s) == Chained(s) /\ Current(s)

\* What a reader applied last, if it has missed nothing, and all it is to read.
Applied(c) == [full |-> TRUE, at |-> last[c]]
Chain(c) ==
    IF bootstrapped[c] /\ ~missed[c] THEN <<Applied(c)>> \o (queue[c] \o wire)
                                     ELSE queue[c] \o wire

ChainsUnbroken ==
    ~WholeBooks =>
        /\ Unbroken(wire)
        /\ \A c \in Consumers : reader[c] = "on" => Unbroken(Chain(c))

\* The inductive invariant.
Inv ==
    /\ Types
    /\ HubFeeds
    /\ ChainsUnbroken
    /\ \A c \in Consumers : bootstrapped[c] => last[c] # 0
    /\ BookIsTrue

-----------------------------------------------------------------------------
(* Chains of messages *)

Message == [full : BOOLEAN, at : Nat]

\* Whatever is left of a chain is one.
LEMMA RestIsUnbroken ==
  ASSUME NEW s \in Seq(Message), s # <<>>, Unbroken(s)
  PROVE  Unbroken(Tail(s))
<1>1. /\ Tail(s) \in Seq(Message)
      /\ Len(Tail(s)) = Len(s) - 1
      /\ Len(s) \in Nat
      /\ \A i \in 1..Len(Tail(s)) : Tail(s)[i] = s[i + 1]
  BY HeadTailProperties
<1>2. Chained(Tail(s))
  <2> SUFFICES ASSUME NEW i \in 2..Len(Tail(s))
               PROVE  Tail(s)[i].full \/ Tail(s)[i].at = Tail(s)[i - 1].at + 1
    BY DEF Chained
  <2>1. Tail(s)[i] = s[i + 1] /\ Tail(s)[i - 1] = s[i]
    BY <1>1
  <2>2. i + 1 \in 2..Len(s) /\ i + 1 - 1 = i
    BY <1>1
  <2>3. s[i + 1].full \/ s[i + 1].at = s[i + 1 - 1].at + 1
    BY <2>2 DEF Unbroken, Chained
  <2>. QED
    BY <2>1, <2>2, <2>3
<1>3. Current(Tail(s))
  <2> SUFFICES ASSUME Topic \in streamed, Tail(s) # <<>>
               PROVE  Tail(s)[Len(Tail(s))].at = Len(past)
    BY DEF Current
  <2>1. Len(Tail(s)) \in 1..Len(Tail(s)) /\ Len(Tail(s)) + 1 = Len(s)
    BY <1>1, EmptySeq
  <2>2. Tail(s)[Len(Tail(s))] = s[Len(s)]
    BY <1>1, <2>1
  <2>. QED
    BY <2>2 DEF Unbroken, Current
<1>. QED
  BY <1>2, <1>3 DEF Unbroken

\* Of the first message of a chain only the number matters.
LEMMA HeadIsReplaced ==
  ASSUME NEW h \in Message, NEW s \in Seq(Message), s # <<>>, Unbroken(s),
         h.at = s[1].at
  PROVE  Unbroken(<<h>> \o Tail(s))
<1> DEFINE t == <<h>> \o Tail(s)
<1>1. /\ Tail(s) \in Seq(Message)
      /\ Len(Tail(s)) = Len(s) - 1
      /\ Len(s) \in Nat \ {0}
      /\ \A i \in 1..Len(Tail(s)) : Tail(s)[i] = s[i + 1]
  BY HeadTailProperties, EmptySeq
<1>2. <<h>> \in Seq(Message) /\ Len(<<h>>) = 1 /\ <<h>>[1] = h
  OBVIOUS
<1>3. /\ t \in Seq(Message) /\ Len(t) = Len(s) /\ t[1] = h
      /\ \A i \in 2..Len(s) : t[i] = s[i]
  BY <1>1, <1>2, ConcatProperties
<1> HIDE DEF t
<1>4. Chained(t)
  <2> SUFFICES ASSUME NEW i \in 2..Len(s)
               PROVE  t[i].full \/ t[i].at = t[i - 1].at + 1
    BY <1>3 DEF Chained
  <2>1. s[i].full \/ s[i].at = s[i - 1].at + 1
    BY DEF Unbroken, Chained
  <2>2. t[i - 1].at = s[i - 1].at
    BY <1>1, <1>3
  <2>. QED
    BY <1>3, <2>1, <2>2
<1>5. Current(t)
  <2>1. t[Len(t)].at = s[Len(s)].at
    BY <1>1, <1>3
  <2>. QED
    BY <1>3, <2>1 DEF Unbroken, Current
<1>. QED
  BY <1>4, <1>5 DEF Unbroken, t

\* A chain goes on with a snapshot, or with the change after its last.
LEMMA ChainGoesOn ==
  ASSUME NEW s \in Seq(Message), NEW m \in Message, Chained(s),
         m.full \/ (s # <<>> => m.at = s[Len(s)].at + 1)
  PROVE  Chained(Append(s, m))
<1>1. /\ Append(s, m) \in Seq(Message)
      /\ Len(Append(s, m)) = Len(s) + 1
      /\ Len(s) \in Nat
      /\ \A i \in 1..Len(s) : Append(s, m)[i] = s[i]
      /\ Append(s, m)[Len(s) + 1] = m
  BY AppendProperties
<1> SUFFICES ASSUME NEW i \in 2..(Len(s) + 1)
             PROVE  \/ Append(s, m)[i].full
                    \/ Append(s, m)[i].at = Append(s, m)[i - 1].at + 1
  BY <1>1 DEF Chained
<1>2. CASE i \in 2..Len(s)
  BY <1>1, <1>2 DEF Chained
<1>3. CASE i = Len(s) + 1
  <2>1. s # <<>> /\ i - 1 = Len(s) /\ Append(s, m)[i - 1] = s[Len(s)]
    BY <1>1, <1>3
  <2>. QED
    BY <1>1, <1>3, <2>1
<1>. QED
  BY <1>1, <1>2, <1>3

\* What a reader is to read, in its queue or not, is one sequence.
LEMMA Pending ==
  ASSUME NEW S, NEW q \in Seq(S), NEW w \in Seq(S)
  PROVE  /\ q \o w \in Seq(S)
         /\ \A m \in S : q \o Append(w, m) = Append(q \o w, m)
         /\ w # <<>> => Append(q, Head(w)) \o Tail(w) = q \o w
         /\ q # <<>> => /\ q \o w # <<>>
                        /\ (q \o w)[1] = Head(q)
                        /\ Tail(q \o w) = Tail(q) \o w
         /\ \A h \in S : /\ <<h>> \o (q \o w) \in Seq(S)
                         /\ <<h>> \o (q \o w) # <<>>
                         /\ Tail(<<h>> \o (q \o w)) = q \o w
                         /\ (<<h>> \o (q \o w))[1] = h
<1>1. q \o w \in Seq(S)
  OBVIOUS
<1>2. \A m \in S : q \o Append(w, m) = Append(q \o w, m)
  <2> SUFFICES ASSUME NEW m \in S PROVE q \o Append(w, m) = Append(q \o w, m)
    OBVIOUS
  <2>1. <<m>> \in Seq(S)
    OBVIOUS
  <2>2. Append(w, m) = w \o <<m>> /\ Append(q \o w, m) = (q \o w) \o <<m>>
    BY AppendIsConcat
  <2>. QED
    BY <2>1, <2>2, ConcatAssociative
<1>3. w # <<>> => Append(q, Head(w)) \o Tail(w) = q \o w
  <2> SUFFICES ASSUME w # <<>> PROVE Append(q, Head(w)) \o Tail(w) = q \o w
    OBVIOUS
  <2>1. Head(w) \in S /\ Tail(w) \in Seq(S) /\ <<Head(w)>> \in Seq(S)
    BY HeadTailProperties
  <2>2. Append(q, Head(w)) = q \o <<Head(w)>>
    BY <2>1, AppendIsConcat
  <2>3. <<Head(w)>> \o Tail(w) = w
    <3>1. /\ Len(w) \in Nat \ {0} /\ Len(Tail(w)) = Len(w) - 1
          /\ \A i \in 1..Len(Tail(w)) : Tail(w)[i] = w[i + 1]
      BY HeadTailProperties, EmptySeq
    <3>2. /\ <<Head(w)>> \o Tail(w) \in Seq(S)
          /\ Len(<<Head(w)>> \o Tail(w)) = Len(w)
          /\ \A i \in 1..Len(w) : (<<Head(w)>> \o Tail(w))[i] = w[i]
      <4>1. Len(<<Head(w)>>) = 1 /\ <<Head(w)>>[1] = w[1]
        OBVIOUS
      <4>. QED
        BY <2>1, <3>1, <4>1, ConcatProperties
    <3>. QED
      BY <3>2, SeqEqual
  <2>. QED
    BY <2>1, <2>2, <2>3, ConcatAssociative
<1>4. \A h \in S, s \in Seq(S) : /\ <<h>> \o s \in Seq(S)
                                 /\ <<h>> \o s # <<>>
                                 /\ Tail(<<h>> \o s) = s
                                 /\ (<<h>> \o s)[1] = h
  <2> SUFFICES ASSUME NEW h \in S, NEW s \in Seq(S)
               PROVE  /\ <<h>> \o s \in Seq(S)
                      /\ <<h>> \o s # <<>>
                      /\ Tail(<<h>> \o s) = s
                      /\ (<<h>> \o s)[1] = h
    OBVIOUS
  <2>1. <<h>> \in Seq(S) /\ Len(<<h>>) = 1 /\ <<h>>[1] = h /\ Len(s) \in Nat
    OBVIOUS
  <2>2. /\ <<h>> \o s \in Seq(S)
        /\ Len(<<h>> \o s) = Len(s) + 1
        /\ (<<h>> \o s)[1] = h
        /\ \A i \in 1..Len(s) : (<<h>> \o s)[i + 1] = s[i]
    BY <2>1, ConcatProperties
  <2>3. <<h>> \o s # <<>>
    BY <2>1, <2>2
  <2>4. /\ Tail(<<h>> \o s) \in Seq(S)
        /\ Len(Tail(<<h>> \o s)) = Len(s)
        /\ \A i \in 1..Len(s) : Tail(<<h>> \o s)[i] = s[i]
    BY <2>1, <2>2, <2>3, HeadTailProperties
  <2>. QED
    BY <2>2, <2>3, <2>4, SeqEqual
<1>5. q # <<>> => /\ q \o w # <<>>
                  /\ (q \o w)[1] = Head(q)
                  /\ Tail(q \o w) = Tail(q) \o w
  <2> SUFFICES ASSUME q # <<>>
               PROVE  /\ q \o w # <<>>
                      /\ (q \o w)[1] = Head(q)
                      /\ Tail(q \o w) = Tail(q) \o w
    OBVIOUS
  <2>1. /\ Len(q) \in Nat \ {0} /\ Len(w) \in Nat
        /\ Tail(q) \in Seq(S) /\ Len(Tail(q)) = Len(q) - 1
        /\ \A i \in 1..Len(Tail(q)) : Tail(q)[i] = q[i + 1]
        /\ Head(q) = q[1]
    BY HeadTailProperties, EmptySeq
  <2>2. /\ q \o w \in Seq(S)
        /\ Len(q \o w) = Len(q) + Len(w)
        /\ \A i \in 1..Len(q) + Len(w) :
               (q \o w)[i] = IF i <= Len(q) THEN q[i] ELSE w[i - Len(q)]
    BY ConcatProperties
  <2>3. q \o w # <<>> /\ (q \o w)[1] = Head(q)
    BY <2>1, <2>2
  <2>4. /\ Tail(q \o w) \in Seq(S)
        /\ Len(Tail(q \o w)) = Len(q) + Len(w) - 1
        /\ \A i \in 1..(Len(q) + Len(w) - 1) : Tail(q \o w)[i] = (q \o w)[i + 1]
    BY <2>1, <2>2, <2>3, HeadTailProperties
  <2>5. /\ Tail(q) \o w \in Seq(S)
        /\ Len(Tail(q) \o w) = Len(q) + Len(w) - 1
        /\ \A i \in 1..(Len(q) + Len(w) - 1) :
               (Tail(q) \o w)[i] = IF i <= Len(q) - 1 THEN q[i + 1]
                                   ELSE w[i - (Len(q) - 1)]
    BY <2>1, ConcatProperties
  <2>6. \A i \in 1..(Len(q) + Len(w) - 1) : Tail(q \o w)[i] = (Tail(q) \o w)[i]
    BY <2>1, <2>2, <2>4, <2>5
  <2>. QED
    BY <2>3, <2>4, <2>5, <2>6, SeqEqual
<1>. QED
  BY <1>1, <1>2, <1>3, <1>4, <1>5

\* The beginning of a chain is one, if nothing is streamed.
LEMMA BeginningIsUnbroken ==
  ASSUME NEW s \in Seq(Message), NEW w \in Seq(Message), Chained(s \o w)
  PROVE  Chained(s)
<1>1. /\ Len(s \o w) = Len(s) + Len(w) /\ Len(s) \in Nat /\ Len(w) \in Nat
      /\ \A i \in 1..Len(s) : (s \o w)[i] = s[i]
  BY ConcatProperties
<1> SUFFICES ASSUME NEW i \in 2..Len(s)
             PROVE  s[i].full \/ s[i].at = s[i - 1].at + 1
  BY DEF Chained
<1>2. i \in 2..Len(s \o w) /\ i \in 1..Len(s) /\ i - 1 \in 1..Len(s)
  BY <1>1
<1>3. (s \o w)[i].full \/ (s \o w)[i].at = (s \o w)[i - 1].at + 1
  BY <1>2 DEF Chained
<1>. QED
  BY <1>1, <1>2, <1>3

\* What is on its way are messages.
LEMMA SentAreMessages ==
  ASSUME Types
  PROVE  /\ Sent \subseteq Message
         /\ wire \in Seq(Message)
         /\ \A c \in Consumers : queue[c] \in Seq(Message)
<1>1. Sent \subseteq Message
  BY DEF Sent, Message, Types
<1>. QED
  BY <1>1, SeqMonotonic DEF Types

\* What goes onto the connection goes to the end of every chain.
LEMMA ChainOfMore ==
  ASSUME Types, NEW c \in Consumers, NEW m \in Message, NEW w, w = Append(wire, m)
  PROVE  /\ Chain(c) \in Seq(Message)
         /\ wire \in Seq(Message)
         /\ IF bootstrapped[c] /\ ~missed[c]
            THEN <<Applied(c)>> \o (queue[c] \o w) = Append(Chain(c), m)
            ELSE queue[c] \o w = Append(Chain(c), m)
<1>2. queue[c] \in Seq(Message) /\ wire \in Seq(Message)
  BY SentAreMessages
<1>1. ASSUME NEW q \in Seq(Message), NEW v \in Seq(Message)
      PROVE  q \o v \in Seq(Message) /\ q \o Append(v, m) = Append(q \o v, m)
  BY Pending
<1>3. Applied(c) \in Message
  BY DEF Types, Applied, Message
<1>4. queue[c] \o wire \in Seq(Message) /\ queue[c] \o w = Append(queue[c] \o wire, m)
  BY <1>1, <1>2
<1>5. /\ <<Applied(c)>> \in Seq(Message)
      /\ <<Applied(c)>> \o Append(queue[c] \o wire, m)
             = Append(<<Applied(c)>> \o (queue[c] \o wire), m)
      /\ <<Applied(c)>> \o (queue[c] \o wire) \in Seq(Message)
  BY <1>1, <1>3, <1>4
<1>. QED
  BY <1>2, <1>4, <1>5 DEF Chain

\* Every chain takes what goes on after its end, and is as up to date as that.
LEMMA ChainsGoOn ==
  ASSUME Types, ChainsUnbroken, ~WholeBooks, NEW m \in Message,
         wire' = Append(wire, m), m.at = Len(past)',
         m.full \/ (Topic \in streamed /\ m.at = Len(past) + 1),
         UNCHANGED <<stream, queue, bootstrapped, last, missed>>,
         \A c \in Consumers : reader'[c] = "on" => reader[c] = "on"
  PROVE  ChainsUnbroken'
<1>1. ASSUME NEW s \in Seq(Message), Unbroken(s)
      PROVE  Chained(Append(s, m)) /\ Append(s, m)[Len(Append(s, m))] = m
  <2>1. m.full \/ (s # <<>> => m.at = s[Len(s)].at + 1)
    BY <1>1 DEF Unbroken, Current
  <2>2. Chained(Append(s, m))
    BY <1>1, <2>1, ChainGoesOn DEF Unbroken
  <2>. QED
    BY <1>1, <2>2, AppendProperties
<1>2. ASSUME NEW s \in Seq(Message), Unbroken(s), NEW t, t = Append(s, m)
      PROVE  Chained(t) /\ t[Len(t)].at = Len(past)'
  BY <1>1, <1>2
<1>3. Unbroken(wire)'
  <2>1. wire \in Seq(Message)
    BY SentAreMessages
  <2>2. Unbroken(wire)
    BY DEF ChainsUnbroken
  <2>3. Chained(wire') /\ wire'[Len(wire')].at = Len(past)'
    BY <1>2, <2>1, <2>2
  <2>. QED
    BY <2>3 DEF Unbroken, Current, Chained
<1>4. ASSUME NEW c \in Consumers, reader'[c] = "on"
      PROVE  Unbroken(Chain(c))'
  <2>1. Unbroken(Chain(c))
    BY <1>4 DEF ChainsUnbroken
  <2>2. Chain(c) \in Seq(Message) /\ Chain(c)' = Append(Chain(c), m)
    BY ChainOfMore DEF Chain, Applied
  <2>3. Chained(Chain(c)') /\ Chain(c)'[Len(Chain(c)')].at = Len(past)'
    BY <1>2, <2>1, <2>2
  <2>. QED
    BY <2>3 DEF Unbroken, Current, Chained
<1>. QED
  BY <1>3, <1>4 DEF ChainsUnbroken

\* Nothing happens to a chain whose messages stay where they are, unless the
\* topic becomes streamed.
LEMMA ChainsStay ==
  ASSUME ChainsUnbroken,
         UNCHANGED <<stream, past, wire, bootstrapped, last, missed>>,
         Topic \in streamed' => Topic \in streamed,
         \A c \in Consumers :
             reader'[c] = "on" => reader[c] = "on" /\ queue'[c] = queue[c]
  PROVE  ChainsUnbroken'
<1>1. ASSUME NEW s, Unbroken(s), NEW t, t = s
      PROVE  Chained(t) /\ (Topic \in streamed' /\ t # <<>> => t[Len(t)].at = Len(past)')
  BY <1>1 DEF Unbroken, Current
<1> SUFFICES ASSUME ~WholeBooks PROVE ChainsUnbroken'
  BY DEF ChainsUnbroken, WholeBooks
<1>2. Unbroken(wire)'
  BY <1>1 DEF ChainsUnbroken, Unbroken, Current, Chained
<1>3. ASSUME NEW c \in Consumers, reader'[c] = "on"
      PROVE  Unbroken(Chain(c))'
  <2>1. Unbroken(Chain(c)) /\ Chain(c)' = Chain(c)
    BY <1>3 DEF ChainsUnbroken, Chain, Applied
  <2>. QED
    BY <1>1, <2>1 DEF Unbroken, Current, Chained
<1>. QED
  BY <1>2, <1>3 DEF ChainsUnbroken

-----------------------------------------------------------------------------
(* Steps of the hub *)

\* The invariant but for the hub.
ReadersHold ==
    /\ Types
    /\ ChainsUnbroken
    /\ \A c \in Consumers : bootstrapped[c] => last[c] # 0
    /\ BookIsTrue

\* A book that no one touches stays true.
LEMMA BooksStay ==
  ASSUME ReadersHold,
         past' = past \/ \E b \in SUBSET Levels : past' = Append(past, b),
         UNCHANGED <<stream, book, bootstrapped, last>>,
         \A c \in Consumers : missed[c] => missed'[c]
  PROVE  /\ \A c \in Consumers : bootstrapped'[c] => last'[c] # 0
         /\ BookIsTrue'
<1>1. \A i \in 1..Len(past) : past'[i] = past[i]
  BY AppendProperties DEF ReadersHold, Types
<1>2. \A c \in Consumers : bootstrapped[c] => last[c] \in 1..Len(past)
  BY DEF ReadersHold, Types
<1>. QED
  BY <1>1, <1>2 DEF ReadersHold, BookIsTrue, Sequenced, WholeBooks

\* A reader that begins, ends or stays changes nothing for the others.
LEMMA QuietStepKeeps ==
  ASSUME ReadersHold,
         UNCHANGED <<stream, past, wire, book, bootstrapped, last, missed>>,
         Topic \in streamed' => Topic \in streamed,
         reader' \in [Consumers -> {"idle", "on", "ended"}],
         joined' \in [Consumers -> {"fresh", "shared", "leftover"}],
         DOMAIN queue' = Consumers,
         \A c \in Consumers :
             \/ queue'[c] = queue[c] \/ queue'[c] = <<>>
             \/ queue[c] # <<>> /\ queue'[c] = Tail(queue[c]),
         \A c \in Consumers :
             reader'[c] = "on" => reader[c] = "on" /\ queue'[c] = queue[c]
  PROVE  ReadersHold'
<1>1. Sent' = Sent
  BY DEF Sent, WholeBooks
<1>2. \A c \in Consumers : queue'[c] \in Seq(Sent) /\ Len(queue'[c]) <= QueueSize
  <2>1. QueueSize \in Nat /\ <<>> \in Seq(Sent) /\ Len(<<>>) = 0
    BY BoundsAssumption, EmptySeq
  <2>2. QueueSize > 0
    BY BoundsAssumption
  <2>3. \A c \in Consumers : queue[c] \in Seq(Sent) /\ Len(queue[c]) <= QueueSize
    BY DEF ReadersHold, Types
  <2>4. ASSUME NEW c \in Consumers
        PROVE  queue'[c] \in Seq(Sent) /\ Len(queue'[c]) <= QueueSize
    <3>1. CASE queue'[c] = queue[c]
      BY <2>3, <3>1
    <3>2. CASE queue'[c] = <<>>
      BY <2>1, <2>2, <3>2
    <3>3. CASE queue[c] # <<>> /\ queue'[c] = Tail(queue[c])
      <4>1. PICK q \in Seq(Sent) : q = queue[c] /\ Len(q) <= QueueSize
        BY <2>3
      <4>2. Tail(q) \in Seq(Sent) /\ Len(Tail(q)) = Len(q) - 1 /\ Len(q) \in Nat
        BY <3>3, <4>1, HeadTailProperties
      <4>. QED
        BY <2>1, <3>3, <4>1, <4>2
    <3>. QED
      BY <3>1, <3>2, <3>3
  <2>. QED
    BY <2>4
<1>3. Types'
  BY <1>1, <1>2 DEF ReadersHold, Types
<1>4. ChainsUnbroken'
  BY ChainsStay DEF ReadersHold
<1>. QED
  BY <1>3, <1>4, BooksStay DEF ReadersHold

\* What the exchange sends when it is told of the topic keeps the invariant.
LEMMA AnswersKeeps ==
  ASSUME ReadersHold, Answers,
         UNCHANGED <<stream, past, queue, readerVars>>,
         joined' \in [Consumers -> {"fresh", "shared", "leftover"}]
  PROVE  ReadersHold'
<1>1. /\ UNCHANGED <<stream, past, queue, reader, book, bootstrapped, last, missed>>
      /\ Sent' = Sent
  BY DEF readerVars, Sent, WholeBooks
<1>2. Snapshot \in Sent /\ Snapshot \in Message /\ Snapshot.full
      /\ Snapshot.at = Len(past)
  BY DEF ReadersHold, Types, Snapshot, Sent, Message
<1>3. wire' \in Seq(Sent)
  <2>1. wire \in Seq(Sent) /\ (wire' = Append(wire, Snapshot) \/ wire' = wire)
    BY DEF Answers, ReadersHold, Types
  <2>. QED
    BY <1>2, <2>1, AppendProperties
<1>4. Types'
  BY <1>1, <1>3 DEF ReadersHold, Types
<1>5. ChainsUnbroken'
  <2>1. CASE WholeBooks
    BY <1>1, <2>1 DEF ChainsUnbroken, WholeBooks
  <2>2. CASE ~WholeBooks /\ wire' = Append(wire, Snapshot)
    <3>1. ReadersHold /\ Types /\ ChainsUnbroken
      BY DEF ReadersHold
    <3>2. \A c \in Consumers : reader'[c] = "on" => reader[c] = "on"
      BY <1>1
    <3>3. Snapshot.at = Len(past)'
      BY <1>1, <1>2
    <3>4. UNCHANGED <<stream, queue, bootstrapped, last, missed>>
      BY <1>1
    <3>. QED
      BY <1>2, <2>2, <3>1, <3>2, <3>3, <3>4, ChainsGoOn
  <2>3. CASE ~WholeBooks /\ Topic \in streamed /\ UNCHANGED wire
    <3>1. Topic \in streamed' => Topic \in streamed
      BY <2>3
    <3>. QED
      BY <1>1, <2>3, <3>1, ChainsStay DEF ReadersHold
  <2>. QED
    BY <2>1, <2>2, <2>3 DEF Answers
<1>6. \A c \in Consumers : missed[c] => missed'[c]
  BY <1>1
<1>. QED
  BY <1>1, <1>4, <1>5, <1>6, BooksStay DEF ReadersHold

\* Steps that change nothing but the hub, the readers that there are and how they
\* came.
LEMMA JoinsKeeps ==
  ASSUME ReadersHold, HubFeeds, NEW c \in Consumers, Joins(c)
  PROVE  ReadersHold'
<1>1. /\ UNCHANGED <<stream, past, wire, queue, book, bootstrapped, last, missed,
                     streamed>>
      /\ reader' = [reader EXCEPT ![c] = "on"]
      /\ con[c] = "idle"
      /\ joined' \in [Consumers -> {"fresh", "shared", "leftover"}]
  BY DEF Joins, Hub!Subscribe, Hub!wireVars, ReadersHold, Types
<1>2. queue[c] = <<>> /\ ~bootstrapped[c]
  BY <1>1 DEF HubFeeds
<1>3. Types'
  BY <1>1 DEF ReadersHold, Types, Sent, WholeBooks
<1>4. ASSUME NEW s, Unbroken(s), NEW t, t = s
      PROVE  Chained(t) /\ (Topic \in streamed' /\ t # <<>> => t[Len(t)].at = Len(past)')
  BY <1>1, <1>4 DEF Unbroken, Current
<1>5. ChainsUnbroken'
  <2> SUFFICES ASSUME ~WholeBooks PROVE ChainsUnbroken'
    BY <1>1 DEF ChainsUnbroken, WholeBooks
  <2>1. Unbroken(wire)'
    <3>1. Unbroken(wire) /\ wire' = wire
      BY <1>1 DEF ReadersHold, ChainsUnbroken
    <3>. QED
      BY <1>4, <3>1 DEF Unbroken, Current, Chained
  <2>2. ASSUME NEW d \in Consumers, reader'[d] = "on"
        PROVE  Unbroken(Chain(d))'
    <3>1. Chain(d)' = Chain(d)
      BY <1>1 DEF Chain, Applied
    <3>2. Unbroken(Chain(d))
      <4>1. CASE d # c
        BY <1>1, <2>2, <4>1 DEF ReadersHold, Types, ChainsUnbroken
      <4>2. CASE d = c
        <5>1. <<>> \o wire = wire
          BY ConcatEmptySeq DEF ReadersHold, Types
        <5>2. Chain(d) = wire
          BY <1>2, <4>2, <5>1 DEF Chain
        <5>. QED
          BY <5>2 DEF ReadersHold, ChainsUnbroken
      <4>. QED
        BY <4>1, <4>2
    <3>. QED
      BY <1>4, <3>1, <3>2 DEF Unbroken, Current, Chained
  <2>. QED
    BY <2>1, <2>2 DEF ChainsUnbroken
<1>6. \A d \in Consumers : missed[d] => missed'[d]
  BY <1>1
<1>. QED
  BY <1>1, <1>3, <1>5, <1>6, BooksStay DEF ReadersHold

\* A consumer announces the topic on the connection.
LEMMA AnnouncesKeeps ==
  ASSUME ReadersHold, HubFeeds, NEW c \in Consumers, Announces(c)
  PROVE  ReadersHold'
<1>1. /\ UNCHANGED <<stream, past, queue, readerVars, joined, ws>>
      /\ joined \in [Consumers -> {"fresh", "shared", "leftover"}]
  BY DEF Announces, Hub!SubscribeWakes, ReadersHold, Types
<1>2. CASE con'[c] = "sending" /\ ws = "up"
  <2>1. Answers
    BY <1>2 DEF Announces
  <2>. QED
    BY <1>1, <2>1, AnswersKeeps
<1>3. CASE ~(con'[c] = "sending" /\ ws = "up")
  <2>1. UNCHANGED <<wire, streamed>>
    BY <1>1, <1>3 DEF Announces, Hub!SubscribeWakes, Hub!SendSubscribe, HubFeeds
  <2>. QED
    BY <1>1, <2>1, QuietStepKeeps DEF readerVars, ReadersHold, Types
<1>. QED
  BY <1>2, <1>3

\* A reader that ends reads no more; a topic may be dropped with it.
LEMMA GivesUpKeeps ==
  ASSUME ReadersHold, NEW c \in Consumers, GivesUp(c)
  PROVE  ReadersHold'
<1>1. /\ UNCHANGED <<stream, past, wire, queue, book, bootstrapped, last, missed,
                     joined, streamed>>
      /\ reader' = [reader EXCEPT ![c] = "ended"]
  BY DEF GivesUp, Hub!SubscribeCancelled, Hub!wireVars
<1>2. /\ reader' \in [Consumers -> {"idle", "on", "ended"}]
      /\ \A d \in Consumers : reader'[d] = "on" => reader[d] = "on"
  BY <1>1 DEF ReadersHold, Types
<1>. QED
  BY <1>1, <1>2, QuietStepKeeps DEF ReadersHold, Types

\* A reader leaves, or gives up.
LEMMA AbandonedKeeps ==
  ASSUME ReadersHold, NEW c \in Consumers, Abandoned(c) \/ Leaves(c)
  PROVE  ReadersHold'
<1>1. /\ UNCHANGED <<stream, past, wire, book, bootstrapped, last, missed, joined>>
      /\ reader' = [reader EXCEPT ![c] = "ended"]
      /\ queue' = [queue EXCEPT ![c] = <<>>]
      /\ Topic \in streamed' => Topic \in streamed
  BY DEF Abandoned, Ends, hub, Leaves, Hub!Unsubscribe, Hub!SendUnsubscribe
<1>2. /\ reader' \in [Consumers -> {"idle", "on", "ended"}]
      /\ joined' \in [Consumers -> {"fresh", "shared", "leftover"}]
      /\ DOMAIN queue' = Consumers
      /\ \A d \in Consumers : queue'[d] = queue[d] \/ queue'[d] = <<>>
      /\ \A d \in Consumers :
             reader'[d] = "on" => reader[d] = "on" /\ queue'[d] = queue[d]
  BY <1>1 DEF ReadersHold, Types
<1>. QED
  BY <1>1, <1>2, QuietStepKeeps

\* Steps of the hub without messages.
HubAlone ==
    \/ \E c \in Consumers : \/ SubscribeTimesOut(c)
                            \/ SubscribeReturns(c)
                            \/ UnsubscribeReturns(c)
    \/ ConnectFails \/ Announced \/ Breaks \/ Reconnects
    \/ UNCHANGED vars

\* What the hub does by itself is not seen by the readers.
LEMMA HubAloneKeeps ==
  ASSUME ReadersHold, HubAlone
  PROVE  ReadersHold'
<1>1. UNCHANGED <<stream, past, wire, queue, reader, book, bootstrapped, last,
                  missed, joined>>
  BY DEF HubAlone, SubscribeTimesOut, SubscribeReturns, UnsubscribeReturns,
     ConnectFails, Announced, Breaks, Reconnects, NoMessages, readerVars, vars
<1>2. Topic \in streamed' => Topic \in streamed
  BY DEF HubAlone, SubscribeTimesOut, SubscribeReturns, UnsubscribeReturns,
     ConnectFails, Announced, Breaks, Reconnects, Hub!SubscribeTimesOut,
     Hub!SubscribeReturns, Hub!UnsubscribeReturns, Hub!ConnectFails,
     Hub!Announced, Hub!Breaks, Hub!Reconnects, Hub!wireVars, vars, hub
<1>3. /\ reader \in [Consumers -> {"idle", "on", "ended"}]
      /\ joined \in [Consumers -> {"fresh", "shared", "leftover"}]
      /\ DOMAIN queue = Consumers
  BY DEF ReadersHold, Types
<1>. QED
  BY <1>1, <1>2, <1>3, QuietStepKeeps

\* On a new connection the exchange begins anew, and with a snapshot.
LEMMA ConnectsKeeps ==
  ASSUME ReadersHold, HubFeeds, Connects
  PROVE  ReadersHold'
<1>1. /\ UNCHANGED <<stream, past, queue, readerVars>>
      /\ joined' \in [Consumers -> {"fresh", "shared", "leftover"}]
  BY DEF Connects
<1>2. CASE Topic \in streamed'
  BY <1>1, <1>2, AnswersKeeps DEF Connects
<1>3. CASE Topic \notin streamed'
  <2>1. UNCHANGED wire
    BY <1>3 DEF Connects
  <2>2. /\ UNCHANGED <<stream, past, wire, queue, reader, book, bootstrapped, last,
                       missed>>
        /\ Topic \in streamed' => Topic \in streamed
    BY <1>1, <1>3, <2>1 DEF readerVars
  <2>3. /\ reader' \in [Consumers -> {"idle", "on", "ended"}]
        /\ DOMAIN queue' = Consumers
    BY <2>2 DEF ReadersHold, Types
  <2>. QED
    BY <1>1, <2>2, <2>3, QuietStepKeeps
<1>. QED
  BY <1>2, <1>3

\* What is lost with a connection is the end of every chain.
LEMMA GoesDownKeeps ==
  ASSUME ReadersHold, HubFeeds, GoesDown
  PROVE  ReadersHold'
<1>1. /\ UNCHANGED <<stream, past, queue, reader, book, bootstrapped, last, missed,
                     joined>>
      /\ wire' = <<>>
      /\ Topic \notin streamed'
  BY DEF GoesDown, readerVars, Hub!Disconnects, HubFeeds
<1>2. Types'
  <2>1. Sent' = Sent /\ wire' \in Seq(Sent)'
    BY <1>1, EmptySeq DEF Sent, WholeBooks
  <2>. QED
    BY <1>1, <2>1 DEF ReadersHold, Types
<1>3. ChainsUnbroken'
  <2> SUFFICES ASSUME ~WholeBooks PROVE ChainsUnbroken'
    BY <1>1 DEF ChainsUnbroken, WholeBooks
  <2>1. Unbroken(wire)'
    BY <1>1, EmptySeq DEF Unbroken, Current, Chained
  <2>2. ASSUME NEW c \in Consumers, reader'[c] = "on"
        PROVE  Unbroken(Chain(c))'
    <3>1. queue[c] \in Seq(Message) /\ wire \in Seq(Message)
      BY SentAreMessages DEF ReadersHold
    <3>2. Chained(Chain(c))
      BY <1>1, <2>2 DEF ReadersHold, ChainsUnbroken, Unbroken
    <3>3. queue[c] \o <<>> = queue[c]
      BY <3>1, ConcatEmptySeq
    <3>4. CASE bootstrapped[c] /\ ~missed[c]
      <4>1. Applied(c) \in Message /\ <<Applied(c)>> \in Seq(Message)
        BY DEF ReadersHold, Types, Applied, Message
      <4>2. /\ Chain(c) = (<<Applied(c)>> \o queue[c]) \o wire
            /\ <<Applied(c)>> \o queue[c] \in Seq(Message)
        <5>1. Chain(c) = <<Applied(c)>> \o (queue[c] \o wire)
          BY <3>4 DEF Chain
        <5>2. (<<Applied(c)>> \o queue[c]) \o wire
                  = <<Applied(c)>> \o (queue[c] \o wire)
          <6>1. ASSUME NEW q \in Seq(Message), NEW w \in Seq(Message)
                PROVE  (<<Applied(c)>> \o q) \o w = <<Applied(c)>> \o (q \o w)
            BY <4>1, ConcatAssociative
          <6>. QED
            BY <3>1, <6>1
        <5>3. <<Applied(c)>> \o queue[c] \in Seq(Message)
          BY <3>1, <4>1, ConcatProperties
        <5>. QED
          BY <5>1, <5>2, <5>3
      <4>3. Chained(<<Applied(c)>> \o queue[c])
        BY <3>1, <3>2, <4>2, BeginningIsUnbroken
      <4>4. Chain(c)' = <<Applied(c)>> \o queue[c]
        BY <1>1, <3>3, <3>4 DEF Chain, Applied
      <4>. QED
        BY <1>1, <4>3, <4>4 DEF Unbroken, Current, Chained
    <3>5. CASE ~(bootstrapped[c] /\ ~missed[c])
      <4>1. Chain(c) = queue[c] \o wire
        BY <3>5 DEF Chain
      <4>2. Chained(queue[c])
        BY <3>1, <3>2, <4>1, BeginningIsUnbroken
      <4>3. Chain(c)' = queue[c]
        BY <1>1, <3>3, <3>5 DEF Chain
      <4>. QED
        BY <1>1, <4>2, <4>3 DEF Unbroken, Current, Chained
    <3>. QED
      BY <3>4, <3>5
  <2>. QED
    BY <2>1, <2>2 DEF ChainsUnbroken
<1>4. \A c \in Consumers : missed[c] => missed'[c]
  BY <1>1
<1>. QED
  BY <1>1, <1>2, <1>3, <1>4, BooksStay DEF ReadersHold

-----------------------------------------------------------------------------
(* Steps of the messages *)

\* A chain without its beginning.
LEMMA ChainsRest ==
  ASSUME Types, NEW c \in Consumers, Unbroken(Chain(c))
  PROVE  /\ Unbroken(queue[c] \o wire)
         /\ queue[c] # <<>> => Unbroken(Tail(queue[c]) \o wire)
<1>1. queue[c] \in Seq(Message) /\ wire \in Seq(Message)
  BY SentAreMessages
<1>2. queue[c] \o wire \in Seq(Message)
  BY <1>1
<1>3. Unbroken(queue[c] \o wire)
  <2>1. CASE bootstrapped[c] /\ ~missed[c]
    <3>1. Applied(c) \in Message
      BY DEF Types, Applied, Message
    <3>2. /\ Chain(c) \in Seq(Message) /\ Chain(c) # <<>>
          /\ Tail(Chain(c)) = queue[c] \o wire
      BY <1>1, <2>1, <3>1, Pending DEF Chain
    <3>. QED
      BY <3>2, RestIsUnbroken
  <2>2. CASE ~(bootstrapped[c] /\ ~missed[c])
    BY <2>2 DEF Chain
  <2>. QED
    BY <2>1, <2>2
<1>4. ASSUME queue[c] # <<>>
      PROVE  Unbroken(Tail(queue[c]) \o wire)
  <2>1. queue[c] \o wire # <<>> /\ Tail(queue[c] \o wire) = Tail(queue[c]) \o wire
    <3>1. ASSUME NEW q \in Seq(Message), NEW w \in Seq(Message), q # <<>>
          PROVE  q \o w # <<>> /\ Tail(q \o w) = Tail(q) \o w
      BY <3>1, Pending
    <3>. QED
      BY <1>1, <1>4, <3>1
  <2>. QED
    BY <1>2, <1>3, <2>1, RestIsUnbroken
<1>. QED
  BY <1>3, <1>4

\* A chain is one as long as nothing new happens to the book.
LEMMA UnbrokenStays ==
  ASSUME NEW s, Unbroken(s), past' = past, Topic \in streamed' => Topic \in streamed
  PROVE  Unbroken(s)'
BY DEF Unbroken, Current, Chained

\* What is delivered moves along its chain; what it pushes out is lost from the
\* beginning.
LEMMA DeliverKeeps ==
  ASSUME ReadersHold, HubFeeds, Deliver
  PROVE  ReadersHold'
<1> DEFINE m == Head(wire)
           to == {c \in queues[Topic] : reader[c] = "on"}
<1>1. /\ wire # <<>>
      /\ wire' = Tail(wire)
      /\ queue' = [c \in Consumers |->
             IF c \notin to THEN queue[c]
             ELSE Append(IF Full(queue[c]) THEN Tail(queue[c]) ELSE queue[c], m)]
      /\ missed' = [c \in Consumers |-> missed[c] \/ (c \in to /\ Full(queue[c]))]
      /\ UNCHANGED <<stream, past, reader, book, bootstrapped, last, joined,
                     streamed>>
  BY DEF Deliver, hub
<1>2. /\ m \in Sent /\ Tail(wire) \in Seq(Sent) /\ wire \in Seq(Sent)
      /\ Sent' = Sent
  BY <1>1, HeadTailProperties DEF ReadersHold, Types, Sent, WholeBooks
<1>3. QueueSize \in Nat \ {0}
  BY BoundsAssumption
<1>4. \A c \in Consumers :
          reader[c] = "on" =>
              queue'[c] = Append(IF Full(queue[c]) THEN Tail(queue[c]) ELSE queue[c], m)
  BY <1>1 DEF HubFeeds
<1>5. Types'
  <2>1. ASSUME NEW c \in Consumers
        PROVE  queue'[c] \in Seq(Sent) /\ Len(queue'[c]) <= QueueSize
    <3>1. queue[c] \in Seq(Sent) /\ Len(queue[c]) <= QueueSize
      BY DEF ReadersHold, Types
    <3>2. CASE queue'[c] = queue[c]
      BY <3>1, <3>2
    <3>3. CASE Full(queue[c]) /\ queue'[c] = Append(Tail(queue[c]), m)
      <4>1. queue[c] # <<>> /\ Len(queue[c]) = QueueSize
        BY <1>3, <3>3, EmptySeq DEF Full
      <4>2. Tail(queue[c]) \in Seq(Sent) /\ Len(Tail(queue[c])) = QueueSize - 1
        BY <3>1, <4>1, HeadTailProperties
      <4>3. queue'[c] \in Seq(Sent) /\ Len(queue'[c]) = QueueSize - 1 + 1
        BY <1>2, <3>3, <4>2, AppendProperties
      <4>. QED
        BY <1>3, <4>3
    <3>4. CASE ~Full(queue[c]) /\ queue'[c] = Append(queue[c], m)
      <4>1. queue'[c] \in Seq(Sent) /\ Len(queue'[c]) = Len(queue[c]) + 1
        BY <1>2, <3>1, <3>4, AppendProperties
      <4>2. Len(queue[c]) \in Nat /\ Len(queue[c]) # QueueSize
        BY <3>1, <3>4 DEF Full
      <4>. QED
        BY <1>3, <3>1, <4>1, <4>2
    <3>. QED
      BY <1>1, <3>2, <3>3, <3>4
  <2>2. DOMAIN queue' = Consumers /\ missed' \in [Consumers -> BOOLEAN]
    BY <1>1
  <2>. QED
    BY <1>1, <1>2, <2>1, <2>2 DEF ReadersHold, Types
<1>6. ChainsUnbroken'
  <2> SUFFICES ASSUME ~WholeBooks PROVE ChainsUnbroken'
    BY <1>1 DEF ChainsUnbroken, WholeBooks
  <2>1. ASSUME NEW s, Unbroken(s) PROVE Unbroken(s)'
    BY <1>1, <2>1, UnbrokenStays
  <2>2. Unbroken(wire)'
    <3>1. Unbroken(Tail(wire))
      BY <1>1, SentAreMessages, RestIsUnbroken DEF ReadersHold, ChainsUnbroken
    <3>2. PICK s : s = Tail(wire)
      OBVIOUS
    <3>3. Unbroken(s)'
      BY <2>1, <3>1, <3>2
    <3>. QED
      BY <1>1, <3>2, <3>3 DEF Unbroken, Current, Chained
  <2>3. ASSUME NEW c \in Consumers, reader'[c] = "on"
        PROVE  Unbroken(Chain(c))'
    <3>1. Unbroken(Chain(c)) /\ reader[c] = "on" /\ Types
      BY <1>1, <2>3 DEF ReadersHold, ChainsUnbroken
    <3>2. queue[c] \in Seq(Sent)
      BY <3>1 DEF Types
    <3>3. PICK s : s = Chain(c)'
      OBVIOUS
    <3>4. Unbroken(s)
      <4>1. CASE Full(queue[c])
        <5>1. queue[c] # <<>>
          BY <1>3, <4>1, EmptySeq DEF Full
        <5>2. missed'[c] /\ queue'[c] = Append(Tail(queue[c]), m)
          BY <1>1, <1>4, <3>1, <4>1 DEF HubFeeds
        <5>3. Append(Tail(queue[c]), m) \o Tail(wire) = Tail(queue[c]) \o wire
          BY <1>1, <1>2, <3>2, <5>1, HeadTailProperties, Pending
        <5>4. Chain(c)' = Tail(queue[c]) \o wire
          BY <1>1, <5>2, <5>3 DEF Chain
        <5>. QED
          BY <3>1, <3>3, <5>1, <5>4, ChainsRest
      <4>2. CASE ~Full(queue[c])
        <5>1. missed'[c] = missed[c] /\ queue'[c] = Append(queue[c], m)
          BY <1>1, <1>4, <3>1, <4>2 DEF ReadersHold, Types
        <5>2. Append(queue[c], m) \o Tail(wire) = queue[c] \o wire
          BY <1>1, <1>2, <3>2, Pending
        <5>3. Chain(c)' = Chain(c)
          BY <1>1, <5>1, <5>2 DEF Chain, Applied
        <5>. QED
          BY <3>1, <3>3, <5>3
      <4>. QED
        BY <4>1, <4>2
    <3>5. Unbroken(s)'
      BY <2>1, <3>4
    <3>. QED
      BY <3>3, <3>5 DEF Unbroken, Current, Chained
  <2>. QED
    BY <2>2, <2>3 DEF ChainsUnbroken
<1>7. \A c \in Consumers : missed[c] => missed'[c]
  BY <1>1
<1>. QED
  BY <1>1, <1>5, <1>6, <1>7, BooksStay DEF ReadersHold

\* A change is the next message where the topic is streamed, and no chain's matter
\* where it is not.
LEMMA ChangesKeeps ==
  ASSUME ReadersHold, Changes
  PROVE  ReadersHold'
<1> DEFINE m == [full |-> WholeBooks, at |-> Len(past')]
<1>1. /\ Len(past) < MaxChanges
      /\ wire' = IF Topic \in streamed THEN Append(wire, m) ELSE wire
      /\ UNCHANGED <<stream, queue, reader, book, bootstrapped, last, missed, joined,
                     streamed>>
  BY DEF Changes, hub, readerVars
<1>2. PICK b \in SUBSET Levels : past' = Append(past, b)
  <2>1. past[Len(past)] \in SUBSET Levels
    BY ElementOfSeq DEF ReadersHold, Types
  <2>. QED
    BY <2>1 DEF Changes
<1>3. /\ past' \in Seq(SUBSET Levels)
      /\ Len(past') = Len(past) + 1
      /\ Len(past') \in 1..MaxChanges
  <2>1. MaxChanges \in Nat
    BY BoundsAssumption
  <2>2. past \in Seq(SUBSET Levels) /\ Len(past) \in 1..MaxChanges
    BY DEF ReadersHold, Types
  <2>. QED
    BY <1>1, <1>2, <2>1, <2>2, AppendProperties
<1>4. Sent \subseteq Sent' /\ m \in Sent' /\ m \in Message
  <2>1. Len(past) \in Nat /\ Len(past)' \in Nat \ {0} /\ Len(past)' = Len(past) + 1
    BY <1>3 DEF ReadersHold, Types
  <2>2. WholeBooks \in BOOLEAN /\ WholeBooks' = WholeBooks
    BY <1>1 DEF WholeBooks
  <2>. QED
    BY <2>1, <2>2 DEF Sent, Message
<1>5. Types'
  <2>1. wire \in Seq(Sent') /\ \A c \in Consumers : queue[c] \in Seq(Sent')
    BY <1>4, SeqMonotonic DEF ReadersHold, Types
  <2>2. wire' \in Seq(Sent')
    BY <1>1, <1>4, <2>1, AppendProperties
  <2>3. last' \in [Consumers -> 0..Len(past')]
    BY <1>1, <1>3 DEF ReadersHold, Types
  <2>. QED
    BY <1>1, <1>3, <2>1, <2>2, <2>3 DEF ReadersHold, Types
<1>6. ChainsUnbroken'
  <2>1. CASE WholeBooks
    BY <1>1, <2>1 DEF ChainsUnbroken, WholeBooks
  <2>2. CASE ~WholeBooks /\ Topic \in streamed
    <3>1. PICK n \in Message : n = m
      BY <1>4
    <3>2. n.at = Len(past)' /\ n.at = Len(past) + 1 /\ wire' = Append(wire, n)
      BY <1>1, <1>3, <2>2, <3>1
    <3>3. \A c \in Consumers : reader'[c] = "on" => reader[c] = "on"
      BY <1>1
    <3>4. UNCHANGED <<stream, queue, bootstrapped, last, missed>>
      BY <1>1
    <3>. QED
      BY <2>2, <3>2, <3>3, <3>4, ChainsGoOn DEF ReadersHold
  <2>3. CASE ~WholeBooks /\ Topic \notin streamed
    <3>1. UNCHANGED <<wire, queue, bootstrapped, last, missed, reader>>
      BY <1>1, <2>3
    <3>2. Topic \notin streamed'
      BY <1>1, <2>3
    <3>3. \A c \in Consumers : Chain(c)' = Chain(c)
      BY <3>1 DEF Chain, Applied
    <3>. QED
      BY <2>3, <3>1, <3>2, <3>3
      DEF ReadersHold, ChainsUnbroken, Unbroken, Current, Chained
  <2>. QED
    BY <2>1, <2>2, <2>3
<1>7. \A c \in Consumers : missed[c] => missed'[c]
  BY <1>1
<1>. QED
  BY <1>1, <1>2, <1>5, <1>6, <1>7, BooksStay DEF ReadersHold

\* The next message follows on what has been applied, if nothing was missed.
LEMMA NextFollows ==
  ASSUME ReadersHold, ~WholeBooks, NEW c \in Consumers, reader[c] = "on",
         queue[c] # <<>>, bootstrapped[c], ~missed[c]
  PROVE  Head(queue[c]).full \/ Head(queue[c]).at = last[c] + 1
<1>1. PICK q \in Seq(Message) : q = queue[c]
  BY SentAreMessages DEF ReadersHold
<1>2. PICK w \in Seq(Message) : w = wire
  BY SentAreMessages DEF ReadersHold
<1>3. PICK h \in Message : h = Applied(c)
  <2>1. Applied(c) \in Message
    BY DEF ReadersHold, Types, Applied, Message
  <2>. QED
    BY <2>1
<1>4. Chain(c) = <<h>> \o (q \o w)
  BY <1>1, <1>2, <1>3 DEF Chain
<1>5. q \o w \in Seq(Message) /\ q \o w # <<>> /\ (q \o w)[1] = Head(q)
  BY <1>1, Pending
<1>6. PICK r \in Seq(Message) : r = q \o w /\ r # <<>> /\ r[1] = Head(q)
  BY <1>5
<1>7. Chain(c)[1] = h /\ Chain(c)[2] = r[1] /\ Len(Chain(c)) >= 2
      /\ Len(Chain(c)) \in Nat
  <2>1. <<h>> \in Seq(Message) /\ Len(<<h>>) = 1 /\ <<h>>[1] = h
    OBVIOUS
  <2>2. Len(r) \in Nat \ {0}
    BY <1>6, EmptySeq
  <2>. QED
    BY <1>4, <1>6, <2>1, <2>2, ConcatProperties
<1>8. Chain(c)[2].full \/ Chain(c)[2].at = Chain(c)[2 - 1].at + 1
  BY <1>7 DEF ReadersHold, ChainsUnbroken, Unbroken, Chained
<1>. QED
  BY <1>1, <1>3, <1>6, <1>7, <1>8 DEF Applied

\* A reader that ends at a message, or skips one.
LEMMA MalformedKeeps ==
  ASSUME ReadersHold, NEW c \in Consumers,
         Malformed(c) \/ (Reads(c) /\ IsGap(c, Head(queue[c])))
  PROVE  ReadersHold'
<1>1. /\ queue[c] # <<>>
      /\ queue' = [queue EXCEPT ![c] = Tail(@)]
      /\ UNCHANGED <<stream, past, wire, joined, streamed, book, bootstrapped, last>>
      /\ \/ reader' = [reader EXCEPT ![c] = "ended"] /\ UNCHANGED missed
         \/ missed' = [missed EXCEPT ![c] = TRUE] /\ UNCHANGED reader
  BY DEF Malformed, Reads, HasMessage, Ends, hub
<1>2. /\ DOMAIN queue' = Consumers
      /\ queue'[c] = Tail(queue[c])
      /\ \A d \in Consumers \ {c} : queue'[d] = queue[d]
  BY <1>1 DEF ReadersHold, Types
<1>3. CASE reader' = [reader EXCEPT ![c] = "ended"] /\ UNCHANGED missed
  <2>1. /\ reader' \in [Consumers -> {"idle", "on", "ended"}]
        /\ joined' \in [Consumers -> {"fresh", "shared", "leftover"}]
        /\ \A d \in Consumers :
               reader'[d] = "on" => reader[d] = "on" /\ queue'[d] = queue[d]
        /\ \A d \in Consumers :
               \/ queue'[d] = queue[d] \/ queue'[d] = <<>>
               \/ queue[d] # <<>> /\ queue'[d] = Tail(queue[d])
    BY <1>1, <1>2, <1>3 DEF ReadersHold, Types
  <2>. QED
    BY <1>1, <1>2, <1>3, <2>1, QuietStepKeeps
<1>4. CASE missed' = [missed EXCEPT ![c] = TRUE] /\ UNCHANGED reader
  <2>1. Types'
    <3>1. Sent' = Sent /\ missed' \in [Consumers -> BOOLEAN]
      BY <1>1, <1>4 DEF ReadersHold, Types, Sent, WholeBooks
    <3>2. PICK q \in Seq(Sent) : q = queue[c] /\ Len(q) <= QueueSize
      BY DEF ReadersHold, Types
    <3>3. Tail(q) \in Seq(Sent) /\ Len(Tail(q)) = Len(q) - 1 /\ Len(q) \in Nat
      BY <1>1, <3>2, HeadTailProperties
    <3>4. QueueSize \in Nat
      BY BoundsAssumption
    <3>5. \A d \in Consumers : queue'[d] \in Seq(Sent) /\ Len(queue'[d]) <= QueueSize
      <4>1. \A d \in Consumers : queue[d] \in Seq(Sent) /\ Len(queue[d]) <= QueueSize
        BY DEF ReadersHold, Types
      <4>2. queue'[c] \in Seq(Sent) /\ Len(queue'[c]) <= QueueSize
        BY <1>2, <3>2, <3>3, <3>4
      <4>. QED
        BY <1>2, <4>1, <4>2
    <3>. QED
      BY <1>1, <1>2, <1>4, <3>1, <3>5 DEF ReadersHold, Types
  <2>2. ChainsUnbroken'
    <3> SUFFICES ASSUME ~WholeBooks PROVE ChainsUnbroken'
      BY <1>1 DEF ChainsUnbroken, WholeBooks
    <3>1. ASSUME NEW s, Unbroken(s) PROVE Unbroken(s)'
      BY <1>1, <3>1, UnbrokenStays
    <3>2. Unbroken(wire)'
      BY <1>1, <3>1 DEF ReadersHold, ChainsUnbroken, Unbroken, Current, Chained
    <3>3. ASSUME NEW d \in Consumers, reader'[d] = "on"
          PROVE  Unbroken(Chain(d))'
      <4>1. Unbroken(Chain(d)) /\ Types
        BY <1>4, <3>3 DEF ReadersHold, ChainsUnbroken
      <4>2. PICK s : s = Chain(d)'
        OBVIOUS
      <4>3. Unbroken(s)
        <5>1. CASE d = c
          <6>1. missed'[c] /\ Chain(c)' = Tail(queue[c]) \o wire
            BY <1>1, <1>2, <1>4 DEF ReadersHold, Types, Chain
          <6>. QED
            BY <1>1, <4>1, <4>2, <5>1, <6>1, ChainsRest
        <5>2. CASE d # c
          <6>1. missed'[d] = missed[d] /\ queue'[d] = queue[d]
            BY <1>2, <1>4, <5>2 DEF ReadersHold, Types
          <6>2. Chain(d)' = Chain(d)
            BY <1>1, <6>1 DEF Chain, Applied
          <6>. QED
            BY <4>1, <4>2, <6>2
        <5>. QED
          BY <5>1, <5>2
      <4>. QED
        BY <3>1, <4>2, <4>3 DEF Unbroken, Current, Chained
    <3>. QED
      BY <3>2, <3>3 DEF ChainsUnbroken
  <2>3. \A d \in Consumers : missed[d] => missed'[d]
    BY <1>4 DEF ReadersHold, Types
  <2>. QED
    BY <1>1, <2>1, <2>2, <2>3, BooksStay DEF ReadersHold
<1>. QED
  BY <1>1, <1>3, <1>4

\* The changes bring a book from one state of the exchange's to the next.
LEMMA AfterIsNext ==
  ASSUME NEW n, past[n - 1] \in SUBSET Levels, past[n] \in SUBSET Levels
  PROVE  After(past[n - 1], n) = past[n]
BY DEF After

\* A message that is read takes a true book to a true book.
LEMMA ReadsKeeps ==
  ASSUME ReadersHold, NEW c \in Consumers, Reads(c), ~IsGap(c, Head(queue[c]))
  PROVE  ReadersHold'
<1>1. PICK q \in Seq(Sent) : q = queue[c] /\ Len(q) <= QueueSize
  BY DEF ReadersHold, Types
<1>2. PICK m \in Sent : m = Head(q) /\ q # <<>>
  <2>1. q # <<>>
    BY <1>1 DEF Reads, HasMessage
  <2>2. Head(q) \in Sent
    BY <2>1, HeadTailProperties
  <2>. QED
    BY <2>1, <2>2
<1>3. /\ last' = [last EXCEPT ![c] = m.at]
      /\ bootstrapped' = [bootstrapped EXCEPT ![c] = @ \/ m.full]
      /\ book' = [book EXCEPT ![c] =
             IF m.full THEN past[m.at]
             ELSE IF bootstrapped[c] THEN After(@, m.at) ELSE @]
      /\ missed' = [missed EXCEPT ![c] = @ /\ ~m.full]
      /\ queue' = [queue EXCEPT ![c] = Tail(@)]
      /\ UNCHANGED <<stream, past, wire, joined, reader, streamed>>
      /\ reader[c] = "on"
  BY <1>1, <1>2 DEF Reads, HasMessage, hub
<1>4. /\ m.full \in BOOLEAN /\ m.at \in 1..Len(past) /\ m.at \in Nat
      /\ WholeBooks => m.full
      /\ Len(past) \in Nat
      /\ \A n \in 1..Len(past) : past[n] \in SUBSET Levels
  BY ElementOfSeq DEF ReadersHold, Types, Sent
<1>5. /\ last'[c] = m.at
      /\ bootstrapped'[c] = (bootstrapped[c] \/ m.full)
      /\ book'[c] = IF m.full THEN past[m.at]
                    ELSE IF bootstrapped[c] THEN After(book[c], m.at) ELSE book[c]
      /\ missed'[c] = (missed[c] /\ ~m.full)
      /\ queue'[c] = Tail(q)
  BY <1>1, <1>3 DEF ReadersHold, Types
<1>6. \A d \in Consumers \ {c} :
          /\ last'[d] = last[d] /\ bootstrapped'[d] = bootstrapped[d]
          /\ book'[d] = book[d] /\ missed'[d] = missed[d] /\ queue'[d] = queue[d]
  BY <1>3 DEF ReadersHold, Types
<1>7. ASSUME bootstrapped'[c], Sequenced \/ WholeBooks \/ ~missed'[c]
      PROVE  book'[c] = past[m.at]
  <2>1. CASE m.full
    BY <1>5, <2>1
  <2>2. CASE ~m.full
    <3>1. bootstrapped[c] /\ ~WholeBooks /\ (Sequenced \/ ~missed[c])
      BY <1>4, <1>5, <1>7, <2>2
    <3>2. book[c] = past[last[c]] /\ last[c] # 0 /\ last[c] \in Nat
      BY <1>4, <3>1 DEF ReadersHold, Types, BookIsTrue
    <3>3. m.at = last[c] + 1
      <4>1. CASE Sequenced
        BY <1>1, <1>2, <2>2, <3>2, <4>1 DEF IsGap
      <4>2. CASE ~missed[c]
        BY <1>1, <1>2, <1>3, <2>2, <3>1, <4>2, NextFollows
      <4>. QED
        BY <3>1, <4>1, <4>2
    <3>4. last[c] = m.at - 1 /\ m.at - 1 \in 1..Len(past)
      BY <1>4, <3>2, <3>3
    <3>5. After(past[m.at - 1], m.at) = past[m.at]
      BY <1>4, <3>4, AfterIsNext
    <3>. QED
      BY <1>5, <2>2, <3>1, <3>2, <3>4, <3>5
  <2>. QED
    BY <1>4, <2>1, <2>2
<1>8. book'[c] \in SUBSET Levels
  <2>1. book[c] \in SUBSET Levels
    BY DEF ReadersHold, Types
  <2>2. CASE m.full \/ ~bootstrapped[c]
    BY <1>4, <1>5, <2>1, <2>2
  <2>3. CASE ~m.full /\ bootstrapped[c]
    <3>1. book'[c] = (book[c] \ (past[m.at - 1] \ past[m.at]))
                         \cup (past[m.at] \ past[m.at - 1])
      BY <1>5, <2>3 DEF After
    <3>. QED
      BY <1>4, <2>1, <3>1
  <2>. QED
    BY <1>4, <2>2, <2>3
<1>9. Types'
  <2>1. Sent' = Sent
    BY <1>3 DEF Sent, WholeBooks
  <2>2. Tail(q) \in Seq(Sent) /\ Len(Tail(q)) = Len(q) - 1 /\ Len(q) \in Nat
    BY <1>2, HeadTailProperties
  <2>3. QueueSize \in Nat
    BY BoundsAssumption
  <2>4. queue'[c] \in Seq(Sent) /\ Len(queue'[c]) <= QueueSize
    BY <1>1, <1>5, <2>2, <2>3
  <2>5. \A d \in Consumers : queue'[d] \in Seq(Sent) /\ Len(queue'[d]) <= QueueSize
    BY <1>6, <2>4 DEF ReadersHold, Types
  <2>6. /\ bootstrapped' \in [Consumers -> BOOLEAN]
        /\ missed' \in [Consumers -> BOOLEAN]
        /\ last' \in [Consumers -> 0..Len(past)]
        /\ DOMAIN queue' = Consumers
    BY <1>3, <1>4 DEF ReadersHold, Types
  <2>7. book' \in [Consumers -> SUBSET Levels]
    <3>1. book \in [Consumers -> SUBSET Levels]
      BY DEF ReadersHold, Types
    <3>2. DOMAIN book' = Consumers /\ \A d \in Consumers : book'[d] \in SUBSET Levels
      BY <1>3, <1>6, <1>8, <3>1
    <3>3. book' = [d \in Consumers |-> book'[d]]
      BY <1>3, <3>1
    <3>. QED
      BY <3>2, <3>3
  <2>. QED
    BY <1>3, <2>1, <2>5, <2>6, <2>7 DEF ReadersHold, Types
<1>10. \A d \in Consumers : bootstrapped'[d] => last'[d] # 0
  BY <1>4, <1>5, <1>6 DEF ReadersHold
<1>11. BookIsTrue'
  <2> SUFFICES ASSUME NEW d \in Consumers, bootstrapped'[d],
                      Sequenced \/ WholeBooks \/ ~missed'[d]
               PROVE  book'[d] = past[last'[d]]
    BY <1>3 DEF BookIsTrue, Sequenced, WholeBooks
  <2>1. CASE d = c
    BY <1>5, <1>7, <2>1
  <2>2. CASE d # c
    BY <1>6, <2>2 DEF ReadersHold, BookIsTrue
  <2>. QED
    BY <2>1, <2>2
<1>12. ChainsUnbroken'
  <2> SUFFICES ASSUME ~WholeBooks PROVE ChainsUnbroken'
    BY <1>3 DEF ChainsUnbroken, WholeBooks
  <2>1. ASSUME NEW s, Unbroken(s) PROVE Unbroken(s)'
    BY <1>3, <2>1, UnbrokenStays
  <2>2. Unbroken(wire)'
    BY <1>3, <2>1 DEF ReadersHold, ChainsUnbroken, Unbroken, Current, Chained
  <2>3. ASSUME NEW d \in Consumers, reader'[d] = "on"
        PROVE  Unbroken(Chain(d))'
    <3>1. Unbroken(Chain(d)) /\ Types
      BY <1>3, <2>3 DEF ReadersHold, ChainsUnbroken
    <3>2. PICK s : s = Chain(d)'
      OBVIOUS
    <3>3. Unbroken(s)
      <4>1. CASE d # c
        <5>1. Chain(d)' = Chain(d)
          BY <1>3, <1>6, <4>1 DEF Chain, Applied
        <5>. QED
          BY <3>1, <3>2, <5>1
      <4>2. CASE d = c
        <5>1. PICK w \in Seq(Message) : w = wire
          BY <3>1, SentAreMessages
        <5>2. q \in Seq(Message) /\ m \in Message
          BY <1>1, <3>1, SentAreMessages
        <5>3. PICK r \in Seq(Message) :
                  /\ r = q \o w /\ r # <<>> /\ r[1] = m /\ Tail(r) = Tail(q) \o w
          <6>1. /\ q \o w \in Seq(Message) /\ q \o w # <<>>
                /\ (q \o w)[1] = Head(q) /\ Tail(q \o w) = Tail(q) \o w
            BY <1>2, <5>2, Pending
          <6>. QED
            BY <1>2, <6>1
        <5>4. Unbroken(r)
          BY <1>1, <3>1, <4>2, <5>1, <5>3, ChainsRest
        <5>5. CASE bootstrapped'[c] /\ ~missed'[c]
          <6>1. PICK h \in Message : h = [full |-> TRUE, at |-> m.at]
            BY <1>4 DEF Message
          <6>2. Chain(c)' = <<h>> \o Tail(r)
            BY <1>3, <1>5, <5>1, <5>3, <5>5, <6>1 DEF Chain, Applied
          <6>3. h.at = r[1].at
            BY <5>3, <6>1
          <6>. QED
            BY <3>2, <4>2, <5>3, <5>4, <6>2, <6>3, HeadIsReplaced
        <5>6. CASE ~(bootstrapped'[c] /\ ~missed'[c])
          <6>1. Chain(c)' = Tail(r)
            BY <1>3, <1>5, <5>1, <5>3, <5>6 DEF Chain
          <6>. QED
            BY <3>2, <4>2, <5>3, <5>4, <6>1, RestIsUnbroken
        <5>. QED
          BY <5>5, <5>6
      <4>. QED
        BY <4>1, <4>2
    <3>4. Unbroken(s)'
      BY <2>1, <3>3
    <3>. QED
      BY <3>2, <3>4 DEF Unbroken, Current, Chained
  <2>. QED
    BY <2>2, <2>3 DEF ChainsUnbroken
<1>. QED
  BY <1>9, <1>10, <1>11, <1>12 DEF ReadersHold

-----------------------------------------------------------------------------
(* What the readers need of the hub *)

\* A consumer keeps its queue and its messages until it leaves, and a connection
\* that is being made streams nothing.
LEMMA HubKeepsFeeding ==
  ASSUME Types, HubFeeds, Next
  PROVE  HubFeeds'
<1> USE DEF Types
<1>1. ASSUME NEW c \in Consumers, Joins(c)
      PROVE  HubFeeds'
  BY <1>1 DEF HubFeeds, Joins, Hub!Subscribe, Hub!wireVars
<1>2. ASSUME NEW c \in Consumers, Announces(c)
      PROVE  HubFeeds'
  <2>1. /\ UNCHANGED <<queues, run, ws, queue, reader, bootstrapped>>
        /\ con[c] = "waiting"
        /\ con' \in {[con EXCEPT ![c] = "reading"], [con EXCEPT ![c] = "sending"]}
        /\ ws # "up" => UNCHANGED streamed
    BY <1>2 DEF Announces, Hub!SubscribeWakes, Hub!SendSubscribe, readerVars
  <2>. QED
    BY <2>1 DEF HubFeeds
<1>3. ASSUME NEW c \in Consumers, GivesUp(c)
      PROVE  HubFeeds'
  BY <1>3 DEF HubFeeds, GivesUp, Hub!SubscribeCancelled, Hub!hubVars, Hub!wireVars
<1>4. ASSUME NEW c \in Consumers, Abandoned(c)
      PROVE  HubFeeds'
  BY <1>4 DEF HubFeeds, Abandoned, Ends, hub
<1>5. ASSUME NEW c \in Consumers, Leaves(c)
      PROVE  HubFeeds'
  <2>1. /\ UNCHANGED <<run, ws, bootstrapped>>
        /\ con[c] = "reading"
        /\ con' \in {[con EXCEPT ![c] = "leaving"], [con EXCEPT ![c] = "gone"]}
        /\ streamed' \subseteq streamed
        /\ queues' = [queues EXCEPT ![topicOf[c]] = @ \ {c}]
        /\ reader' = [reader EXCEPT ![c] = "ended"]
        /\ queue' = [queue EXCEPT ![c] = <<>>]
    BY <1>5 DEF Leaves, Hub!Unsubscribe, Hub!SendUnsubscribe
  <2>2. /\ queues' \in [{Topic} -> SUBSET Consumers]
        /\ \A d \in Consumers \ {c} : d \in queues[Topic] => d \in queues'[Topic]
    BY <2>1 DEF HubFeeds
  <2>. QED
    BY <2>1, <2>2 DEF HubFeeds
<1>6. ASSUME NEW c \in Consumers,
             SubscribeTimesOut(c) \/ SubscribeReturns(c) \/ UnsubscribeReturns(c)
      PROVE  HubFeeds'
  <2>1. /\ UNCHANGED <<queues, run, ws, streamed, queue, reader, bootstrapped>>
        /\ con[c] # "idle"
        /\ con' \in {[con EXCEPT ![c] = "reading"], [con EXCEPT ![c] = "gone"]}
    BY <1>6 DEF SubscribeTimesOut, SubscribeReturns, UnsubscribeReturns,
       NoMessages, readerVars, Hub!SubscribeTimesOut, Hub!SubscribeReturns,
       Hub!UnsubscribeReturns, Hub!hubVars, Hub!wireVars
  <2>. QED
    BY <2>1 DEF HubFeeds
<1>7. ASSUME NEW c \in Consumers, Reads(c) \/ Malformed(c)
      PROVE  HubFeeds'
  <2>1. /\ UNCHANGED <<queues, con, run, ws, streamed>>
        /\ reader[c] = "on" /\ con[c] # "idle"
        /\ reader' \in {reader, [reader EXCEPT ![c] = "ended"]}
        /\ queue' = [queue EXCEPT ![c] = Tail(@)]
        /\ \A d \in Consumers \ {c} : bootstrapped'[d] = bootstrapped[d]
    BY <1>7 DEF Reads, Malformed, HasMessage, Ends, hub
  <2>. QED
    BY <2>1 DEF HubFeeds
<1>8. ASSUME Connects \/ ConnectFails \/ Announced \/ Breaks \/ GoesDown \/ Reconnects
      PROVE  HubFeeds'
  BY <1>8 DEF HubFeeds, Connects, ConnectFails, Announced, Breaks, GoesDown,
     Reconnects, NoMessages, readerVars, Hub!Connects, Hub!ConnectFails,
     Hub!Announced, Hub!Breaks, Hub!Disconnects, Hub!Reconnects, Hub!hubVars,
     Hub!consumerVars, Hub!wireVars
<1>9. ASSUME Deliver
      PROVE  HubFeeds'
  BY <1>9 DEF HubFeeds, Deliver, hub
<1>10. ASSUME Changes \/ Terminated
       PROVE  HubFeeds'
  BY <1>10 DEF HubFeeds, Changes, Terminated, vars, hub, readerVars
<1>. QED
  BY <1>1, <1>2, <1>3, <1>4, <1>5, <1>6, <1>7, <1>8, <1>9, <1>10
  DEF Next, ConsumerNext

-----------------------------------------------------------------------------
(* The theorem *)

\* The invariant holds initially.
LEMMA InitInv == Init => Inv
<1> SUFFICES ASSUME Init PROVE Inv
  OBVIOUS
<1>1. QueueSize \in Nat \ {0} /\ MaxChanges \in Nat \ {0}
  BY BoundsAssumption
<1>2. /\ past = <<{}>> /\ past \in Seq(SUBSET Levels) /\ Len(past) = 1
      /\ wire = <<>> /\ \A c \in Consumers : queue[c] = <<>>
      /\ wire \in Seq(Sent)
  BY DEF Init
<1>3. Types
  BY <1>1, <1>2 DEF Init, Types
<1>4. HubFeeds
  BY DEF Init, Hub!Init, HubFeeds
<1>5. \A c \in Consumers : reader[c] = "idle" /\ ~bootstrapped[c]
  BY DEF Init
<1>6. ChainsUnbroken
  BY <1>2, <1>5 DEF ChainsUnbroken, Unbroken, Chained, Current
<1>. QED
  BY <1>3, <1>4, <1>5, <1>6 DEF Inv, BookIsTrue

\* Every step keeps it.
LEMMA NextKeepsInv == Inv /\ [Next]_vars => Inv'
<1> SUFFICES ASSUME Inv, [Next]_vars PROVE Inv'
  OBVIOUS
<1>1. ReadersHold /\ Types /\ HubFeeds
  BY DEF Inv, ReadersHold
<1>2. HubFeeds'
  <2>1. CASE Next
    BY <1>1, <2>1, HubKeepsFeeding
  <2>2. CASE UNCHANGED vars
    BY <1>1, <2>2 DEF HubFeeds, vars, hub, readerVars
  <2>. QED
    BY <2>1, <2>2
<1>3. ReadersHold'
  <2>1. ASSUME NEW c \in Consumers, ConsumerNext(c)
        PROVE  ReadersHold'
    <3>1. CASE Joins(c)
      BY <1>1, <3>1, JoinsKeeps
    <3>2. CASE Announces(c)
      BY <1>1, <3>2, AnnouncesKeeps
    <3>3. CASE GivesUp(c)
      BY <1>1, <3>3, GivesUpKeeps
    <3>4. CASE Abandoned(c) \/ Leaves(c)
      BY <1>1, <3>4, AbandonedKeeps
    <3>5. CASE SubscribeTimesOut(c) \/ SubscribeReturns(c) \/ UnsubscribeReturns(c)
      BY <1>1, <3>5, HubAloneKeeps DEF HubAlone
    <3>6. CASE Reads(c) /\ ~IsGap(c, Head(queue[c]))
      BY <1>1, <3>6, ReadsKeeps
    <3>7. CASE Malformed(c) \/ (Reads(c) /\ IsGap(c, Head(queue[c])))
      BY <1>1, <3>7, MalformedKeeps
    <3>. QED
      BY <2>1, <3>1, <3>2, <3>3, <3>4, <3>5, <3>6, <3>7 DEF ConsumerNext
  <2>2. CASE Connects
    BY <1>1, <2>2, ConnectsKeeps
  <2>3. CASE ConnectFails \/ Announced \/ Breaks \/ Reconnects \/ UNCHANGED vars
    BY <1>1, <2>3, HubAloneKeeps DEF HubAlone
  <2>4. CASE GoesDown
    BY <1>1, <2>4, GoesDownKeeps
  <2>5. CASE Deliver
    BY <1>1, <2>5, DeliverKeeps
  <2>6. CASE Changes
    BY <1>1, <2>6, ChangesKeeps
  <2>7. CASE Terminated
    BY <2>3, <2>7 DEF Terminated
  <2>. QED
    BY <2>1, <2>2, <2>3, <2>4, <2>5, <2>6, <2>7 DEF Next
<1>. QED
  BY <1>2, <1>3 DEF Inv, ReadersHold

\* What a generator yields is the exchange's book as it was after the last message
\* it read, through late joins, full queues, malformed messages and reconnects,
\* unless updates without numbers were lost; and no queue outgrows its size.
THEOREM BooksStayTrue == Spec => []BooksHold
<1>1. Inv => BooksHold
  <2> SUFFICES ASSUME Inv PROVE BooksHold
    OBVIOUS
  <2>1. Sent \subseteq Messages
    BY BoundsAssumption DEF Inv, Types, Sent, Messages
  <2>2. /\ wire \in Seq(Messages)
        /\ \A c \in Consumers :
               queue[c] \in Seq(Messages) /\ Len(queue[c]) <= QueueSize
    BY <2>1, SeqMonotonic DEF Inv, Types
  <2>3. last \in [Consumers -> 0..MaxChanges]
    BY BoundsAssumption DEF Inv, Types
  <2>. QED
    BY <2>2, <2>3 DEF Inv, Types, TypeOK, BooksHold
<1>. QED
  BY <1>1, InitInv, NextKeepsInv, PTL DEF Spec

=============================================================================
