--------------------------- MODULE InitDaemonProofs ---------------------------
(***************************************************************************)
(* Proofs about the inside of "iknite init": the event bus, for any number *)
(* of publishers, subscribers and events and any buffer of at least one    *)
(* event, and the kubelet, for any number of runs.                         *)
(*                                                                         *)
(* One lemma per action shows that it keeps IndInv, for the bus, or        *)
(* DaemonInv, with one step per conjunct; the properties follow from them. *)
(***************************************************************************)
EXTENDS EventBus, InitDaemon, TLAPS

----------------------------------------------------------------------------
(* The bus.                                                                 *)

\* What the head and the tail of a non-empty buffer are, index by index.
LEMMA HeadTail ==
    ASSUME NEW S, NEW q \in Seq(S), q # <<>>
    PROVE  /\ Head(q) \in S /\ Head(q) = q[1]
           /\ Tail(q) \in Seq(S) /\ Len(q) \in Nat \ {0} /\ Len(Tail(q)) = Len(q) - 1
           /\ \A i \in 1..Len(Tail(q)) : Tail(q)[i] = q[i + 1] /\ i + 1 \in 1..Len(q)
  OBVIOUS

\* What appending does to a buffer, index by index.
LEMMA AppendIndex ==
    ASSUME NEW S, NEW q \in Seq(S), NEW e \in S
    PROVE  /\ Append(q, e) \in Seq(S) /\ Len(q) \in Nat /\ Len(Append(q, e)) = Len(q) + 1
           /\ \A i \in 1..Len(q) : Append(q, e)[i] = q[i] /\ q[i] \in S
           /\ Append(q, e)[Len(q) + 1] = e
  OBVIOUS

\* Every buffered event carries its publisher and a number.
LEMMA ChanFacts ==
    ASSUME TypeOK, NEW s \in Subscribers
    PROVE  /\ chan[s] \in Seq(Events) /\ Len(chan[s]) \in Nat
           /\ \A i \in 1..Len(chan[s]) : chan[s][i].from \in Publishers /\ chan[s][i].n \in Nat
  <1>1. chan[s] \in Seq(Events)
    BY DEF TypeOK
  <1>2. Len(chan[s]) \in Nat /\ \A i \in 1..Len(chan[s]) : chan[s][i] \in Events
    BY <1>1
  <1>3. \A e \in Events : e.from \in Publishers /\ e.n \in Nat
    BY BusConstants DEF Events
  <1>4. QED
    BY <1>1, <1>2, <1>3

\* The bus starts empty.
LEMMA InitInd == Init => IndInv
  BY BusConstants DEF Init, IndInv, TypeOK, InOrder, InFlightIsNewest, CloseMatchesMap, Events

\* Subscribing and unsubscribing touch the map and the closes only.
LEMMA SubscriptionInd ==
    ASSUME IndInv, NEW s \in Subscribers, Subscribe(s) \/ Unsubscribe(s)
    PROVE  IndInv'
  <1>1. TypeOK'
    <2>1. closes' \in [Subscribers -> Nat]
      <3>1. closes \in [Subscribers -> Nat] /\ closes[s] + 1 \in Nat
        BY DEF IndInv, TypeOK
      <3>2. closes' = closes \/ closes' = [closes EXCEPT ![s] = closes[s] + 1]
        BY DEF Subscribe, Unsubscribe
      <3>3. QED
        BY <3>1, <3>2
    <2>2. subs' \in SUBSET Subscribers /\ born' \in SUBSET Subscribers
      BY DEF IndInv, TypeOK, Subscribe, Unsubscribe
    <2>3. UNCHANGED <<chan, pubPc, todo, count, last>>
      BY DEF Subscribe, Unsubscribe
    <2>4. QED
      BY <2>1, <2>2, <2>3 DEF IndInv, TypeOK, Events
  <1>2. InOrder' /\ InFlightIsNewest'
    BY DEF IndInv, TypeOK, InOrder, InFlightIsNewest, Subscribe, Unsubscribe
  <1>3. CloseMatchesMap'
    BY DEF IndInv, TypeOK, CloseMatchesMap, Subscribe, Unsubscribe
  <1>4. QED
    BY <1>1, <1>2, <1>3 DEF IndInv

\* Publish numbers a new event, newer than everything of its publisher.
LEMMA PublishInd ==
    ASSUME IndInv, NEW p \in Publishers, Publish(p)
    PROVE  IndInv'
  <1>1. TypeOK'
    <2>1. count[p] \in 0..MaxEvents /\ count[p] < MaxEvents
      BY DEF IndInv, TypeOK, Publish
    <2>2. count[p] + 1 \in 0..MaxEvents
      BY <2>1, BusConstants
    <2>3. count' \in [Publishers -> 0..MaxEvents]
      BY <2>2 DEF IndInv, TypeOK, Publish
    <2>4. /\ todo' \in [Publishers -> SUBSET Subscribers]
          /\ pubPc' \in [Publishers -> {"idle", "sending", "panicked"}]
      BY DEF IndInv, TypeOK, Publish
    <2>5. QED
      BY <2>3, <2>4 DEF IndInv, TypeOK, Publish, Events
  <1>2. InOrder'
    BY DEF IndInv, InOrder, Publish
  <1>3. InFlightIsNewest'
    <2> SUFFICES ASSUME NEW q \in Publishers, NEW s \in Subscribers
                 PROVE  /\ \A i \in 1..Len(chan[s]) : chan[s][i].from = q => chan[s][i].n <= count'[q]
                        /\ last[s][q] <= count'[q]
                        /\ s \in todo'[q] => /\ last[s][q] < count'[q]
                                             /\ \A i \in 1..Len(chan[s]) :
                                                  chan[s][i].from = q => chan[s][i].n < count'[q]
      BY DEF Publish, InFlightIsNewest
    <2>1. /\ chan[s] \in Seq(Events) /\ count[q] \in Nat /\ last[s][q] \in Nat
          /\ \A i \in 1..Len(chan[s]) : chan[s][i].n \in Nat
      BY ChanFacts, BusConstants DEF IndInv, TypeOK
    <2>2. CASE q = p
      <3>1. count'[q] = count[q] + 1
        BY <2>2 DEF IndInv, TypeOK, Publish
      <3>2. QED
        BY <2>1, <3>1 DEF IndInv, InFlightIsNewest
    <2>3. CASE q # p
      <3>1. count'[q] = count[q] /\ todo'[q] = todo[q]
        BY <2>3 DEF IndInv, TypeOK, Publish
      <3>2. QED
        BY <2>1, <3>1 DEF IndInv, InFlightIsNewest
    <2>4. QED
      BY <2>2, <2>3
  <1>4. CloseMatchesMap'
    BY DEF IndInv, TypeOK, CloseMatchesMap, Publish
  <1>5. QED
    BY <1>1, <1>2, <1>3, <1>4 DEF IndInv

\* A send puts the event in flight behind older ones of the same publisher, or
\* changes no channel.
LEMMA SendInd ==
    ASSUME IndInv, NEW p \in Publishers, NEW s \in Subscribers, Send(p, s)
    PROVE  IndInv'
  <1> DEFINE e == Event(p, count[p])
  <1>0. /\ chan[s] \in Seq(Events) /\ count[p] \in 0..MaxEvents /\ count[p] \in Nat
        /\ last[s][p] \in Nat /\ last[s][p] < count[p] /\ s \in todo[p]
    BY BusConstants DEF IndInv, TypeOK, InFlightIsNewest, Send
  <1>e. e \in Events /\ e.from = p /\ e.n = count[p]
    BY <1>0 DEF Event, Events
  <1>t. /\ todo' \in [Publishers -> SUBSET Subscribers]
        /\ \A q \in Publishers : todo'[q] \subseteq todo[q]
        /\ UNCHANGED <<subs, born, closes, count, last>>
        /\ pubPc' \in [Publishers -> {"idle", "sending", "panicked"}]
    <2>1. /\ todo \in [Publishers -> SUBSET Subscribers]
          /\ pubPc \in [Publishers -> {"idle", "sending", "panicked"}]
      BY DEF IndInv, TypeOK
    <2>2. UNCHANGED <<subs, born, closes, count, last>>
      BY DEF Send
    <2>3. todo' = todo \/ todo' = [todo EXCEPT ![p] = todo[p] \ {s}]
      BY DEF Send
    <2>4. pubPc' = pubPc \/ pubPc' = [pubPc EXCEPT ![p] = "panicked"]
      BY DEF Send
    <2>5. todo' \in [Publishers -> SUBSET Subscribers]
      BY <2>1, <2>3
    <2>6. \A q \in Publishers : todo'[q] \subseteq todo[q]
      BY <2>1, <2>3
    <2>7. pubPc' \in [Publishers -> {"idle", "sending", "panicked"}]
      BY <2>1, <2>4
    <2>8. QED
      BY <2>2, <2>5, <2>6, <2>7
  <1>c. CloseMatchesMap'
    BY <1>t DEF IndInv, TypeOK, CloseMatchesMap
  <1>1. CASE chan' = chan
    <2>1. TypeOK'
      BY <1>1, <1>t DEF IndInv, TypeOK, Events
    <2>2. InOrder'
      BY <1>1, <1>t DEF IndInv, InOrder
    <2>3. InFlightIsNewest'
      BY <1>1, <1>t DEF IndInv, InFlightIsNewest
    <2>4. QED
      BY <2>1, <2>2, <2>3, <1>c DEF IndInv
  <1>2. CASE chan' # chan
    <2>0. /\ chan' = [chan EXCEPT ![s] = Append(@, e)]
          /\ todo' = [todo EXCEPT ![p] = @ \ {s}]
      BY <1>2 DEF Send
    <2> DEFINE q == Append(chan[s], e)
    <2>q. /\ chan' \in [Subscribers -> Seq(Events)] /\ chan'[s] = q
          /\ \A r \in Subscribers \ {s} : chan'[r] = chan[r]
          /\ s \notin todo'[p]
      BY <2>0, <1>e, AppendIndex DEF IndInv, TypeOK
    <2>i. /\ Len(chan[s]) \in Nat /\ Len(q) = Len(chan[s]) + 1 /\ q[Len(chan[s]) + 1] = e
          /\ \A i \in 1..Len(chan[s]) : q[i] = chan[s][i] /\ chan[s][i] \in Events
      BY <1>0, <1>e, AppendIndex
    <2>n. \A i \in 1..Len(chan[s]) : chan[s][i].n \in Nat /\ (chan[s][i].from = p => chan[s][i].n < count[p])
      BY <1>0, <2>i DEF IndInv, InFlightIsNewest, Events
    <2> HIDE DEF q, e
    <2>1. TypeOK'
      BY <2>q, <1>t DEF IndInv, TypeOK, Events
    <2>2. InOrder'
      <3> SUFFICES ASSUME NEW r \in Subscribers
                   PROVE  /\ \A i \in 1..Len(chan'[r]) : last[r][chan'[r][i].from] < chan'[r][i].n
                          /\ \A i, j \in 1..Len(chan'[r]) :
                                i < j /\ chan'[r][i].from = chan'[r][j].from
                                   => chan'[r][i].n < chan'[r][j].n
        BY <1>t DEF InOrder
      <3>1. CASE r # s
        BY <3>1, <2>q DEF IndInv, InOrder
      <3>2. CASE r = s
        <4>1. \A i \in 1..Len(q) : i \in 1..Len(chan[s]) \/ (i = Len(chan[s]) + 1 /\ q[i] = e)
          BY <2>i
        <4>2. /\ \A i \in 1..Len(chan[s]) : last[s][chan[s][i].from] < chan[s][i].n
              /\ \A i, j \in 1..Len(chan[s]) :
                    i < j /\ chan[s][i].from = chan[s][j].from => chan[s][i].n < chan[s][j].n
          BY DEF IndInv, InOrder
        <4>3. \A i \in 1..Len(q) : last[s][q[i].from] < q[i].n
          BY <4>1, <4>2, <2>i, <1>e, <1>0
        <4>4. \A i, j \in 1..Len(q) : i < j /\ q[i].from = q[j].from => q[i].n < q[j].n
          <5> SUFFICES ASSUME NEW i \in 1..Len(q), NEW j \in 1..Len(q),
                              i < j, q[i].from = q[j].from
                       PROVE  q[i].n < q[j].n
            OBVIOUS
          <5>1. i \in 1..Len(chan[s]) /\ q[i] = chan[s][i]
            BY <2>i
          <5>2. CASE j \in 1..Len(chan[s])
            <6>1. q[j] = chan[s][j]
              BY <5>2, <2>i
            <6>2. QED
              BY <5>1, <5>2, <6>1, <4>2
          <5>3. CASE j = Len(chan[s]) + 1 /\ q[j] = e
            BY <5>1, <5>3, <1>e, <2>n
          <5>4. QED
            BY <5>2, <5>3, <4>1
        <4>5. QED
          BY <4>3, <4>4, <3>2, <2>q
      <3>3. QED
        BY <3>1, <3>2
    <2>3. InFlightIsNewest'
      <3> SUFFICES ASSUME NEW o \in Publishers, NEW r \in Subscribers
                   PROVE  /\ \A i \in 1..Len(chan'[r]) : chan'[r][i].from = o => chan'[r][i].n <= count[o]
                          /\ last[r][o] <= count[o]
                          /\ r \in todo'[o] => /\ last[r][o] < count[o]
                                               /\ \A i \in 1..Len(chan'[r]) :
                                                    chan'[r][i].from = o => chan'[r][i].n < count[o]
        BY <1>t DEF InFlightIsNewest
      <3>0. /\ \A i \in 1..Len(chan[r]) : chan[r][i].from = o => chan[r][i].n <= count[o]
            /\ last[r][o] <= count[o]
            /\ r \in todo[o] => /\ last[r][o] < count[o]
                                /\ \A i \in 1..Len(chan[r]) :
                                      chan[r][i].from = o => chan[r][i].n < count[o]
        BY DEF IndInv, InFlightIsNewest
      <3>1. CASE r # s
        BY <3>0, <3>1, <2>q, <1>t
      <3>2. CASE r = s
        <4>1. \A i \in 1..Len(q) : i \in 1..Len(chan[s]) \/ (i = Len(chan[s]) + 1 /\ q[i] = e)
          BY <2>i
        <4>2. \A i \in 1..Len(q) : q[i].from = o => q[i].n <= count[o]
          BY <4>1, <3>0, <3>2, <2>i, <1>e, <1>0
        <4>3. ASSUME s \in todo'[o]
              PROVE  \A i \in 1..Len(q) : q[i].from = o => q[i].n < count[o]
          <5>1. o # p /\ s \in todo[o]
            BY <4>3, <2>q, <1>t
          <5>2. QED
            BY <4>1, <5>1, <3>0, <3>2, <2>i, <1>e
        <4>4. QED
          BY <4>2, <4>3, <3>0, <3>2, <2>q, <1>t
      <3>3. QED
        BY <3>1, <3>2
    <2>4. QED
      BY <2>1, <2>2, <2>3, <1>c DEF IndInv
  <1>3. QED
    BY <1>1, <1>2

\* Publish returning changes only where the publisher is.
LEMMA ReturnInd ==
    ASSUME IndInv, NEW p \in Publishers, Return(p)
    PROVE  IndInv'
  <1>1. TypeOK'
    BY DEF IndInv, TypeOK, Return, Events
  <1>2. InOrder' /\ InFlightIsNewest' /\ CloseMatchesMap'
    BY DEF IndInv, InOrder, InFlightIsNewest, CloseMatchesMap, Return
  <1>3. QED
    BY <1>1, <1>2 DEF IndInv

\* Receiving takes the oldest event, so what remains of its publisher is newer.
LEMMA ReceiveInd ==
    ASSUME IndInv, NEW s \in Subscribers, Receive(s)
    PROVE  IndInv'
  <1> DEFINE h == Head(chan[s])
             q == Tail(chan[s])
  <1>0. chan[s] \in Seq(Events) /\ chan[s] # <<>>
    BY DEF IndInv, TypeOK, Receive
  <1>h. /\ h \in Events /\ h = chan[s][1] /\ q \in Seq(Events)
        /\ Len(chan[s]) \in Nat \ {0} /\ Len(q) = Len(chan[s]) - 1
        /\ \A i \in 1..Len(q) : q[i] = chan[s][i + 1] /\ i + 1 \in 1..Len(chan[s])
    BY <1>0, HeadTail
  <1>e. h.from \in Publishers /\ h.n \in 1..MaxEvents /\ h.n \in Nat /\ 1 \in 1..Len(chan[s])
    BY <1>h, BusConstants DEF Events
  <1>n. \A r \in Subscribers : \A p \in Publishers : last[r][p] \in Nat /\ count[p] \in Nat
    BY BusConstants DEF IndInv, TypeOK
  <1>c. /\ chan' = [chan EXCEPT ![s] = q]
        /\ last' = [last EXCEPT ![s][h.from] = h.n]
        /\ UNCHANGED <<subs, born, closes, pubPc, todo, count>>
    BY DEF Receive
  <1>i. /\ \A i \in 1..Len(chan[s]) : last[s][chan[s][i].from] < chan[s][i].n
        /\ \A i, j \in 1..Len(chan[s]) :
              i < j /\ chan[s][i].from = chan[s][j].from => chan[s][i].n < chan[s][j].n
    BY DEF IndInv, InOrder
  <1> HIDE DEF h, q
  <1>l. /\ \A r \in Subscribers \ {s} : chan'[r] = chan[r] /\ last'[r] = last[r]
        /\ chan'[s] = q
        /\ last'[s][h.from] = h.n
        /\ \A p \in Publishers \ {h.from} : last'[s][p] = last[s][p]
    BY <1>c, <1>e DEF IndInv, TypeOK
  <1>1. TypeOK'
    <2>0. h.n \in 0..MaxEvents
      BY <1>e, BusConstants
    <2>1. chan' \in [Subscribers -> Seq(Events)]
      BY <1>c, <1>h DEF IndInv, TypeOK
    <2>2. last' \in [Subscribers -> [Publishers -> 0..MaxEvents]]
      BY <1>c, <1>e, <2>0 DEF IndInv, TypeOK
    <2>3. QED
      BY <2>1, <2>2, <1>c DEF IndInv, TypeOK, Events
  <1>2. InOrder'
    <2> SUFFICES ASSUME NEW r \in Subscribers
                 PROVE  /\ \A i \in 1..Len(chan'[r]) : last'[r][chan'[r][i].from] < chan'[r][i].n
                        /\ \A i, j \in 1..Len(chan'[r]) :
                              i < j /\ chan'[r][i].from = chan'[r][j].from
                                 => chan'[r][i].n < chan'[r][j].n
      BY DEF InOrder
    <2>1. CASE r # s
      BY <2>1, <1>l DEF IndInv, InOrder
    <2>2. CASE r = s
      <3>1. \A i \in 1..Len(q) : /\ i \in Nat /\ 1 < i + 1 /\ q[i].from \in Publishers
                                 /\ q[i] = chan[s][i + 1] /\ i + 1 \in 1..Len(chan[s])
        BY <1>h, ChanFacts DEF IndInv
      <3>2. \A i \in 1..Len(q) : last'[s][q[i].from] < q[i].n
        <4> SUFFICES ASSUME NEW i \in 1..Len(q) PROVE last'[s][q[i].from] < q[i].n
          OBVIOUS
        <4>1. CASE q[i].from = h.from
          <5>1. chan[s][1].n < chan[s][i + 1].n
            BY <4>1, <3>1, <1>i, <1>h, <1>e
          <5>2. QED
            BY <4>1, <5>1, <3>1, <1>l, <1>h
        <4>2. CASE q[i].from # h.from
          <5>1. last'[s][q[i].from] = last[s][q[i].from]
            BY <4>2, <3>1, <1>l
          <5>2. last[s][chan[s][i + 1].from] < chan[s][i + 1].n
            BY <3>1, <1>i
          <5>3. QED
            BY <5>1, <5>2, <3>1
        <4>3. QED
          BY <4>1, <4>2
      <3>3. \A i, j \in 1..Len(q) : i < j /\ q[i].from = q[j].from => q[i].n < q[j].n
        <4> SUFFICES ASSUME NEW i \in 1..Len(q), NEW j \in 1..Len(q),
                            i < j, q[i].from = q[j].from
                     PROVE  q[i].n < q[j].n
          OBVIOUS
        <4>1. /\ i + 1 \in 1..Len(chan[s]) /\ j + 1 \in 1..Len(chan[s]) /\ i + 1 < j + 1
              /\ q[i] = chan[s][i + 1] /\ q[j] = chan[s][j + 1]
          BY <3>1
        <4>2. chan[s][i + 1].n < chan[s][j + 1].n
          BY <4>1, <1>i
        <4>3. QED
          BY <4>1, <4>2
      <3>4. QED
        BY <3>2, <3>3, <2>2, <1>l
    <2>3. QED
      BY <2>1, <2>2
  <1>3. InFlightIsNewest'
    <2> SUFFICES ASSUME NEW o \in Publishers, NEW r \in Subscribers
                 PROVE  /\ \A i \in 1..Len(chan'[r]) : chan'[r][i].from = o => chan'[r][i].n <= count[o]
                        /\ last'[r][o] <= count[o]
                        /\ r \in todo[o] => /\ last'[r][o] < count[o]
                                            /\ \A i \in 1..Len(chan'[r]) :
                                                  chan'[r][i].from = o => chan'[r][i].n < count[o]
      BY <1>c DEF InFlightIsNewest
    <2>0. /\ \A i \in 1..Len(chan[r]) : chan[r][i].from = o => chan[r][i].n <= count[o]
          /\ last[r][o] <= count[o]
          /\ r \in todo[o] => /\ last[r][o] < count[o]
                              /\ \A i \in 1..Len(chan[r]) :
                                    chan[r][i].from = o => chan[r][i].n < count[o]
      BY DEF IndInv, InFlightIsNewest
    <2>1. CASE r # s
      BY <2>0, <2>1, <1>l
    <2>2. CASE r = s
      <3>1. \A i \in 1..Len(q) : q[i] = chan[s][i + 1] /\ i + 1 \in 1..Len(chan[s])
        BY <1>h
      <3>2. CASE o = h.from
        <4>1. h.n <= count[o] /\ (s \in todo[o] => h.n < count[o])
          BY <2>0, <2>2, <3>2, <1>h, <1>e
        <4>2. last'[s][o] = h.n
          BY <3>2, <1>l
        <4>3. /\ \A i \in 1..Len(q) : q[i].from = o => q[i].n <= count[o]
              /\ s \in todo[o] => \A i \in 1..Len(q) : q[i].from = o => q[i].n < count[o]
          BY <2>0, <2>2, <3>1
        <4>4. QED
          BY <4>1, <4>2, <4>3, <2>2, <1>l
      <3>3. CASE o # h.from
        <4>1. chan'[r] = q /\ last'[r][o] = last[r][o]
          BY <2>2, <3>3, <1>l
        <4>2. /\ \A i \in 1..Len(q) : q[i].from = o => q[i].n <= count[o]
              /\ r \in todo[o] => \A i \in 1..Len(q) : q[i].from = o => q[i].n < count[o]
          BY <2>0, <2>2, <3>1
        <4>3. QED
          BY <4>1, <4>2, <2>0
      <3>4. QED
        BY <3>2, <3>3
    <2>3. QED
      BY <2>1, <2>2
  <1>4. CloseMatchesMap'
    BY <1>c DEF IndInv, CloseMatchesMap
  <1>5. QED
    BY <1>1, <1>2, <1>3, <1>4 DEF IndInv

\* Every step of the bus keeps the strengthened invariant.
LEMMA NextInd == IndInv /\ [Next]_busVars => IndInv'
  <1> SUFFICES ASSUME IndInv, [Next]_busVars PROVE IndInv'
    OBVIOUS
  <1>1. CASE \E s \in Subscribers : Subscribe(s) \/ Unsubscribe(s) \/ Receive(s)
    BY <1>1, SubscriptionInd, ReceiveInd
  <1>2. CASE \E p \in Publishers : Publishing(p)
    BY <1>2, PublishInd, SendInd, ReturnInd DEF Publishing
  <1>3. CASE UNCHANGED busVars
    BY <1>3 DEF busVars, IndInv, TypeOK, InOrder, InFlightIsNewest, CloseMatchesMap, Events
  <1>4. QED
    BY <1>1, <1>2, <1>3 DEF Next

\* The strengthened invariant holds throughout: an event still to be tried on a
\* channel is newer than all that channel has had from its publisher, and a channel
\* is closed exactly when it was registered and is no longer.
THEOREM BusInvariance == Spec => []IndInv
  BY InitInd, NextInd, PTL DEF Spec

\* Type correctness of the bus.
THEOREM BusTypeCorrect == Spec => []TypeOK
  <1>1. IndInv => TypeOK
    BY DEF IndInv
  <1>2. QED
    BY <1>1, BusInvariance, PTL

\* Per publisher, the select with a default loses events but never reorders or
\* repeats them, for any number of publishers and any buffer.
THEOREM FifoPerPublisher == Spec => []InOrder
  <1>1. IndInv => InOrder
    BY DEF IndInv
  <1>2. QED
    BY <1>1, BusInvariance, PTL

\* However often the unsubscribe function is called, it closes the channel once:
\* running the shutdown hooks twice cannot panic on a second close.
THEOREM NoSecondClose == Spec => []ClosedOnce
  <1>1. IndInv => ClosedOnce
    BY DEF IndInv, TypeOK, CloseMatchesMap, ClosedOnce
  <1>2. QED
    BY <1>1, BusInvariance, PTL

----------------------------------------------------------------------------
(* The kubelet.                                                             *)

USE DEF NoPid, TornPid, Runs, Before, After, Steps

\* A host on which iknite never ran.
LEMMA DaemonInitInd == ASSUME DaemonInit PROVE DaemonInv
    BY RunsBound DEF DaemonInit, DaemonInv, DaemonTypeOK, KubeletsByRun, LiveIsKnown, ProcIsKnown,
                     PidFileIsOurs,
        ExitIsClean, CleanExit, AliveKubelets

\* The process of a run that has passed kubelet-start is a kubelet of this or an
\* earlier run.
LEMMA ProcIsRun == ASSUME DaemonInv, pc # "down", proc # 0 PROVE proc \in Runs
    BY RunsBound DEF DaemonInv, DaemonTypeOK, KubeletsByRun

\* A kubelet that ends becomes a zombie of this run or is gone; no other one changes.
LEMMA KubeletExitsInd ==
    ASSUME DaemonInv, NEW k \in Runs, KubeletExits(k)
    PROVE  DaemonInv'
<1>1. DaemonTypeOK'
    BY DEF KubeletExits, Ended, DaemonInv, DaemonTypeOK
<1>2. KubeletsByRun'
    BY DEF KubeletExits, Ended, DaemonInv, KubeletsByRun
<1>3. LiveIsKnown'
    BY DEF KubeletExits, DaemonInv, LiveIsKnown, AliveKubelets
<1>4. ProcIsKnown'
    BY DEF KubeletExits, Ended, DaemonInv, ProcIsKnown
<1>5. PidFileIsOurs'
    BY DEF KubeletExits, DaemonInv, PidFileIsOurs
<1>6. ExitIsClean'
    BY DEF KubeletExits, DaemonInv, ExitIsClean
<1>7. CleanExit'
    BY DEF KubeletExits, DaemonInv, CleanExit, AliveKubelets
<1>8. QED
    BY <1>1, <1>2, <1>3, <1>4, <1>5, <1>6, <1>7 DEF DaemonInv

\* The kill of the context's goroutine hits the child of this run only.
LEMMA ContextKillInd ==
    ASSUME DaemonInv, ContextKill
    PROVE  DaemonInv'
<1>1. DaemonTypeOK'
    BY DEF ContextKill, DaemonInv, DaemonTypeOK
<1>2. KubeletsByRun'
    BY DEF ContextKill, DaemonInv, KubeletsByRun
<1>3. LiveIsKnown'
    BY DEF ContextKill, DaemonInv, LiveIsKnown, AliveKubelets
<1>4. ProcIsKnown'
    BY DEF ContextKill, DaemonInv, ProcIsKnown
<1>5. PidFileIsOurs'
    BY DEF ContextKill, DaemonInv, PidFileIsOurs
<1>6. ExitIsClean'
    BY DEF ContextKill, DaemonInv, ExitIsClean
<1>7. CleanExit'
    BY DEF ContextKill, DaemonInv, CleanExit, AliveKubelets
<1>8. QED
    BY <1>1, <1>2, <1>3, <1>4, <1>5, <1>6, <1>7 DEF DaemonInv

\* A new run starts with no kubelet of its own and no process.
LEMMA RespawnInd ==
    ASSUME DaemonInv, Respawn
    PROVE  DaemonInv'
<1>1. DaemonTypeOK'
    BY RunsBound DEF Respawn, hostVars, DaemonInv, DaemonTypeOK
<1>2. KubeletsByRun'
    BY RunsBound DEF Respawn, hostVars, DaemonInv, DaemonTypeOK, KubeletsByRun
<1>3. LiveIsKnown'
    BY DEF Respawn, hostVars, DaemonInv, LiveIsKnown, AliveKubelets
<1>4. ProcIsKnown'
    BY DEF Respawn, DaemonInv, ProcIsKnown
<1>5. PidFileIsOurs'
    BY DEF Respawn, DaemonInv, PidFileIsOurs
<1>6. ExitIsClean'
    BY DEF Respawn, DaemonInv, ExitIsClean
<1>7. CleanExit'
    BY DEF Respawn, DaemonInv, CleanExit
<1>8. QED
    BY <1>1, <1>2, <1>3, <1>4, <1>5, <1>6, <1>7 DEF DaemonInv

\* A signal touches only the context.
LEMMA SignalInd ==
    ASSUME DaemonInv, Signal
    PROVE  DaemonInv'
<1>1. DaemonTypeOK'
    BY DEF Signal, hostVars, DaemonInv, DaemonTypeOK
<1>2. KubeletsByRun'
    BY DEF Signal, hostVars, DaemonInv, KubeletsByRun
<1>3. LiveIsKnown'
    BY DEF Signal, hostVars, DaemonInv, LiveIsKnown, AliveKubelets
<1>4. ProcIsKnown'
    BY DEF Signal, hostVars, DaemonInv, ProcIsKnown
<1>5. PidFileIsOurs'
    BY DEF Signal, hostVars, DaemonInv, PidFileIsOurs
<1>6. ExitIsClean'
    BY DEF Signal, DaemonInv, ExitIsClean
<1>7. CleanExit'
    BY DEF Signal, hostVars, DaemonInv, CleanExit, AliveKubelets
<1>8. QED
    BY <1>1, <1>2, <1>3, <1>4, <1>5, <1>6, <1>7 DEF DaemonInv

\* The phases before kubelet-start leave the kubelets alone, or end the run.
LEMMA PhasesBeforeInd ==
    ASSUME DaemonInv, PhasesBefore
    PROVE  DaemonInv'
<1>1. DaemonTypeOK'
    BY DEF PhasesBefore, Exit, Orphaned, DaemonInv, DaemonTypeOK
<1>2. KubeletsByRun'
    BY RunsBound DEF PhasesBefore, Exit, Orphaned, DaemonInv, KubeletsByRun
<1>3. LiveIsKnown'
    BY RunsBound DEF PhasesBefore, Exit, Orphaned, DaemonInv, LiveIsKnown, AliveKubelets
<1>4. ProcIsKnown'
    BY DEF PhasesBefore, Exit, DaemonInv, ProcIsKnown
<1>5. PidFileIsOurs'
    BY DEF PhasesBefore, Exit, DaemonInv, PidFileIsOurs
<1>6. ExitIsClean'
    BY DEF PhasesBefore, Exit, DaemonInv, ExitIsClean
<1>7. CleanExit'
    BY DEF PhasesBefore, Exit, DaemonInv, CleanExit, AliveKubelets
<1>8. QED
    BY <1>1, <1>2, <1>3, <1>4, <1>5, <1>6, <1>7 DEF DaemonInv

\* The kubelet on file is adopted; without one, none is alive unless a pid was lost.
LEMMA CheckPidFileInd ==
    ASSUME DaemonInv, CheckPidFile
    PROVE  DaemonInv'
<1>1. DaemonTypeOK'
    BY DEF CheckPidFile, Exit, Orphaned, DaemonInv, DaemonTypeOK, KubeletsByRun
<1>2. KubeletsByRun'
    BY RunsBound DEF CheckPidFile, Exit, Orphaned, DaemonInv, KubeletsByRun
<1>3. LiveIsKnown'
    BY RunsBound DEF CheckPidFile, Exit, Orphaned, DaemonInv, LiveIsKnown, AliveKubelets
<1>4. ProcIsKnown'
    BY RunsBound DEF CheckPidFile, Exit, DaemonInv, ProcIsKnown
<1>5. PidFileIsOurs'
    BY DEF CheckPidFile, Exit, DaemonInv, PidFileIsOurs
<1>6. ExitIsClean'
    BY DEF CheckPidFile, Exit, DaemonInv, ExitIsClean
<1>7. CleanExit'
    BY DEF CheckPidFile, Exit, DaemonInv, CleanExit, AliveKubelets
<1>8. QED
    BY <1>1, <1>2, <1>3, <1>4, <1>5, <1>6, <1>7 DEF DaemonInv

\* The kubelet this run starts is the only one alive unless a pid was lost.
LEMMA StartCommandInd ==
    ASSUME DaemonInv, StartCommand
    PROVE  DaemonInv'
<1>1. DaemonTypeOK'
    BY DEF StartCommand, Exit, Orphaned, DaemonInv, DaemonTypeOK
<1>2. KubeletsByRun'
    BY RunsBound DEF StartCommand, Exit, Orphaned, DaemonInv, DaemonTypeOK, KubeletsByRun
<1>3. LiveIsKnown'
    BY RunsBound DEF StartCommand, Exit, Orphaned, DaemonInv, DaemonTypeOK, LiveIsKnown, AliveKubelets
<1>4. ProcIsKnown'
    BY DEF StartCommand, Exit, DaemonInv, ProcIsKnown
<1>5. PidFileIsOurs'
    BY DEF StartCommand, DaemonInv, PidFileIsOurs
<1>6. ExitIsClean'
    BY DEF StartCommand, Exit, DaemonInv, ExitIsClean
<1>7. CleanExit'
    BY DEF StartCommand, Exit, DaemonInv, ExitIsClean, CleanExit
<1>8. QED
    BY <1>1, <1>2, <1>3, <1>4, <1>5, <1>6, <1>7 DEF DaemonInv

\* The pid file is empty, or its pid is lost.
LEMMA OpenPidInd ==
    ASSUME DaemonInv, OpenPid
    PROVE  DaemonInv'
<1>1. DaemonTypeOK'
    BY DEF OpenPid, DaemonInv, DaemonTypeOK
<1>2. KubeletsByRun'
    BY DEF OpenPid, DaemonInv, KubeletsByRun
<1>3. LiveIsKnown'
    BY DEF OpenPid, DaemonInv, LiveIsKnown, PidFileIsOurs, AliveKubelets
<1>4. ProcIsKnown'
    BY DEF OpenPid, DaemonInv, KubeletsByRun, ProcIsKnown
<1>5. PidFileIsOurs'
    BY DEF OpenPid, DaemonInv, PidFileIsOurs
<1>6. ExitIsClean'
    BY DEF OpenPid, DaemonInv, ExitIsClean
<1>7. CleanExit'
    BY DEF OpenPid, DaemonInv, ExitIsClean, CleanExit
<1>8. QED
    BY <1>1, <1>2, <1>3, <1>4, <1>5, <1>6, <1>7 DEF DaemonInv

\* The pid file names the kubelet that was started, or its pid is lost.
LEMMA WritePidInd ==
    ASSUME DaemonInv, WritePid
    PROVE  DaemonInv'
<1>1. DaemonTypeOK'
    BY DEF WritePid, DaemonInv, DaemonTypeOK
<1>2. KubeletsByRun'
    BY DEF WritePid, DaemonInv, KubeletsByRun
<1>3. LiveIsKnown'
    BY DEF WritePid, DaemonInv, LiveIsKnown, PidFileIsOurs, AliveKubelets
<1>4. ProcIsKnown'
    BY DEF WritePid, DaemonInv, KubeletsByRun, ProcIsKnown
<1>5. PidFileIsOurs'
    BY DEF WritePid, DaemonInv, PidFileIsOurs
<1>6. ExitIsClean'
    BY DEF WritePid, DaemonInv, ExitIsClean
<1>7. CleanExit'
    BY DEF WritePid, DaemonInv, ExitIsClean, CleanExit
<1>8. QED
    BY <1>1, <1>2, <1>3, <1>4, <1>5, <1>6, <1>7 DEF DaemonInv

\* The daemonize phase waits for the process on file.
LEMMA PhasesAfterInd ==
    ASSUME DaemonInv, PhasesAfter
    PROVE  DaemonInv'
<1>1. DaemonTypeOK'
    BY DEF PhasesAfter, Exit, Orphaned, DaemonInv, DaemonTypeOK
<1>2. KubeletsByRun'
    BY RunsBound DEF PhasesAfter, Exit, Orphaned, DaemonInv, KubeletsByRun
<1>3. LiveIsKnown'
    BY RunsBound DEF PhasesAfter, Exit, Orphaned, DaemonInv, LiveIsKnown, AliveKubelets
<1>4. ProcIsKnown'
    BY RunsBound DEF PhasesAfter, Exit, DaemonInv, ProcIsKnown
<1>5. PidFileIsOurs'
    BY DEF PhasesAfter, Exit, DaemonInv, PidFileIsOurs
<1>6. ExitIsClean'
    BY DEF PhasesAfter, Exit, DaemonInv, ExitIsClean
<1>7. CleanExit'
    BY DEF PhasesAfter, Exit, DaemonInv, CleanExit, AliveKubelets
<1>8. QED
    BY <1>1, <1>2, <1>3, <1>4, <1>5, <1>6, <1>7 DEF DaemonInv

\* The goroutine that waits sees the end of a child, or an error.
LEMMA WaiterInd ==
    ASSUME DaemonInv, Waiter
    PROVE  DaemonInv'
<1>1. DaemonTypeOK'
    BY DEF Waiter, WaitReturns, DaemonInv, DaemonTypeOK
<1>2. KubeletsByRun'
    BY RunsBound DEF Waiter, WaitReturns, DaemonInv, DaemonTypeOK, KubeletsByRun
<1>3. LiveIsKnown'
    BY RunsBound DEF Waiter, WaitReturns, DaemonInv, DaemonTypeOK, LiveIsKnown, AliveKubelets
<1>4. ProcIsKnown'
    BY RunsBound DEF Waiter, WaitReturns, DaemonInv, DaemonTypeOK, ProcIsKnown
<1>5. PidFileIsOurs'
    BY DEF Waiter, DaemonInv, PidFileIsOurs
<1>6. ExitIsClean'
    BY DEF Waiter, DaemonInv, ExitIsClean
<1>7. CleanExit'
    BY DEF Waiter, DaemonInv, ExitIsClean, CleanExit
<1>8. QED
    BY <1>1, <1>2, <1>3, <1>4, <1>5, <1>6, <1>7 DEF DaemonInv

\* A process is forgotten only when it was a child that is gone.
LEMMA SelectDoneInd ==
    ASSUME DaemonInv, SelectDone
    PROVE  DaemonInv'
<1>1. DaemonTypeOK'
    BY DEF SelectDone, Stopping, hostVars, DaemonInv, DaemonTypeOK
<1>2. KubeletsByRun'
    BY DEF SelectDone, Stopping, hostVars, DaemonInv, KubeletsByRun
<1>3. LiveIsKnown'
    BY DEF SelectDone, Stopping, hostVars, DaemonInv, LiveIsKnown, AliveKubelets
<1>4. ProcIsKnown'
    BY DEF SelectDone, Stopping, hostVars, DaemonInv, ProcIsKnown
<1>5. PidFileIsOurs'
    BY DEF SelectDone, Stopping, hostVars, DaemonInv, ProcIsKnown, PidFileIsOurs
<1>6. ExitIsClean'
    BY DEF SelectDone, DaemonInv, ExitIsClean
<1>7. CleanExit'
    BY DEF SelectDone, hostVars, DaemonInv, CleanExit, AliveKubelets
<1>8. QED
    BY <1>1, <1>2, <1>3, <1>4, <1>5, <1>6, <1>7 DEF DaemonInv

\* A SIGTERM does not change the kubelets; a process that is gone cannot be signalled.
LEMMA SelectTermInd ==
    ASSUME DaemonInv, SelectTerm
    PROVE  DaemonInv'
<1>1. DaemonTypeOK'
    <2>1. proc \in Runs
        BY ProcIsRun DEF SelectTerm, DaemonInv, ProcIsKnown
    <2>2. termed' \in SUBSET Runs
        BY <2>1, Zenon DEF SelectTerm, DaemonInv, DaemonTypeOK
    <2>3. QED
        BY <2>2 DEF SelectTerm, Stopping, DaemonInv, DaemonTypeOK
<1>2. KubeletsByRun'
    BY DEF SelectTerm, Stopping, DaemonInv, KubeletsByRun
<1>3. LiveIsKnown'
    BY DEF SelectTerm, Stopping, DaemonInv, LiveIsKnown, AliveKubelets
<1>4. ProcIsKnown'
    BY DEF SelectTerm, Stopping, DaemonInv, ProcIsKnown
<1>5. PidFileIsOurs'
    BY DEF SelectTerm, Stopping, DaemonInv, PidFileIsOurs
<1>6. ExitIsClean'
    BY DEF SelectTerm, DaemonInv, ExitIsClean
<1>7. CleanExit'
    BY DEF SelectTerm, DaemonInv, CleanExit, AliveKubelets
<1>8. QED
    BY <1>1, <1>2, <1>3, <1>4, <1>5, <1>6, <1>7 DEF DaemonInv

\* The second wait ends with the child gone, whoever reaped it.
LEMMA TermWaitInd ==
    ASSUME DaemonInv, TermWait
    PROVE  DaemonInv'
<1>1. DaemonTypeOK'
    BY DEF TermWait, WaitReturns, Stopping, DaemonInv, DaemonTypeOK
<1>2. KubeletsByRun'
    BY RunsBound DEF TermWait, WaitReturns, Stopping, DaemonInv, DaemonTypeOK, KubeletsByRun
<1>3. LiveIsKnown'
    BY RunsBound DEF TermWait, WaitReturns, Stopping, DaemonInv, DaemonTypeOK, LiveIsKnown,
        AliveKubelets
<1>4. ProcIsKnown'
    BY RunsBound DEF TermWait, WaitReturns, Stopping, DaemonInv, DaemonTypeOK, ProcIsKnown
<1>5. PidFileIsOurs'
    BY DEF TermWait, WaitReturns, Stopping, DaemonInv, PidFileIsOurs
<1>6. ExitIsClean'
    BY DEF TermWait, DaemonInv, ExitIsClean
<1>7. CleanExit'
    BY DEF TermWait, DaemonInv, ExitIsClean, CleanExit
<1>8. QED
    BY <1>1, <1>2, <1>3, <1>4, <1>5, <1>6, <1>7 DEF DaemonInv

\* Cleaning changes neither kubelets nor the pid file.
LEMMA CleanAllInd ==
    ASSUME DaemonInv, CleanAll
    PROVE  DaemonInv'
<1>1. DaemonTypeOK'
    BY DEF CleanAll, hostVars, DaemonInv, DaemonTypeOK
<1>2. KubeletsByRun'
    BY DEF CleanAll, hostVars, DaemonInv, KubeletsByRun
<1>3. LiveIsKnown'
    BY DEF CleanAll, hostVars, DaemonInv, LiveIsKnown, AliveKubelets
<1>4. ProcIsKnown'
    BY DEF CleanAll, hostVars, DaemonInv, ProcIsKnown
<1>5. PidFileIsOurs'
    BY DEF CleanAll, hostVars, DaemonInv, PidFileIsOurs
<1>6. ExitIsClean'
    BY DEF CleanAll, DaemonInv, ExitIsClean
<1>7. CleanExit'
    BY DEF CleanAll, hostVars, DaemonInv, CleanExit, AliveKubelets
<1>8. QED
    BY <1>1, <1>2, <1>3, <1>4, <1>5, <1>6, <1>7 DEF DaemonInv

\* The pid file is removed only when no process is left.
LEMMA PostRunInd ==
    ASSUME DaemonInv, PostRun
    PROVE  DaemonInv'
<1>1. DaemonTypeOK'
    <2>1. termed' \in SUBSET Runs
        <3>1. CASE proc = 0
            BY <3>1 DEF PostRun, DaemonInv, DaemonTypeOK
        <3>2. CASE proc # 0
            <4>1. proc \in Runs
                BY <3>2, ProcIsRun DEF PostRun
            <4>2. QED
                BY <3>2, <4>1, Zenon DEF PostRun, DaemonInv, DaemonTypeOK
        <3>3. QED
            BY <3>1, <3>2
    <2>2. QED
        BY <2>1 DEF PostRun, RemovePidFile, Exit, Orphaned, DaemonInv, DaemonTypeOK
<1>2. KubeletsByRun'
    BY RunsBound DEF PostRun, RemovePidFile, Exit, Orphaned, DaemonInv, KubeletsByRun
<1>3. LiveIsKnown'
    BY RunsBound DEF PostRun, RemovePidFile, Exit, Orphaned, DaemonInv, LiveIsKnown, ProcIsKnown,
        AliveKubelets
<1>4. ProcIsKnown'
    BY RunsBound DEF PostRun, RemovePidFile, Exit, DaemonInv, ProcIsKnown
<1>5. PidFileIsOurs'
    BY DEF PostRun, RemovePidFile, Exit, DaemonInv, PidFileIsOurs
<1>6. ExitIsClean'
    BY DEF PostRun, RemovePidFile, Exit, DaemonInv, ExitIsClean
<1>7. CleanExit'
    BY RunsBound DEF PostRun, RemovePidFile, Exit, Orphaned, DaemonInv, LiveIsKnown, ProcIsKnown,
        CleanExit, AliveKubelets
<1>8. QED
    BY <1>1, <1>2, <1>3, <1>4, <1>5, <1>6, <1>7 DEF DaemonInv

\* The pid file is removed only after the child was reaped.
LEMMA PostWaitInd ==
    ASSUME DaemonInv, PostWait
    PROVE  DaemonInv'
<1>1. DaemonTypeOK'
    BY DEF PostWait, RemovePidFile, Exit, Orphaned, DaemonInv, DaemonTypeOK
<1>2. KubeletsByRun'
    BY RunsBound DEF PostWait, RemovePidFile, Exit, Orphaned, DaemonInv, KubeletsByRun
<1>3. LiveIsKnown'
    BY RunsBound DEF PostWait, RemovePidFile, Exit, Orphaned, DaemonInv, LiveIsKnown,
        PidFileIsOurs, AliveKubelets
<1>4. ProcIsKnown'
    BY DEF PostWait, RemovePidFile, Exit, DaemonInv, ProcIsKnown
<1>5. PidFileIsOurs'
    BY DEF PostWait, RemovePidFile, Exit, DaemonInv, PidFileIsOurs
<1>6. ExitIsClean'
    BY DEF PostWait, RemovePidFile, Exit, DaemonInv, ExitIsClean
<1>7. CleanExit'
    BY RunsBound DEF PostWait, RemovePidFile, Exit, Orphaned, DaemonInv, LiveIsKnown,
        PidFileIsOurs, CleanExit, AliveKubelets
<1>8. QED
    BY <1>1, <1>2, <1>3, <1>4, <1>5, <1>6, <1>7 DEF DaemonInv

\* A crash turns the kubelet of this run into an orphan, and may lose its pid.
LEMMA CrashInd ==
    ASSUME DaemonInv, Crash
    PROVE  DaemonInv'
<1>1. DaemonTypeOK'
    BY DEF Crash, Exit, Orphaned, DaemonInv, DaemonTypeOK
<1>2. KubeletsByRun'
    BY DEF Crash, Exit, Orphaned, DaemonInv, KubeletsByRun
<1>3. LiveIsKnown'
    BY DEF Crash, Exit, Orphaned, DaemonInv, LiveIsKnown, AliveKubelets
<1>4. ProcIsKnown'
    BY DEF Crash, Exit, DaemonInv, ProcIsKnown
<1>5. PidFileIsOurs'
    BY DEF Crash, Exit, DaemonInv, PidFileIsOurs
<1>6. ExitIsClean'
    BY DEF Crash, Exit, DaemonInv, ExitIsClean
<1>7. CleanExit'
    BY DEF Crash, Exit, DaemonInv, CleanExit
<1>8. QED
    BY <1>1, <1>2, <1>3, <1>4, <1>5, <1>6, <1>7 DEF DaemonInv

\* A step that changes nothing keeps the invariant.
LEMMA StutterInd ==
    ASSUME DaemonInv, UNCHANGED vars
    PROVE  DaemonInv'
<1>1. DaemonTypeOK'
    BY DEF vars, DaemonInv, DaemonTypeOK
<1>2. KubeletsByRun'
    BY DEF vars, DaemonInv, KubeletsByRun
<1>3. LiveIsKnown'
    BY DEF vars, DaemonInv, LiveIsKnown, AliveKubelets
<1>4. ProcIsKnown' /\ PidFileIsOurs'
    BY DEF vars, DaemonInv, ProcIsKnown, PidFileIsOurs
<1>5. ExitIsClean'
    BY DEF vars, DaemonInv, ExitIsClean
<1>6. CleanExit'
    BY DEF vars, DaemonInv, CleanExit, AliveKubelets
<1>7. QED
    BY <1>1, <1>2, <1>3, <1>4, <1>5, <1>6 DEF DaemonInv

\* Every step keeps the invariant.
LEMMA DaemonNextInd ==
    ASSUME DaemonInv, [DaemonNext]_vars
    PROVE  DaemonInv'
<1>1. CASE Workflow
    BY <1>1, PhasesBeforeInd, CheckPidFileInd, StartCommandInd, OpenPidInd, WritePidInd,
        PhasesAfterInd, SelectDoneInd, SelectTermInd, TermWaitInd, CleanAllInd, PostRunInd,
        PostWaitInd DEF Workflow
<1>2. CASE Waiter \/ ContextKill \/ Respawn \/ Signal \/ Crash
    BY <1>2, WaiterInd, ContextKillInd, RespawnInd, SignalInd, CrashInd
<1>3. CASE \E k \in Runs : KubeletExits(k)
    BY <1>3, KubeletExitsInd
<1>4. CASE UNCHANGED vars
    BY <1>4, StutterInd
<1>5. QED
    BY <1>1, <1>2, <1>3, <1>4 DEF DaemonNext

\* DaemonInv holds in every state of every run.
THEOREM DaemonInvariance == DaemonSpec => []DaemonInv
    BY DaemonInitInd, DaemonNextInd, PTL DEF DaemonSpec

\* The state of init, of its goroutines and of the kubelets is well formed.
THEOREM DaemonTypeCorrect == DaemonSpec => []DaemonTypeOK
<1>1. DaemonInv => DaemonTypeOK
    BY DEF DaemonInv
<1>2. QED
    BY <1>1, DaemonInvariance, PTL

\* Two kubelets never run at the same time, unless a pid was lost: a kubelet that is
\* alive is the one on file or the one about to be written there.
THEOREM SingleKubelet == DaemonSpec => []OneKubelet
<1>1. DaemonInv => OneKubelet
    <2> SUFFICES ASSUME DaemonInv, lostPid = "no", NEW j \in AliveKubelets, NEW k \in AliveKubelets
                 PROVE  j = k
        BY DEF OneKubelet
    <2>1. CASE pc \in {"openPid", "writePid"}
        BY <2>1 DEF DaemonInv, LiveIsKnown, PidFileIsOurs, AliveKubelets
    <2>2. CASE pc \notin {"openPid", "writePid"}
        BY <2>2 DEF DaemonInv, LiveIsKnown
    <2>3. QED
        BY <2>1, <2>2
<1>2. QED
    BY <1>1, DaemonInvariance, PTL

\* runDaemonize cleans under no live kubelet when this run started its own: the pid
\* file names that one, and it has ended.
THEOREM CleaningIsSafe == DaemonSpec => []CleansAfterKubelet
<1>1. DaemonInv => CleansAfterKubelet
    BY DEF DaemonInv, LiveIsKnown, ProcIsKnown, CleansAfterKubelet, AliveKubelets
<1>2. QED
    BY <1>1, DaemonInvariance, PTL

\* An init that ends without an error leaves no kubelet and, unless it could not be
\* removed, no pid file.
THEOREM CleanExitLeavesNothing == DaemonSpec => []CleanExit
<1>1. DaemonInv => CleanExit
    BY DEF DaemonInv
<1>2. QED
    BY <1>1, DaemonInvariance, PTL

\* The pid file of a live kubelet stays: only CheckPidFile, OpenPid, WritePid, PostRun
\* and PostWait write it, and none of them when it names a live kubelet.
LEMMA PidFileStep ==
    ASSUME DaemonInv, [DaemonNext]_vars, pidFile \in Runs, kub[pidFile] = "alive"
    PROVE  pidFile' = pidFile
<1>1. CASE CheckPidFile
    BY <1>1 DEF CheckPidFile
<1>2. CASE OpenPid \/ WritePid
    BY <1>2 DEF OpenPid, WritePid, DaemonInv, PidFileIsOurs
<1>3. CASE PostRun
    BY <1>3 DEF PostRun, RemovePidFile, DaemonInv, ProcIsKnown, PidFileIsOurs
<1>4. CASE PostWait
    BY <1>4 DEF PostWait, RemovePidFile, DaemonInv, ProcIsKnown, PidFileIsOurs
<1>5. CASE UNCHANGED vars
    BY <1>5 DEF vars
<1>6. CASE \E k \in Runs : KubeletExits(k)
    BY <1>6 DEF KubeletExits
<1>7. CASE Waiter \/ ContextKill \/ Respawn \/ Signal \/ Crash
    BY <1>7 DEF Waiter, ContextKill, Respawn, Signal, Crash, hostVars
<1>8. CASE PhasesBefore \/ StartCommand \/ PhasesAfter \/ SelectDone \/ SelectTerm \/ TermWait \/ CleanAll
    BY <1>8 DEF PhasesBefore, StartCommand, PhasesAfter, SelectDone, SelectTerm, TermWait,
        CleanAll, hostVars
<1>9. QED
    BY <1>1, <1>2, <1>3, <1>4, <1>5, <1>6, <1>7, <1>8 DEF DaemonNext, Workflow

\* While the kubelet it names lives, the pid file is neither removed nor changed.
THEOREM PidFileIsKept == DaemonSpec => PidFileKept
<1>1. DaemonInv /\ [DaemonNext]_vars
        => [(pidFile \in Runs /\ kub[pidFile] = "alive") => pidFile' = pidFile]_vars
    BY PidFileStep
<1>2. QED
    BY <1>1, DaemonInvariance, PTL DEF DaemonSpec, PidFileKept

----------------------------------------------------------------------------
(* Who reaps the kubelet.                                                   *)

\* A step of iknite or of a kubelet keeps ReapedByWaiter.
LEMMA ReapedStep ==
    ASSUME DaemonInv, ReapedByWaiter, [DaemonNext]_vars
    PROVE  ReapedByWaiter'
<1>1. /\ DaemonTypeOK /\ KubeletsByRun /\ ProcIsKnown
    BY DEF DaemonInv
<1>2. CASE Respawn \/ Signal \/ Crash \/ UNCHANGED vars
    BY <1>1, <1>2 DEF ReapedByWaiter, StopsOnce, Respawn, Signal, Crash, Exit, hostVars, vars
<1>3. CASE ContextKill \/ \E k \in Runs : KubeletExits(k)
    <2>1. pc # "down" /\ kub'[run] = "gone" => kub[run] = "gone"
        BY <1>1, <1>3 DEF ContextKill, KubeletExits, Ended, KubeletsByRun, DaemonTypeOK
    <2>2. UNCHANGED <<pc, ctx, proc, run, waiter>>
        BY <1>3 DEF ContextKill, KubeletExits
    <2>3. QED
        BY <2>1, <2>2 DEF ReapedByWaiter, StopsOnce
<1>4. CASE PhasesBefore \/ CheckPidFile \/ StartCommand \/ OpenPid \/ WritePid
    BY <1>1, <1>4 DEF ReapedByWaiter, StopsOnce, PhasesBefore, CheckPidFile, StartCommand,
                      OpenPid, WritePid, Exit, KubeletsByRun, DaemonTypeOK, Before
<1>5. CASE PhasesAfter
    BY <1>1, <1>5 DEF ReapedByWaiter, StopsOnce, PhasesAfter, Exit
<1>6. CASE Waiter
    BY <1>1, <1>6 DEF ReapedByWaiter, StopsOnce, Waiter, WaitReturns, ProcIsKnown, DaemonTypeOK
<1>7. CASE SelectDone \/ SelectTerm \/ TermWait
    <2>1. proc # 0 /\ run # 0
        <3>1. pc \in {"select", "termWait"}
            BY <1>7 DEF SelectDone, SelectTerm, TermWait
        <3>2. QED
            BY <1>1, <3>1 DEF ProcIsKnown, KubeletsByRun, Runs, DaemonTypeOK
    <2>2. CASE SelectDone
        BY <2>1, <2>2 DEF ReapedByWaiter, StopsOnce, SelectDone, Stopping, hostVars
    <2>3. CASE SelectTerm
        BY <2>1, <2>3 DEF ReapedByWaiter, StopsOnce, SelectTerm, Stopping, hostVars
    <2>4. CASE TermWait
        BY <2>1, <2>4 DEF ReapedByWaiter, StopsOnce, TermWait, Stopping, hostVars
    <2>5. QED
        BY <1>7, <2>2, <2>3, <2>4
<1>8. CASE CleanAll \/ PostRun \/ PostWait
    BY <1>8 DEF ReapedByWaiter, StopsOnce, CleanAll, PostRun, PostWait, RemovePidFile, Exit
<1>9. QED
    BY <1>2, <1>3, <1>4, <1>5, <1>6, <1>7, <1>8 DEF DaemonNext, Workflow

\* PostRunE stops a kubelet of its own run again only after a stop signal: the comment
\* "Prevent double stop" in daemonize.go holds for a kubelet that ended by itself.
THEOREM StoppedOnce == DaemonSpec => []StopsOnce
<1>1. DaemonInit => ReapedByWaiter
    BY DEF DaemonInit, ReapedByWaiter, StopsOnce
<1>2. ReapedByWaiter => StopsOnce
    BY DEF ReapedByWaiter
<1>3. QED
    BY <1>1, <1>2, ReapedStep, DaemonInvariance, PTL DEF DaemonSpec

\* A stop is orderly over any number of runs: no cleaning under a kubelet of this run, no
\* second stop of one that ended by itself, nothing left by an init without an error.
THEOREM StopIsOrderly == DaemonSpec => []OrderlyStop
<1>1. CleansAfterKubelet /\ StopsOnce /\ CleanExit => OrderlyStop
    BY DEF OrderlyStop
<1>2. QED
    BY <1>1, CleaningIsSafe, StoppedOnce, CleanExitLeavesNothing, PTL
=============================================================================
