--------------------------- MODULE ContentPullProofs ---------------------------
(***************************************************************************)
(* Proofs about ContentPull, for any number of devices, clips, chunks and  *)
(* places.                                                                 *)
(***************************************************************************)
EXTENDS ContentPull, Integers, FiniteSetTheorems, TLAPS

-----------------------------------------------------------------------------
(* Types.                                                                  *)

\* PullTypeOK, by what changes together.
RelayTyped ==
    /\ head \in Seq(Signal) /\ Len(head) <= HeadDepth
    /\ puller \in [Id -> Device \cup {None}]

NetTyped ==
    /\ conn \in [Device -> BOOLEAN]
    /\ out \in [Device -> Seq(Message)] /\ down \in [Device -> Seq(Message)]
    /\ \A d \in Device : Len(out[d]) <= Room

CacheTyped ==
    /\ order \in [Device -> Seq(Id)]
    /\ \A d \in Device : Len(order[d]) <= CacheItems
    /\ DOMAIN bodies = Device
    /\ \A d \in Device : bodies[d] \in [Kept(order[d]) -> Seal]
    /\ stale \in [Device -> SUBSET Id]

ServingTyped ==
    serving \in [Device -> [id : Id, seal : Seal, sent : 0 .. Chunks - 1] \cup {None}]

FetchTyped ==
    /\ pending \in [Device -> SUBSET Id]
    /\ fetches \in [Device -> [Id -> Seq(Chunk) \cup {None}]]

BoundsTyped ==
    /\ copies \in [Device -> Nat] /\ breaks \in [Device -> Nat] /\ expiries \in Nat
    /\ limit \in Limits

HistoryTyped ==
    /\ senders \in [Id -> SUBSET Device]
    /\ heard \in [Device -> Nat]
    /\ again \in [Device -> SUBSET Id] /\ aged \in [Device -> SUBSET Id]
    /\ asked \in [Device -> SUBSET Id]
    /\ asker \in [Id -> Device \cup {None}]
    /\ crossed \in SUBSET Request /\ broken \in SUBSET Request /\ garbled \in SUBSET Request

LEMMA TypeParts ==
    PullTypeOK <=> /\ RelayTyped /\ NetTyped /\ CacheTyped /\ ServingTyped
                   /\ FetchTyped /\ BoundsTyped /\ HistoryTyped
  <1>1. ({out, down} \subseteq [Device -> Seq(Message)])
            <=> (out \in [Device -> Seq(Message)] /\ down \in [Device -> Seq(Message)])
    OBVIOUS
  <1>2. ({copies, breaks} \subseteq [Device -> Nat])
            <=> (copies \in [Device -> Nat] /\ breaks \in [Device -> Nat])
    OBVIOUS
  <1>3. ({crossed, broken, garbled} \subseteq SUBSET Request)
            <=> (crossed \in SUBSET Request /\ broken \in SUBSET Request /\ garbled \in SUBSET Request)
    OBVIOUS
  <1>4. ({again, aged} \subseteq [Device -> SUBSET Id])
            <=> (again \in [Device -> SUBSET Id] /\ aged \in [Device -> SUBSET Id])
    OBVIOUS
  <1> QED BY <1>1, <1>2, <1>3, <1>4, Zenon DEF PullTypeOK, RelayTyped, NetTyped, CacheTyped, ServingTyped,
             FetchTyped, BoundsTyped, HistoryTyped, Kept

LEMMA TypePartsNext ==
    PullTypeOK' <=> /\ RelayTyped' /\ NetTyped' /\ CacheTyped' /\ ServingTyped'
                    /\ FetchTyped' /\ BoundsTyped' /\ HistoryTyped'
  BY TypeParts, PTL

\* A message has the fields of its type.
LEMMA MessageFields ==
    ASSUME NEW m \in Message
    PROVE  /\ m.id \in Id
           /\ m.type = "signal" => m \in [type : {"signal"}, id : Id, origin : Device]
           /\ m.type = "chunk" => m \in [type : {"chunk"}, id : Id, data : Chunk]
           /\ m.type \in {"request", "pull", "begin", "reject"}
                => m \in [type : {"request", "pull", "begin", "reject"}, id : Id]
  BY DEF Message

\* What a queue of messages begins with is a message; the rest is such a queue.
LEMMA QueueType ==
    ASSUME NEW q \in Seq(Message), q # <<>>
    PROVE  /\ Head(q) \in Message
           /\ Tail(q) \in Seq(Message)
           /\ Len(Tail(q)) = Len(q) - 1
  OBVIOUS

\* Messages sent keep to the room of the channel.
LEMMA SendType ==
    ASSUME PullTypeOK, NEW d \in Device, NEW ms \in Seq(Message), Send(d, ms)
    PROVE  /\ out' \in [Device -> Seq(Message)]
           /\ \A e \in Device : Len(out'[e]) <= Room
  <1> DEFINE o == IF conn[d] THEN out[d] \o ms ELSE out[d]
  <1>1. out \in [Device -> Seq(Message)] /\ \A e \in Device : Len(out[e]) <= Room
    BY DEF PullTypeOK
  <1>2. out[d] \o ms \in Seq(Message) /\ Len(out[d] \o ms) = Len(out[d]) + Len(ms)
    BY <1>1
  <1>3. o \in Seq(Message) /\ Len(o) <= Room
    BY <1>1, <1>2 DEF Send
  <1>4. out' = [out EXCEPT ![d] = o]
    BY DEF Send
  <1> HIDE DEF o
  <1> QED BY <1>1, <1>3, <1>4

\* So do the queues of the relay.
LEMMA PassedType ==
    ASSUME PullTypeOK, NEW x, NEW m \in Message
    PROVE  Passed(x, m) \in [Device -> Seq(Message)]
  <1>1. down \in [Device -> Seq(Message)]
    BY DEF PullTypeOK
  <1>2. CASE x \in Device
    <2>1. Append(down[x], m) \in Seq(Message)
      BY <1>1, <1>2
    <2> QED BY <1>1, <1>2, <2>1 DEF Passed
  <1>3. CASE x \notin Device
    BY <1>1, <1>3 DEF Passed
  <1> QED BY <1>2, <1>3

\* The message a device hears, and what is left.
LEMMA TookType ==
    ASSUME PullTypeOK, NEW d \in Device, NEW t, Hears(d, t), Took(d)
    PROVE  /\ Next1(d) \in Message /\ Next1(d).type = t
           /\ down' \in [Device -> Seq(Message)]
  <1>1. down \in [Device -> Seq(Message)] /\ down[d] # <<>>
    BY DEF PullTypeOK, Hears
  <1>2. Head(down[d]) \in Message /\ Tail(down[d]) \in Seq(Message)
    BY <1>1, QueueType
  <1>3. down' = [down EXCEPT ![d] = Tail(down[d])]
    BY DEF Took
  <1> QED BY <1>1, <1>2, <1>3 DEF Next1, Hears

\* The send cache has no more bodies than it may.
LEMMA CacheOrderType ==
    ASSUME NEW o \in Seq(Id), Len(o) <= CacheItems, NEW id \in Id
    PROVE  /\ CacheOrder(o, id) \in Seq(Id)
           /\ Len(CacheOrder(o, id)) <= CacheItems
  <1> DEFINE longer == IF id \in Kept(o) THEN o ELSE Append(o, id)
  <1>0. CacheItems \in Nat \ {0}
    BY PullAssumption
  <1>1. longer \in Seq(Id) /\ Len(longer) <= CacheItems + 1
    BY <1>0
  <1>2. CacheOrder(o, id) = IF Len(longer) > CacheItems THEN Tail(longer) ELSE longer
    BY DEF CacheOrder
  <1> HIDE DEF longer
  <1>3. CASE Len(longer) > CacheItems
    <2>1. longer # <<>>
      BY <1>0, <1>3
    <2> QED BY <1>0, <1>1, <1>2, <1>3, <2>1
  <1> QED BY <1>0, <1>1, <1>2, <1>3

\* What is kept after one more.
LEMMA KeptAppend ==
    ASSUME NEW o \in Seq(Id), NEW id \in Id
    PROVE  Kept(Append(o, id)) = Kept(o) \cup {id}
  <1> DEFINE q == Append(o, id)
  <1>1. /\ DOMAIN q = DOMAIN o \cup {Len(o) + 1}
        /\ \A i \in DOMAIN o : q[i] = o[i]
        /\ q[Len(o) + 1] = id
    OBVIOUS
  <1> HIDE DEF q
  <1> QED BY <1>1 DEF Kept

\* The cache keeps what it kept and the new body, no more.
LEMMA CacheOrderKept ==
    ASSUME NEW o \in Seq(Id), NEW id \in Id
    PROVE  Kept(CacheOrder(o, id)) \subseteq Kept(o) \cup {id}
  <1> DEFINE longer == IF id \in Kept(o) THEN o ELSE Append(o, id)
             new == CacheOrder(o, id)
  <1>1. longer \in Seq(Id) /\ Kept(longer) = Kept(o) \cup {id}
    BY KeptAppend
  <1>2. new = IF Len(longer) > CacheItems THEN Tail(longer) ELSE longer
    BY DEF CacheOrder
  <1> HIDE DEF longer, new
  <1>3. CASE Len(longer) > CacheItems
    <2>1. longer # <<>> /\ new = Tail(longer)
      BY <1>1, <1>2, <1>3, PullAssumption
    <2>2. \A i \in DOMAIN new : i + 1 \in DOMAIN longer /\ new[i] = longer[i + 1]
      BY <1>1, <2>1
    <2>3. Kept(new) \subseteq Kept(longer)
      BY <2>2 DEF Kept
    <2> QED BY <1>1, <2>3 DEF new
  <1> QED BY <1>1, <1>2, <1>3 DEF new

\* A body in the cache has its place in the order.
LEMMA PutType ==
    ASSUME PullTypeOK, NEW d \in Device, NEW id \in Id, NEW seal \in Seal, Put(d, id, seal)
    PROVE  /\ order' \in [Device -> Seq(Id)]
           /\ \A e \in Device : Len(order'[e]) <= CacheItems
           /\ DOMAIN bodies' = Device
           /\ \A e \in Device : bodies'[e] \in [{order'[e][i] : i \in DOMAIN order'[e]} -> Seal]
           /\ stale' \in [Device -> SUBSET Id]
  <1> DEFINE o == CacheOrder(order[d], id)
  <1>1. /\ order \in [Device -> Seq(Id)]
        /\ \A e \in Device : Len(order[e]) <= CacheItems
        /\ DOMAIN bodies = Device
        /\ \A e \in Device : bodies[e] \in [Kept(order[e]) -> Seal]
        /\ stale \in [Device -> SUBSET Id]
    BY DEF PullTypeOK, Kept
  <1>2. o \in Seq(Id) /\ Len(o) <= CacheItems
    BY <1>1, CacheOrderType
  <1>3. order' = [order EXCEPT ![d] = o]
    BY DEF Put
  <1> HIDE DEF o
  <1>4. order' \in [Device -> Seq(Id)] /\ order'[d] = o
    BY <1>1, <1>2, <1>3
  <1>5. \A e \in Device : Len(order'[e]) <= CacheItems
    BY <1>1, <1>2, <1>3
  <1>6. stale' \in [Device -> SUBSET Id]
    BY <1>1 DEF Put
  <1> DEFINE b == [i \in Kept(o) |-> IF i = id THEN seal ELSE bodies[d][i]]
  <1>7. bodies' = [bodies EXCEPT ![d] = b]
    BY <1>4 DEF Put
  <1>8. Kept(o) \subseteq Kept(order[d]) \cup {id}
    BY <1>1, CacheOrderKept DEF o
  <1>9. b \in [Kept(o) -> Seal]
    BY <1>1, <1>8
  <1> HIDE DEF b
  <1>10. \A e \in Device : bodies'[e] \in [Kept(order'[e]) -> Seal]
    <2> SUFFICES ASSUME NEW e \in Device
                 PROVE  bodies'[e] \in [Kept(order'[e]) -> Seal]
      OBVIOUS
    <2>1. CASE e = d
      BY <1>1, <1>4, <1>7, <1>9, <2>1
    <2>2. CASE e # d
      <3>1. bodies'[e] = bodies[e] /\ order'[e] = order[e]
        BY <1>1, <1>3, <1>7, <2>2
      <3> QED BY <1>1, <3>1
    <2> QED BY <2>1, <2>2
  <1> QED BY <1>1, <1>4, <1>5, <1>6, <1>7, <1>10 DEF Kept

\* The relay keeps to its queues and its cache.
LEMMA RelayType ==
    ASSUME PullTypeOK, NEW d \in Device, RelayTakes(d)
    PROVE  PullTypeOK'
  <1> DEFINE m == Head(out[d])
  <1>1. /\ head \in Seq(Signal) /\ Len(head) <= HeadDepth
        /\ puller \in [Id -> Device \cup {None}]
        /\ out \in [Device -> Seq(Message)]
        /\ down \in [Device -> Seq(Message)]
        /\ \A e \in Device : Len(out[e]) <= Room
        /\ asker \in [Id -> Device \cup {None}]
        /\ crossed \in SUBSET Request /\ broken \in SUBSET Request
        /\ heard \in [Device -> Nat]
    BY DEF PullTypeOK
  <1>2. m \in Message /\ Tail(out[d]) \in Seq(Message) /\ Len(Tail(out[d])) = Len(out[d]) - 1
    BY <1>1, QueueType DEF RelayTakes
  <1>3. out' = [out EXCEPT ![d] = Tail(out[d])]
    BY DEF RelayTakes
  <1>4. out' \in [Device -> Seq(Message)] /\ \A e \in Device : Len(out'[e]) <= Room
    <2>1. out[d] \in Seq(Message) /\ Len(out[d]) \in Nat /\ Room \in Nat
      BY <1>1, PullAssumption
    <2>2. Len(Tail(out[d])) <= Room
      BY <1>1, <1>2, <2>1
    <2> HIDE DEF m
    <2> QED BY <1>1, <1>2, <1>3, <2>2
  <1>5. \/ m.type = "signal" /\ RelaySignal(d, m)
        \/ m.type = "request" /\ RelayRequest(d, m)
        \/ m.type \in {"begin", "chunk", "reject"} /\ RelayPasses(d, m)
    BY DEF RelayTakes
  <1> HIDE DEF m
  <1>6. UNCHANGED <<conn, cacheVars, serving, fetchVars, pullBounds, senders, again, aged, asked,
                    garbled>>
    BY DEF RelayTakes
  <1>7. m.id \in Id
    BY <1>2, MessageFields
  <1>8. /\ head' \in Seq(Signal) /\ Len(head') <= HeadDepth
        /\ puller' \in [Id -> Device \cup {None}]
        /\ down' \in [Device -> Seq(Message)]
        /\ asker' \in [Id -> Device \cup {None}]
        /\ crossed' \in SUBSET Request /\ broken' \in SUBSET Request
        /\ heard' \in [Device -> Nat]
    <2>1. CASE m.type = "signal" /\ RelaySignal(d, m)
      <3> DEFINE s == [id |-> m.id, origin |-> m.origin]
                 h == Append(head, s)
      <3>1. m.origin \in Device
        BY <1>2, <2>1, MessageFields
      <3>2. s \in Signal
        BY <1>7, <3>1 DEF Signal
      <3>3. head' = IF Len(h) > HeadDepth THEN Tail(h) ELSE h
        BY <2>1 DEF RelaySignal
      <3>4. HeadDepth \in Nat \ {0}
        BY PullAssumption
      <3> HIDE DEF s
      <3>5. head' \in Seq(Signal) /\ Len(head') <= HeadDepth
        <4>1. h \in Seq(Signal) /\ Len(h) = Len(head) + 1 /\ Len(head) \in Nat
          BY <1>1, <3>2
        <4> HIDE DEF h
        <4>2. CASE Len(h) > HeadDepth
          <5>1. head' = Tail(h) /\ h # <<>>
            BY <3>3, <3>4, <4>1, <4>2
          <5>2. head' \in Seq(Signal) /\ Len(head') = Len(h) - 1
            BY <4>1, <5>1
          <5> QED BY <1>1, <3>4, <4>1, <5>2
        <4>3. CASE ~(Len(h) > HeadDepth)
          BY <3>3, <3>4, <4>1, <4>3
        <4> QED BY <4>2, <4>3
      <3>6. \A x \in Device : Append(down[x], m) \in Seq(Message)
        BY <1>1, <1>2
      <3>7. down' \in [Device -> Seq(Message)]
        BY <1>1, <2>1, <3>6 DEF RelaySignal
      <3>8. heard' \in [Device -> Nat]
        BY <1>1, <2>1 DEF RelaySignal
      <3> QED BY <1>1, <2>1, <3>5, <3>7, <3>8 DEF RelaySignal
    <2>2. CASE m.type = "request" /\ RelayRequest(d, m)
      <3>1. [type |-> "pull", id |-> m.id] \in Message /\ [type |-> "reject", id |-> m.id] \in Message
        BY <1>7 DEF Message
      <3>2. down' \in [Device -> Seq(Message)]
        BY <2>2, <3>1, PassedType DEF RelayRequest
      <3>3. <<d, m.id>> \in Request
        BY <1>7 DEF Request
      <3>4. asker[m.id] \notin {None, d} => <<asker[m.id], m.id>> \in Request
        BY <1>1, <1>7 DEF Request
      <3>5. puller' \in [Id -> Device \cup {None}] /\ asker' \in [Id -> Device \cup {None}]
        BY <1>1, <2>2 DEF RelayRequest
      <3>6. crossed' \in SUBSET Request
        <4> HIDE DEF m
        <4>1. \/ crossed' = crossed
              \/ /\ asker[m.id] \notin {None, d}
                 /\ crossed' = crossed \cup {<<asker[m.id], m.id>>, <<d, m.id>>}
          BY <2>2 DEF RelayRequest
        <4> QED BY <1>1, <3>3, <3>4, <4>1
      <3>7. broken' \in SUBSET Request
        <4>1. broken' = broken \/ broken' = broken \cup {<<d, m.id>>}
          BY <2>2 DEF RelayRequest
        <4> QED BY <1>1, <3>3, <4>1
      <3> QED BY <1>1, <2>2, <3>2, <3>5, <3>6, <3>7 DEF RelayRequest
    <2>3. CASE m.type \in {"begin", "chunk", "reject"} /\ RelayPasses(d, m)
      <3>1. down' \in [Device -> Seq(Message)]
        BY <1>1, <1>2, <2>3, PassedType DEF RelayPasses
      <3>2. puller' \in [Id -> Device \cup {None}]
        BY <1>1, <2>3 DEF RelayPasses
      <3> QED BY <1>1, <2>3, <3>1, <3>2 DEF RelayPasses
    <2> QED BY <1>5, <2>1, <2>2, <2>3
  <1>9. PullTypeOK
    OBVIOUS
  <1>10. RelayTyped' /\ NetTyped' /\ HistoryTyped'
    BY <1>4, <1>6, <1>8, <1>9, TypeParts DEF RelayTyped, NetTyped, HistoryTyped
  <1>11. CacheTyped' /\ ServingTyped' /\ FetchTyped' /\ BoundsTyped'
    BY <1>6, <1>9, TypeParts DEF CacheTyped, ServingTyped, FetchTyped, BoundsTyped, cacheVars,
       fetchVars, pullBounds
  <1> QED BY <1>10, <1>11, TypePartsNext

\* So do the devices.
LEMMA SessionType ==
    ASSUME PullTypeOK, NEW d \in Device, SessionStep(d)
    PROVE  PullTypeOK'
  <1>0. PullTypeOK /\ RelayTyped /\ NetTyped /\ CacheTyped /\ ServingTyped /\ FetchTyped
          /\ BoundsTyped /\ HistoryTyped
    BY TypeParts
  <1>1. CASE IgnoreSignal(d)
    <2>1. down' \in [Device -> Seq(Message)]
      BY <1>1, TookType DEF IgnoreSignal
    <2> QED BY <1>0, <1>1, <2>1, TypePartsNext DEF IgnoreSignal, relayVars, cacheVars, fetchVars,
               pullBounds, pullHistory, cacheHistory, RelayTyped, NetTyped, CacheTyped, ServingTyped, FetchTyped,
               BoundsTyped, HistoryTyped
  <1>2. CASE AskForBody(d)
    <2> DEFINE id == Next1(d).id
               ms == <<[type |-> "request", id |-> id]>>
    <2>1. Next1(d) \in Message /\ down' \in [Device -> Seq(Message)]
      BY <1>2, TookType DEF AskForBody
    <2>2. id \in Id
      BY <2>1, MessageFields
    <2>3. ms \in Seq(Message) /\ Send(d, ms)
      BY <1>2, <2>2 DEF AskForBody, Message
    <2> HIDE DEF ms
    <2>4. out' \in [Device -> Seq(Message)] /\ \A e \in Device : Len(out'[e]) <= Room
      BY <2>3, SendType
    <2>5. FetchTyped' /\ HistoryTyped'
      BY <1>0, <1>2, <2>2 DEF AskForBody, FetchTyped, HistoryTyped, cacheHistory
    <2> QED BY <1>0, <1>2, <2>1, <2>4, <2>5, TypePartsNext DEF AskForBody, relayVars, cacheVars,
               pullBounds, RelayTyped, NetTyped, CacheTyped, ServingTyped, BoundsTyped
  <1>3. CASE HearPull(d)
    <2> DEFINE id == Next1(d).id
               begin == <<[type |-> "begin", id |-> id]>>
               reject == <<[type |-> "reject", id |-> id]>>
               s == [id |-> id, seal |-> bodies[d][id], sent |-> 0]
    <2>1. Next1(d) \in Message /\ down' \in [Device -> Seq(Message)]
      BY <1>3, TookType DEF HearPull
    <2>2. id \in Id
      BY <2>1, MessageFields
    <2>3. begin \in Seq(Message) /\ reject \in Seq(Message)
      BY <2>2 DEF Message
    <2>4. \/ /\ Servable(d, id) /\ Send(d, begin)
             /\ serving' = [serving EXCEPT ![d] = s]
          \/ Send(d, reject) /\ serving' = serving
      BY <1>3 DEF HearPull
    <2> HIDE DEF begin, reject
    <2>5. out' \in [Device -> Seq(Message)] /\ \A e \in Device : Len(out'[e]) <= Room
      BY <2>3, <2>4, SendType
    <2>6. ServingTyped'
      <3>1. CASE Servable(d, id) /\ serving' = [serving EXCEPT ![d] = s]
        <4>1. bodies[d][id] \in Seal
          BY <1>0, <3>1 DEF CacheTyped, Servable
        <4>2. 0 \in 0 .. Chunks - 1
          BY PullAssumption
        <4>3. s \in [id : Id, seal : Seal, sent : 0 .. Chunks - 1]
          BY <2>2, <4>1, <4>2
        <4> HIDE DEF s
        <4> QED BY <1>0, <3>1, <4>3 DEF ServingTyped
      <3> QED BY <1>0, <2>4, <3>1 DEF ServingTyped
    <2> QED BY <1>0, <1>3, <2>1, <2>5, <2>6, TypePartsNext DEF HearPull, relayVars, cacheVars,
               fetchVars, pullBounds, pullHistory, cacheHistory, RelayTyped, NetTyped, CacheTyped, FetchTyped,
               BoundsTyped, HistoryTyped
  <1>4. CASE ServeChunk(d)
    <2> DEFINE s == serving[d]
               data == [seal |-> s.seal, index |-> s.sent + 1]
               ms == <<[type |-> "chunk", id |-> s.id, data |-> data]>>
               rest == [s EXCEPT !.sent = s.sent + 1]
    <2>1. s \in [id : Id, seal : Seal, sent : 0 .. Chunks - 1]
      BY <1>0, <1>4 DEF ServeChunk, Free, ServingTyped
    <2>2. /\ Send(d, ms)
          /\ serving' = [serving EXCEPT ![d] = IF s.sent + 1 = Chunks THEN None ELSE rest]
      BY <1>4 DEF ServeChunk
    <2> HIDE DEF s
    <2>3. s.sent + 1 \in 1 .. Chunks
      BY <2>1, PullAssumption
    <2>4. data \in Chunk
      BY <2>1, <2>3 DEF Chunk
    <2> HIDE DEF data
    <2>5. ms \in Seq(Message)
      BY <2>1, <2>4 DEF Message
    <2> HIDE DEF ms
    <2>6. out' \in [Device -> Seq(Message)] /\ \A e \in Device : Len(out'[e]) <= Room
      BY <2>2, <2>5, SendType
    <2>7. s.sent + 1 # Chunks => rest \in [id : Id, seal : Seal, sent : 0 .. Chunks - 1]
      <3>1. s.sent + 1 # Chunks => s.sent + 1 \in 0 .. Chunks - 1
        BY <2>1, PullAssumption
      <3> QED BY <2>1, <3>1
    <2> HIDE DEF rest
    <2>8. ServingTyped'
      BY <1>0, <2>2, <2>7 DEF ServingTyped
    <2> QED BY <1>0, <1>4, <2>6, <2>8, TypePartsNext DEF ServeChunk, relayVars, cacheVars,
               fetchVars, pullBounds, pullHistory, cacheHistory, RelayTyped, NetTyped, CacheTyped, FetchTyped,
               BoundsTyped, HistoryTyped
  <1>5. CASE HearBegin(d)
    <2>1. Next1(d) \in Message /\ down' \in [Device -> Seq(Message)]
      BY <1>5, TookType DEF HearBegin
    <2>2. Next1(d).id \in Id
      BY <2>1, MessageFields
    <2>3. fetches' = [fetches EXCEPT ![d] = [@ EXCEPT ![Next1(d).id] = <<>>]]
      BY <1>5 DEF HearBegin
    <2>4. FetchTyped'
      BY <1>0, <1>5, <2>2, <2>3 DEF HearBegin, FetchTyped
    <2> QED BY <1>0, <1>5, <2>1, <2>4, TypePartsNext DEF HearBegin, relayVars, cacheVars,
               pullBounds, pullHistory, cacheHistory, RelayTyped, NetTyped, CacheTyped, ServingTyped,
               BoundsTyped, HistoryTyped
  <1>6. CASE HearChunk(d)
    <2> DEFINE id == Next1(d).id
               got == Append(fetches[d][id], Next1(d).data)
    <2>1. Next1(d) \in Message /\ Next1(d).type = "chunk" /\ down' \in [Device -> Seq(Message)]
      BY <1>6, TookType DEF HearChunk
    <2>2. id \in Id /\ Next1(d).data \in Chunk
      BY <2>1, MessageFields
    <2>3. fetches[d][id] # None => got \in Seq(Chunk)
      BY <1>0, <2>2 DEF FetchTyped
    <2>4. \/ UNCHANGED <<fetches, pending, asked, garbled>>
          \/ /\ fetches[d][id] # None
             /\ fetches' = [fetches EXCEPT ![d] = [@ EXCEPT ![id] = got]]
             /\ UNCHANGED <<pending, asked, garbled>>
          \/ /\ fetches' = [fetches EXCEPT ![d] = [@ EXCEPT ![id] = None]]
             /\ pending' = [pending EXCEPT ![d] = @ \ {id}]
             /\ asked' = [asked EXCEPT ![d] = @ \ {id}]
             /\ garbled' = garbled \/ garbled' = garbled \cup {<<d, id>>}
      BY <1>6 DEF HearChunk
    <2> HIDE DEF got
    <2>5. <<d, id>> \in Request
      BY <2>2 DEF Request
    <2> HIDE DEF id
    <2>6. FetchTyped'
      <3>1. \A x \in Seq(Chunk) \cup {None} :
               fetches' = [fetches EXCEPT ![d] = [fetches[d] EXCEPT ![id] = x]]
                  => fetches' \in [Device -> [Id -> Seq(Chunk) \cup {None}]]
        BY <1>0, <2>2 DEF FetchTyped
      <3>2. fetches' \in [Device -> [Id -> Seq(Chunk) \cup {None}]]
        BY <1>0, <2>3, <2>4, <3>1 DEF FetchTyped
      <3>3. pending' \in [Device -> SUBSET Id]
        BY <1>0, <2>4 DEF FetchTyped
      <3> QED BY <3>2, <3>3 DEF FetchTyped
    <2>7. HistoryTyped'
      <3>1. UNCHANGED <<senders, heard, again, aged, asker, crossed, broken>>
        BY <1>6 DEF HearChunk, cacheHistory
      <3>2. asked' \in [Device -> SUBSET Id]
        BY <1>0, <2>4 DEF HistoryTyped
      <3>3. garbled' \in SUBSET Request
        BY <1>0, <2>4, <2>5 DEF HistoryTyped
      <3> QED BY <1>0, <3>1, <3>2, <3>3 DEF HistoryTyped
    <2> QED BY <1>0, <1>6, <2>1, <2>6, <2>7, TypePartsNext DEF HearChunk, relayVars, cacheVars,
               pullBounds, RelayTyped, NetTyped, CacheTyped, ServingTyped, BoundsTyped
  <1>7. CASE HearReject(d)
    <2>1. Next1(d) \in Message /\ down' \in [Device -> Seq(Message)]
      BY <1>7, TookType DEF HearReject
    <2>2. Next1(d).id \in Id
      BY <2>1, MessageFields
    <2>3. fetches' = [fetches EXCEPT ![d] = [@ EXCEPT ![Next1(d).id] = None]]
      BY <1>7 DEF HearReject
    <2>4. FetchTyped' /\ HistoryTyped'
      BY <1>0, <1>7, <2>2, <2>3 DEF HearReject, FetchTyped, HistoryTyped, cacheHistory
    <2> QED BY <1>0, <1>7, <2>1, <2>4, TypePartsNext DEF HearReject, relayVars, cacheVars,
               pullBounds, RelayTyped, NetTyped, CacheTyped, ServingTyped, BoundsTyped
  <1> QED BY <1>1, <1>2, <1>3, <1>4, <1>5, <1>6, <1>7 DEF SessionStep

\* PullTypeOK holds initially and is kept.
LEMMA PullTypeInit == PullInit => PullTypeOK
  <1> SUFFICES ASSUME PullInit PROVE PullTypeOK
    OBVIOUS
  <1>1. RelayTyped
    BY PullAssumption DEF PullInit, RelayTyped
  <1>2. NetTyped
    BY PullAssumption DEF PullInit, NetTyped
  <1>3. CacheTyped
    BY PullAssumption DEF PullInit, CacheTyped, Kept
  <1>4. ServingTyped /\ FetchTyped
    BY DEF PullInit, ServingTyped, FetchTyped, NoFetch
  <1>5. BoundsTyped /\ HistoryTyped
    BY DEF PullInit, BoundsTyped, HistoryTyped
  <1> QED BY <1>1, <1>2, <1>3, <1>4, <1>5, TypeParts

LEMMA PullTypeStep == PullTypeOK /\ [PullNext]_pullVars => PullTypeOK'
  <1> SUFFICES ASSUME PullTypeOK, [PullNext]_pullVars PROVE PullTypeOK'
    OBVIOUS
  <1>0. PullTypeOK /\ RelayTyped /\ NetTyped /\ CacheTyped /\ ServingTyped /\ FetchTyped
          /\ BoundsTyped /\ HistoryTyped
    BY TypeParts
  <1>1. ASSUME NEW d \in Device, NEW id \in Id, PublishBody(d, id) PROVE PullTypeOK'
    <2> DEFINE seal == [by |-> d, n |-> copies[d]]
               ms == <<[type |-> "signal", id |-> id, origin |-> d]>>
    <2>1. seal \in Seal
      BY <1>0 DEF BoundsTyped, Seal
    <2>2. ms \in Seq(Message)
      BY DEF Message
    <2>3. Put(d, id, seal) /\ Send(d, ms)
      BY <1>1 DEF PublishBody
    <2> HIDE DEF seal, ms
    <2>4. CacheTyped'
      BY <2>1, <2>3, PutType DEF CacheTyped, Kept
    <2>5. out' \in [Device -> Seq(Message)] /\ \A e \in Device : Len(out'[e]) <= Room
      BY <2>2, <2>3, SendType
    <2>6. BoundsTyped'
      BY <1>0, <1>1 DEF PublishBody, BoundsTyped
    <2>7. HistoryTyped'
      BY <1>0, <1>1 DEF PublishBody, HistoryTyped
    <2> QED BY <1>0, <1>1, <2>4, <2>5, <2>6, <2>7, TypePartsNext DEF PublishBody, relayVars, fetchVars,
               RelayTyped, NetTyped, ServingTyped, FetchTyped
  <1>2. ASSUME NEW d \in Device, NEW id \in Id, ExpireBody(d, id) PROVE PullTypeOK'
    <2>1. CacheTyped' /\ BoundsTyped'
      BY <1>0, <1>2 DEF ExpireBody, CacheTyped, BoundsTyped
    <2>2. HistoryTyped'
      BY <1>0, <1>2 DEF ExpireBody, HistoryTyped
    <2> QED BY <1>0, <1>2, <2>1, <2>2, TypePartsNext DEF ExpireBody, relayVars, netVars, fetchVars,
               RelayTyped, NetTyped, ServingTyped, FetchTyped
  <1>3. ASSUME NEW d \in Device, LoseConnection(d) PROVE PullTypeOK'
    <2>1. NetTyped' /\ ServingTyped'
      BY <1>0, <1>3, PullAssumption DEF LoseConnection, NetTyped, ServingTyped
    <2>2. FetchTyped' /\ BoundsTyped'
      BY <1>0, <1>3 DEF LoseConnection, FetchTyped, BoundsTyped, NoFetch
    <2>3. HistoryTyped'
      BY <1>0, <1>3 DEF LoseConnection, HistoryTyped, cacheHistory
    <2> QED BY <1>0, <1>3, <2>1, <2>2, <2>3, TypePartsNext DEF LoseConnection, relayVars,
               cacheVars, RelayTyped, CacheTyped
  <1>4. ASSUME NEW d \in Device, Reconnect(d) PROVE PullTypeOK'
    <2> DEFINE welcome == [i \in DOMAIN head |->
                             [type |-> "signal", id |-> head[i].id, origin |-> head[i].origin]]
    <2>1. \A i \in DOMAIN head : head[i].id \in Id /\ head[i].origin \in Device
      <3>1. \A i \in DOMAIN head : head[i] \in Signal
        BY <1>0 DEF RelayTyped
      <3> QED BY <3>1 DEF Signal
    <2>2. \A i \in DOMAIN head :
             [type |-> "signal", id |-> head[i].id, origin |-> head[i].origin] \in Message
      BY <2>1 DEF Message
    <2>3. welcome \in Seq(Message)
      BY <1>0, <2>2 DEF RelayTyped
    <2>4. NetTyped'
      BY <1>0, <1>4, <2>3 DEF Reconnect, NetTyped
    <2> QED BY <1>0, <1>4, <2>4, TypePartsNext DEF Reconnect, relayVars, cacheVars, fetchVars,
               pullBounds, pullHistory, cacheHistory, RelayTyped, CacheTyped, ServingTyped, FetchTyped,
               BoundsTyped, HistoryTyped
  <1>5. CASE UNCHANGED pullVars
    BY <1>0, <1>5, TypePartsNext DEF pullVars, relayVars, netVars, cacheVars, fetchVars,
       pullBounds, pullHistory, cacheHistory, RelayTyped, NetTyped, CacheTyped, ServingTyped, FetchTyped,
       BoundsTyped, HistoryTyped
  <1> QED BY <1>1, <1>2, <1>3, <1>4, <1>5, SessionType, RelayType DEF PullNext

\* PullTypeOK, for any number of devices and clips: the head cache, the send
\* caches and the channels keep to their places, a body being sent has a chunk
\* left, and a body in the cache has its place in the order.
THEOREM PullTypeAlways == PullSpec => []PullTypeOK
  BY PullTypeInit, PullTypeStep, PTL DEF PullSpec

-----------------------------------------------------------------------------
(* HeadsServable: what the relay names and what the send caches hold.      *)

\* A body of the cache with at most as many behind it as came later; or so many came
\* later that it may be gone.
Backs(q, id, later) ==
    later >= CacheItems \/ \E n \in DOMAIN q : q[n] = id /\ Len(q) - n <= later

\* The signals of a queue as the clips of their device: the relay has taken the first
\* from of them, and the device has copied to.
Numbered(o, num, from, to) ==
    \A k \in DOMAIN o : o[k].type = "signal" =>
        /\ from < num[k] /\ num[k] <= to
        /\ \A j \in DOMAIN o : j < k /\ o[j].type = "signal" => num[j] < num[k]

\* Each names a body of the cache q, but for the clips of ag.
Placed(o, num, q, ag, to) ==
    \A k \in DOMAIN o :
        o[k].type = "signal" /\ o[k].id \notin ag => Backs(q, o[k].id, to - num[k])

Announces(o, q, ag, from, to) ==
    \E num \in [DOMAIN o -> Nat] : Numbered(o, num, from, to) /\ Placed(o, num, q, ag, to)

Published(d) == {id \in Id : d \in senders[id]}

OwnSignals == \A d \in Device :
                  \A k \in DOMAIN out[d] : out[d][k].type = "signal" => out[d][k].origin = d
CachePublished == \A d \in Device : Kept(order[d]) \subseteq Published(d)
StaleAged == \A d \in Device : stale[d] \subseteq aged[d]
HeardCopied == \A d \in Device : heard[d] <= copies[d]
HeadBacked ==
    \A i \in DOMAIN head :
        LET d == head[i].origin
            id == head[i].id
        IN  id \notin again[d] => Backs(order[d], id, (Len(head) - i) + (copies[d] - heard[d]))
OutBacked == \A d \in Device : Announces(out[d], order[d], again[d], heard[d], copies[d])

HeadInv ==
    OwnSignals /\ CachePublished /\ StaleAged /\ HeardCopied /\ HeadBacked /\ OutBacked

\* The more came later, the less is asked of the cache.
LEMMA BacksMore ==
    ASSUME NEW q \in Seq(Id), NEW id \in Id, NEW b \in Nat, NEW c \in Nat, b <= c, Backs(q, id, b)
    PROVE  Backs(q, id, c)
  <1>1. CacheItems \in Nat /\ \A n \in DOMAIN q : n \in Nat /\ Len(q) \in Nat
    BY PullAssumption
  <1>2. CASE b >= CacheItems
    <2>1. c >= CacheItems
      BY <1>1, <1>2
    <2> QED BY <2>1 DEF Backs
  <1>3. CASE \E n \in DOMAIN q : q[n] = id /\ Len(q) - n <= b
    <2>1. PICK n \in DOMAIN q : q[n] = id /\ Len(q) - n <= b
      BY <1>3
    <2>2. Len(q) - n <= c
      BY <1>1, <2>1
    <2> QED BY <2>1, <2>2 DEF Backs
  <1> QED BY <1>2, <1>3 DEF Backs

\* A new body comes last, and each of the others has one more behind it.
LEMMA BacksPushed ==
    ASSUME NEW q \in Seq(Id), Len(q) <= CacheItems, NEW new \in Id, new \notin Kept(q)
    PROVE  /\ Backs(CacheOrder(q, new), new, 0)
           /\ \A id \in Id, b \in Nat : Backs(q, id, b) => Backs(CacheOrder(q, new), id, b + 1)
  <1>0. CacheItems \in Nat \ {0} /\ Len(q) \in Nat
    BY PullAssumption
  <1>1. PICK long : long = Append(q, new)
    OBVIOUS
  <1>2. /\ long \in Seq(Id) /\ Len(long) = Len(q) + 1
        /\ \A n \in 1 .. Len(q) : long[n] = q[n]
        /\ long[Len(q) + 1] = new
    BY <1>1
  <1>3. PICK r : r = CacheOrder(q, new)
    OBVIOUS
  <1>4. r = IF Len(long) > CacheItems THEN Tail(long) ELSE long
    BY <1>1, <1>3 DEF CacheOrder
  <1>5. CASE Len(long) > CacheItems
    <2>1. Len(q) = CacheItems
      BY <1>0, <1>2, <1>5
    <2>2. r = Tail(long) /\ long # <<>>
      BY <1>0, <1>2, <1>4, <1>5
    <2>3. Len(r) = Len(q) /\ \A n \in 1 .. Len(q) : r[n] = long[n + 1]
      BY <1>0, <1>2, <2>2
    <2>4. DOMAIN r = 1 .. Len(q) /\ DOMAIN q = 1 .. Len(q)
      BY <1>2, <2>2, <2>3
    <2>5. Backs(r, new, 0)
      <3>1. Len(q) \in 1 .. Len(q)
        BY <1>0, <2>1
      <3>2. r[Len(q)] = new
        BY <1>2, <2>3, <3>1
      <3>3. Len(r) - Len(q) <= 0
        BY <1>0, <2>3
      <3> QED BY <2>4, <3>1, <3>2, <3>3 DEF Backs
    <2>6. ASSUME NEW id \in Id, NEW b \in Nat, Backs(q, id, b)
          PROVE  Backs(r, id, b + 1)
      <3>1. CASE b >= CacheItems
        <4>1. b + 1 >= CacheItems
          BY <1>0, <3>1
        <4> QED BY <4>1 DEF Backs
      <3>2. CASE \E n \in DOMAIN q : q[n] = id /\ Len(q) - n <= b
        <4>1. PICK n \in 1 .. Len(q) : q[n] = id /\ Len(q) - n <= b
          BY <2>4, <3>2
        <4>2. CASE n = 1
          <5>1. b + 1 >= CacheItems
            BY <1>0, <2>1, <4>1, <4>2
          <5> QED BY <5>1 DEF Backs
        <4>3. CASE n # 1
          <5>1. PICK p \in 1 .. Len(q) : n = p + 1
            <6>1. n - 1 \in 1 .. Len(q) /\ n = (n - 1) + 1
              BY <1>0, <4>1, <4>3
            <6> QED BY <6>1
          <5>2. r[p] = id
            BY <1>2, <2>3, <4>1, <5>1
          <5>3. Len(r) - p <= b + 1
            BY <1>0, <2>3, <4>1, <5>1
          <5> QED BY <2>4, <5>2, <5>3 DEF Backs
        <4> QED BY <4>2, <4>3
      <3> QED BY <2>6, <3>1, <3>2 DEF Backs
    <2> QED BY <1>3, <2>5, <2>6
  <1>6. CASE ~(Len(long) > CacheItems)
    <2>1. r = long
      BY <1>4, <1>6
    <2>2. Len(r) = Len(q) + 1 /\ DOMAIN r = 1 .. Len(q) + 1 /\ DOMAIN q = 1 .. Len(q)
      BY <1>2, <2>1
    <2>3. Backs(r, new, 0)
      <3>1. Len(q) + 1 \in 1 .. Len(q) + 1 /\ Len(r) - (Len(q) + 1) <= 0
        BY <1>0, <2>2
      <3> QED BY <1>2, <2>1, <2>2, <3>1 DEF Backs
    <2>4. ASSUME NEW id \in Id, NEW b \in Nat, Backs(q, id, b)
          PROVE  Backs(r, id, b + 1)
      <3>1. CASE b >= CacheItems
        <4>1. b + 1 >= CacheItems
          BY <1>0, <3>1
        <4> QED BY <4>1 DEF Backs
      <3>2. CASE \E n \in DOMAIN q : q[n] = id /\ Len(q) - n <= b
        <4>1. PICK n \in 1 .. Len(q) : q[n] = id /\ Len(q) - n <= b
          BY <2>2, <3>2
        <4>2. n \in 1 .. Len(q) + 1 /\ Len(r) - n <= b + 1
          BY <1>0, <2>2, <4>1
        <4>3. r[n] = id
          BY <1>2, <2>1, <4>1
        <4> QED BY <2>2, <4>2, <4>3 DEF Backs
      <3> QED BY <2>4, <3>1, <3>2 DEF Backs
    <2> QED BY <1>3, <2>3, <2>4
  <1> QED BY <1>5, <1>6

\* What a copy does to the cache r and to the clips copied again: whatever was backed
\* is, by one more, and the new clip is, unless its body stays where it was.
Copied(q, ag, r, bg, new) ==
    /\ \A id \in Id, b \in Nat :
           id \notin bg /\ (id \notin ag => Backs(q, id, b)) => Backs(r, id, b + 1)
    /\ new \notin bg => Backs(r, new, 0)

LEMMA CopiedNew ==
    ASSUME NEW q \in Seq(Id), Len(q) <= CacheItems, NEW ag, NEW new \in Id, NEW r, NEW bg,
           r = CacheOrder(q, new),
           bg = (IF new \in Kept(q) THEN ag \cup {new} ELSE ag \ {new})
    PROVE  Copied(q, ag, r, bg, new)
  <1>1. CASE new \in Kept(q)
    <2>1. r = q
      <3>1. ~(Len(q) > CacheItems)
        BY PullAssumption
      <3> QED BY <1>1, <3>1 DEF CacheOrder
    <2>2. bg = ag \cup {new}
      BY <1>1
    <2>3. ASSUME NEW id \in Id, NEW b \in Nat, id \notin bg, id \notin ag => Backs(q, id, b)
          PROVE  Backs(r, id, b + 1)
      <3>1. b + 1 \in Nat /\ b <= b + 1
        OBVIOUS
      <3>2. Backs(q, id, b)
        BY <2>2, <2>3
      <3>3. Backs(q, id, b + 1)
        BY <3>1, <3>2, BacksMore
      <3> QED BY <2>1, <3>3
    <2> QED BY <2>2, <2>3 DEF Copied
  <1>2. CASE new \notin Kept(q)
    <2>1. /\ Backs(r, new, 0)
          /\ \A id \in Id, b \in Nat : Backs(q, id, b) => Backs(r, id, b + 1)
      BY <1>2, BacksPushed
    <2>2. ASSUME NEW id \in Id, NEW b \in Nat, id \notin bg, id \notin ag => Backs(q, id, b)
          PROVE  Backs(r, id, b + 1)
      <3>1. CASE id = new
        <4>1. 0 \in Nat /\ b + 1 \in Nat /\ 0 <= b + 1
          OBVIOUS
        <4>2. r \in Seq(Id)
          BY CacheOrderType
        <4>3. Backs(r, id, 0)
          BY <2>1, <3>1
        <4> QED BY <4>1, <4>2, <4>3, BacksMore
      <3>2. CASE id # new
        <4>1. Backs(q, id, b)
          BY <1>2, <2>2, <3>2
        <4> QED BY <2>1, <4>1
      <3> QED BY <3>1, <3>2
    <2> QED BY <2>1, <2>2 DEF Copied
  <1> QED BY <1>1, <1>2

\* An empty queue announces nothing.
LEMMA AnnouncesNothing ==
    ASSUME NEW q, NEW ag, NEW from, NEW to
    PROVE  Announces(<<>>, q, ag, from, to)
  <1>1. PICK num : num = [k \in DOMAIN <<>> |-> 0]
    OBVIOUS
  <1>2. num \in [DOMAIN <<>> -> Nat] /\ DOMAIN <<>> = {}
    BY <1>1
  <1>3. Numbered(<<>>, num, from, to) /\ Placed(<<>>, num, q, ag, to)
    BY <1>2 DEF Numbered, Placed
  <1> QED BY <1>2, <1>3 DEF Announces

\* A message that is no signal comes last.
LEMMA AnnouncesSent ==
    ASSUME NEW o \in Seq(Message), NEW m \in Message, m.type # "signal",
           NEW q, NEW ag, NEW from, NEW to, Announces(o, q, ag, from, to)
    PROVE  Announces(Append(o, m), q, ag, from, to)
  <1>1. PICK num \in [DOMAIN o -> Nat] : Numbered(o, num, from, to) /\ Placed(o, num, q, ag, to)
    BY DEF Announces
  <1>2. PICK p : p = Append(o, m)
    OBVIOUS
  <1>3. /\ DOMAIN p = DOMAIN o \cup {Len(o) + 1} /\ \A k \in DOMAIN o : p[k] = o[k]
        /\ p[Len(o) + 1] = m
    BY <1>2
  <1>4. PICK more : more = [k \in DOMAIN p |-> IF k \in DOMAIN o THEN num[k] ELSE 0]
    OBVIOUS
  <1>5. more \in [DOMAIN p -> Nat] /\ \A k \in DOMAIN o : more[k] = num[k]
    BY <1>3, <1>4
  <1>6. \A k \in DOMAIN p : p[k].type = "signal" => k \in DOMAIN o /\ o[k].type = "signal"
    BY <1>3
  <1>7. Numbered(p, more, from, to)
    <2> SUFFICES ASSUME NEW k \in DOMAIN p, p[k].type = "signal"
                 PROVE  /\ from < more[k] /\ more[k] <= to
                        /\ \A j \in DOMAIN p : j < k /\ p[j].type = "signal" => more[j] < more[k]
      BY DEF Numbered
    <2>1. k \in DOMAIN o /\ o[k].type = "signal"
      BY <1>6
    <2>2. /\ from < num[k] /\ num[k] <= to
          /\ \A j \in DOMAIN o : j < k /\ o[j].type = "signal" => num[j] < num[k]
      BY <1>1, <2>1 DEF Numbered
    <2> QED BY <1>5, <1>6, <2>1, <2>2
  <1>8. Placed(p, more, q, ag, to)
    <2> SUFFICES ASSUME NEW k \in DOMAIN p, p[k].type = "signal", p[k].id \notin ag
                 PROVE  Backs(q, p[k].id, to - more[k])
      BY DEF Placed
    <2>1. k \in DOMAIN o /\ p[k] = o[k] /\ more[k] = num[k]
      BY <1>3, <1>5, <1>6
    <2> QED BY <1>1, <2>1 DEF Placed
  <1> QED BY <1>2, <1>5, <1>7, <1>8 DEF Announces

\* A clip is copied that is not announced: there is no session.
LEMMA AnnouncesCopied ==
    ASSUME NEW o \in Seq(Message), NEW q, NEW ag, NEW r, NEW bg, NEW new, Copied(q, ag, r, bg, new),
           NEW from \in Nat, NEW to \in Nat, Announces(o, q, ag, from, to)
    PROVE  Announces(o, r, bg, from, to + 1)
  <1>1. PICK num \in [DOMAIN o -> Nat] : Numbered(o, num, from, to) /\ Placed(o, num, q, ag, to)
    BY DEF Announces
  <1>2. Numbered(o, num, from, to + 1)
    <2> SUFFICES ASSUME NEW k \in DOMAIN o, o[k].type = "signal"
                 PROVE  /\ from < num[k] /\ num[k] <= to + 1
                        /\ \A j \in DOMAIN o : j < k /\ o[j].type = "signal" => num[j] < num[k]
      BY DEF Numbered
    <2>1. /\ from < num[k] /\ num[k] <= to
          /\ \A j \in DOMAIN o : j < k /\ o[j].type = "signal" => num[j] < num[k]
      BY <1>1 DEF Numbered
    <2>2. num[k] \in Nat
      OBVIOUS
    <2>3. num[k] <= to + 1
      BY <2>1, <2>2
    <2> QED BY <2>1, <2>3
  <1>3. Placed(o, num, r, bg, to + 1)
    <2> SUFFICES ASSUME NEW k \in DOMAIN o, o[k].type = "signal", o[k].id \notin bg
                 PROVE  Backs(r, o[k].id, (to + 1) - num[k])
      BY DEF Placed
    <2>1. o[k].id \notin ag => Backs(q, o[k].id, to - num[k])
      BY <1>1 DEF Placed
    <2>2. num[k] \in Nat /\ num[k] <= to
      BY <1>1 DEF Numbered
    <2>3. to - num[k] \in Nat /\ (to - num[k]) + 1 = (to + 1) - num[k]
      BY <2>2
    <2>4. o[k] \in Message
      OBVIOUS
    <2>5. o[k].id \in Id
      BY <2>4, MessageFields
    <2>6. Backs(r, o[k].id, (to - num[k]) + 1)
      BY <2>1, <2>3, <2>5 DEF Copied
    <2> QED BY <2>3, <2>6
  <1> QED BY <1>2, <1>3 DEF Announces

\* Its signal comes last.
LEMMA AnnouncesSignal ==
    ASSUME NEW o \in Seq(Message), NEW q, NEW ag, NEW r, NEW bg, NEW m \in Message,
           m.type = "signal", Copied(q, ag, r, bg, m.id),
           NEW from \in Nat, NEW to \in Nat, from <= to, Announces(o, q, ag, from, to)
    PROVE  Announces(Append(o, m), r, bg, from, to + 1)
  <1>1. PICK num \in [DOMAIN o -> Nat] : Numbered(o, num, from, to) /\ Placed(o, num, q, ag, to)
    BY DEF Announces
  <1>2. PICK p : p = Append(o, m)
    OBVIOUS
  <1>3. /\ DOMAIN p = DOMAIN o \cup {Len(o) + 1} /\ \A k \in DOMAIN o : p[k] = o[k]
        /\ p[Len(o) + 1] = m /\ Len(o) + 1 \notin DOMAIN o
        /\ \A k \in DOMAIN o : k \in Nat /\ k < Len(o) + 1
    BY <1>2
  <1>4. PICK more : more = [k \in DOMAIN p |-> IF k \in DOMAIN o THEN num[k] ELSE to + 1]
    OBVIOUS
  <1>5. /\ more \in [DOMAIN p -> Nat] /\ \A k \in DOMAIN o : more[k] = num[k]
        /\ more[Len(o) + 1] = to + 1
    BY <1>3, <1>4
  <1>6. Numbered(p, more, from, to + 1)
    <2> SUFFICES ASSUME NEW k \in DOMAIN p, p[k].type = "signal"
                 PROVE  /\ from < more[k] /\ more[k] <= to + 1
                        /\ \A j \in DOMAIN p : j < k /\ p[j].type = "signal" => more[j] < more[k]
      BY DEF Numbered
    <2>1. \A j \in DOMAIN o : o[j].type = "signal"
             => /\ num[j] \in Nat /\ from < num[j] /\ num[j] <= to
                /\ \A l \in DOMAIN o : l < j /\ o[l].type = "signal" => num[l] < num[j]
      BY <1>1 DEF Numbered
    <2>2. CASE k \in DOMAIN o
      <3>1. o[k].type = "signal"
        BY <1>3, <2>2
      <3>2. num[k] \in Nat /\ from < num[k] /\ num[k] <= to
        BY <2>1, <2>2, <3>1
      <3>3. num[k] <= to + 1
        BY <3>2
      <3>4. ASSUME NEW j \in DOMAIN p, j < k, p[j].type = "signal"
            PROVE  more[j] < more[k]
        <4>1. j \in DOMAIN o
          <5>1. k \in Nat /\ k < Len(o) + 1 /\ Len(o) \in Nat
            BY <1>3, <2>2
          <5>2. j # Len(o) + 1
            BY <3>4, <5>1
          <5> QED BY <1>3, <5>2
        <4>2. o[j].type = "signal"
          BY <1>3, <3>4, <4>1
        <4> QED BY <1>5, <2>1, <2>2, <3>1, <3>4, <4>1, <4>2
      <3> QED BY <1>5, <2>2, <3>2, <3>3, <3>4
    <2>3. CASE k = Len(o) + 1
      <3>1. more[k] = to + 1
        BY <1>5, <2>3
      <3>2. from < to + 1 /\ to + 1 <= to + 1
        OBVIOUS
      <3>3. ASSUME NEW j \in DOMAIN p, j < k, p[j].type = "signal"
            PROVE  more[j] < to + 1
        <4>1. j # Len(o) + 1
          BY <2>3, <3>3
        <4>2. j \in DOMAIN o /\ o[j].type = "signal"
          BY <1>3, <3>3, <4>1
        <4>3. num[j] \in Nat /\ num[j] <= to
          BY <2>1, <4>2
        <4>4. num[j] < to + 1
          BY <4>3
        <4> QED BY <1>5, <4>2, <4>4
      <3> QED BY <3>1, <3>2, <3>3
    <2> QED BY <1>3, <2>2, <2>3
  <1>7. Placed(p, more, r, bg, to + 1)
    <2> SUFFICES ASSUME NEW k \in DOMAIN p, p[k].type = "signal", p[k].id \notin bg
                 PROVE  Backs(r, p[k].id, (to + 1) - more[k])
      BY DEF Placed
    <2>1. CASE k \in DOMAIN o
      <3>1. p[k] = o[k] /\ more[k] = num[k]
        BY <1>3, <1>5, <2>1
      <3>2. o[k].id \notin ag => Backs(q, o[k].id, to - num[k])
        BY <1>1, <2>1, <3>1 DEF Placed
      <3>3. num[k] \in Nat /\ num[k] <= to
        BY <1>1, <2>1, <3>1 DEF Numbered
      <3>4. to - num[k] \in Nat /\ (to - num[k]) + 1 = (to + 1) - num[k]
        BY <3>3
      <3>5. o[k] \in Message
        BY <2>1
      <3>6. o[k].id \in Id
        BY <3>5, MessageFields
      <3>7. Backs(r, o[k].id, (to - num[k]) + 1)
        BY <3>1, <3>2, <3>4, <3>6 DEF Copied
      <3> QED BY <3>1, <3>4, <3>7
    <2>2. CASE k = Len(o) + 1
      <3>1. p[k] = m /\ more[k] = to + 1 /\ (to + 1) - (to + 1) = 0
        BY <1>3, <1>5, <2>2
      <3>2. Backs(r, m.id, 0)
        BY <3>1 DEF Copied
      <3> QED BY <3>1, <3>2
    <2> QED BY <1>3, <2>1, <2>2
  <1> QED BY <1>2, <1>5, <1>6, <1>7 DEF Announces

\* The relay reads the first message of a queue.
LEMMA AnnouncesRead ==
    ASSUME NEW o \in Seq(Message), o # <<>>, NEW q \in Seq(Id), NEW ag, NEW from \in Nat,
           NEW to \in Nat, Announces(o, q, ag, from, to)
    PROVE  IF Head(o).type = "signal"
           THEN /\ from + 1 <= to /\ Announces(Tail(o), q, ag, from + 1, to)
                /\ Head(o).id \notin ag => Backs(q, Head(o).id, to - (from + 1))
           ELSE Announces(Tail(o), q, ag, from, to)
  <1>1. PICK num \in [DOMAIN o -> Nat] : Numbered(o, num, from, to) /\ Placed(o, num, q, ag, to)
    BY DEF Announces
  <1>2. PICK p : p = Tail(o)
    OBVIOUS
  <1>3. /\ 1 \in DOMAIN o /\ o[1] = Head(o)
        /\ \A k \in DOMAIN p : k \in Nat \ {0} /\ k + 1 \in DOMAIN o /\ p[k] = o[k + 1]
    BY <1>2
  <1>4. PICK rest : rest = [k \in DOMAIN p |-> num[k + 1]]
    OBVIOUS
  <1>5. rest \in [DOMAIN p -> Nat] /\ \A k \in DOMAIN p : rest[k] = num[k + 1]
    BY <1>3, <1>4
  <1>6. Placed(p, rest, q, ag, to)
    <2> SUFFICES ASSUME NEW k \in DOMAIN p, p[k].type = "signal", p[k].id \notin ag
                 PROVE  Backs(q, p[k].id, to - rest[k])
      BY DEF Placed
    <2>1. k + 1 \in DOMAIN o /\ p[k] = o[k + 1] /\ rest[k] = num[k + 1]
      BY <1>3, <1>5
    <2> QED BY <1>1, <2>1 DEF Placed
  <1>7. ASSUME NEW after, \A k \in DOMAIN p : p[k].type = "signal" => after < rest[k]
        PROVE  Numbered(p, rest, after, to)
    <2> SUFFICES ASSUME NEW k \in DOMAIN p, p[k].type = "signal"
                 PROVE  /\ rest[k] <= to
                        /\ \A j \in DOMAIN p : j < k /\ p[j].type = "signal" => rest[j] < rest[k]
      BY <1>7 DEF Numbered
    <2>1. k + 1 \in DOMAIN o /\ o[k + 1].type = "signal" /\ rest[k] = num[k + 1]
      BY <1>3, <1>5
    <2>2. /\ num[k + 1] <= to
          /\ \A j \in DOMAIN o : j < k + 1 /\ o[j].type = "signal" => num[j] < num[k + 1]
      BY <1>1, <2>1 DEF Numbered
    <2>3. ASSUME NEW j \in DOMAIN p, j < k, p[j].type = "signal" PROVE rest[j] < rest[k]
      <3>1. j + 1 \in DOMAIN o /\ o[j + 1].type = "signal" /\ rest[j] = num[j + 1]
        BY <1>3, <1>5, <2>3
      <3>2. j + 1 < k + 1
        BY <1>3, <2>3
      <3> QED BY <2>1, <2>2, <3>1, <3>2
    <2> QED BY <2>1, <2>2, <2>3
  <1>8. CASE Head(o).type = "signal"
    <2>1. num[1] \in Nat /\ from < num[1] /\ num[1] <= to
      BY <1>1, <1>3, <1>8 DEF Numbered
    <2>2. from + 1 <= to
      BY <2>1
    <2>3. ASSUME NEW k \in DOMAIN p, p[k].type = "signal" PROVE from + 1 < rest[k]
      <3>1. /\ k \in Nat \ {0} /\ k + 1 \in DOMAIN o /\ o[k + 1].type = "signal"
            /\ rest[k] = num[k + 1] /\ num[k + 1] \in Nat
        BY <1>3, <1>5, <2>3
      <3>2. 1 < k + 1
        BY <3>1
      <3>3. num[1] < num[k + 1]
        BY <1>1, <1>3, <1>8, <3>1, <3>2 DEF Numbered
      <3> QED BY <2>1, <3>1, <3>3
    <2>4. Numbered(p, rest, from + 1, to)
      BY <1>7, <2>3
    <2>5. Announces(p, q, ag, from + 1, to)
      BY <1>5, <1>6, <2>4 DEF Announces
    <2>6. ASSUME Head(o).id \notin ag PROVE Backs(q, Head(o).id, to - (from + 1))
      <3>1. Backs(q, Head(o).id, to - num[1])
        BY <1>1, <1>3, <1>8, <2>6 DEF Placed
      <3>2. to - num[1] \in Nat /\ to - (from + 1) \in Nat /\ to - num[1] <= to - (from + 1)
        BY <2>1
      <3>3. Head(o).id \in Id
        BY QueueType, MessageFields
      <3> QED BY <3>1, <3>2, <3>3, BacksMore
    <2> QED BY <1>2, <1>8, <2>2, <2>5, <2>6
  <1>9. CASE Head(o).type # "signal"
    <2>1. \A k \in DOMAIN p : p[k].type = "signal" => from < rest[k]
      BY <1>1, <1>3, <1>5 DEF Numbered
    <2>2. Numbered(p, rest, from, to)
      BY <1>7, <2>1
    <2>3. Announces(p, q, ag, from, to)
      BY <1>5, <1>6, <2>2 DEF Announces
    <2> QED BY <1>2, <1>9, <2>3
  <1> QED BY <1>8, <1>9

\* A message sent is added, if there is a session.
LEMMA SentOne ==
    ASSUME PullTypeOK, NEW d \in Device, NEW m \in Message, Send(d, <<m>>)
    PROVE  /\ out' = [out EXCEPT ![d] = IF conn[d] THEN Append(out[d], m) ELSE out[d]]
           /\ Append(out[d], m) \in Seq(Message)
           /\ DOMAIN Append(out[d], m) = DOMAIN out[d] \cup {Len(out[d]) + 1}
           /\ \A k \in DOMAIN out[d] : Append(out[d], m)[k] = out[d][k]
           /\ Append(out[d], m)[Len(out[d]) + 1] = m
  <1>1. out[d] \in Seq(Message)
    BY DEF PullTypeOK
  <1>2. out[d] \o <<m>> = Append(out[d], m)
    BY <1>1
  <1>3. out' = [out EXCEPT ![d] = IF conn[d] THEN out[d] \o <<m>> ELSE out[d]]
    BY DEF Send
  <1>4. out' = [out EXCEPT ![d] = IF conn[d] THEN Append(out[d], m) ELSE out[d]]
    BY <1>2, <1>3
  <1>5. /\ Append(out[d], m) \in Seq(Message)
        /\ DOMAIN Append(out[d], m) = DOMAIN out[d] \cup {Len(out[d]) + 1}
        /\ \A k \in DOMAIN out[d] : Append(out[d], m)[k] = out[d][k]
        /\ Append(out[d], m)[Len(out[d]) + 1] = m
    BY <1>1
  <1> QED BY <1>4, <1>5

\* What HeadInv is about, but for what is sent and read.
headState == <<head, order, stale, copies, senders, heard, again, aged>>

\* The types of what HeadInv is about.
LEMMA HeadTyped ==
    ASSUME PullTypeOK
    PROVE  /\ head \in Seq(Signal) /\ out \in [Device -> Seq(Message)]
           /\ order \in [Device -> Seq(Id)] /\ \A d \in Device : Len(order[d]) <= CacheItems
           /\ stale \in [Device -> SUBSET Id] /\ copies \in [Device -> Nat]
           /\ senders \in [Id -> SUBSET Device] /\ heard \in [Device -> Nat]
           /\ again \in [Device -> SUBSET Id] /\ aged \in [Device -> SUBSET Id]
           /\ \A i \in DOMAIN head : head[i].origin \in Device /\ head[i].id \in Id
  <1>1. \A i \in DOMAIN head : head[i].origin \in Device /\ head[i].id \in Id
    <2>1. head \in Seq(Signal)
      BY DEF PullTypeOK
    <2>2. \A i \in DOMAIN head : head[i] \in Signal
      BY <2>1
    <2> QED BY <2>2 DEF Signal
  <1>2. /\ out \in [Device -> Seq(Message)] /\ copies \in [Device -> Nat]
        /\ again \in [Device -> SUBSET Id] /\ aged \in [Device -> SUBSET Id]
    BY TypeParts DEF NetTyped, BoundsTyped, HistoryTyped
  <1> QED BY <1>1, <1>2 DEF PullTypeOK

\* It is kept while signals are neither sent nor read.
LEMMA HeadInvOut ==
    ASSUME PullTypeOK, HeadInv, UNCHANGED headState, NEW d \in Device, NEW o \in Seq(Message),
           out' = [out EXCEPT ![d] = o],
           \A k \in DOMAIN o : o[k].type = "signal" => o[k].origin = d,
           Announces(o, order[d], again[d], heard[d], copies[d])
    PROVE  HeadInv'
  <1>1. out \in [Device -> Seq(Message)]
    BY HeadTyped
  <1>2. /\ head' = head /\ order' = order /\ stale' = stale /\ copies' = copies /\ senders' = senders
        /\ heard' = heard /\ again' = again /\ aged' = aged
    BY DEF headState
  <1>3. OwnSignals'
    BY <1>1 DEF HeadInv, OwnSignals
  <1>4. CachePublished' /\ StaleAged' /\ HeardCopied'
    BY <1>2 DEF HeadInv, CachePublished, StaleAged, HeardCopied, Published
  <1>5. HeadBacked'
    BY <1>2 DEF HeadInv, HeadBacked
  <1>6. OutBacked'
    <2> SUFFICES ASSUME NEW e \in Device
                 PROVE  Announces(out'[e], order[e], again[e], heard[e], copies[e])
      BY <1>2 DEF OutBacked
    <2>1. CASE e = d
      BY <1>1, <2>1
    <2>2. CASE e # d
      <3>1. out'[e] = out[e]
        BY <1>1, <2>2
      <3> QED BY <3>1 DEF HeadInv, OutBacked
    <2> QED BY <2>1, <2>2
  <1> QED BY <1>3, <1>4, <1>5, <1>6 DEF HeadInv

LEMMA HeadInvSame ==
    ASSUME HeadInv, UNCHANGED headState, UNCHANGED out
    PROVE  HeadInv'
  <1>1. /\ head' = head /\ order' = order /\ stale' = stale /\ copies' = copies /\ senders' = senders
        /\ heard' = heard /\ again' = again /\ aged' = aged /\ out' = out
    BY DEF headState
  <1> QED BY <1>1 DEF HeadInv, OwnSignals, CachePublished, StaleAged, HeardCopied, HeadBacked,
             OutBacked, Published

LEMMA HeadInvSent ==
    ASSUME PullTypeOK, HeadInv, UNCHANGED headState, NEW d \in Device, NEW m \in Message,
           m.type # "signal", Send(d, <<m>>)
    PROVE  HeadInv'
  <1>1. out \in [Device -> Seq(Message)]
    BY HeadTyped
  <1> DEFINE o == IF conn[d] THEN Append(out[d], m) ELSE out[d]
  <1>2. o \in Seq(Message) /\ out' = [out EXCEPT ![d] = o]
    BY <1>1, SentOne
  <1>3. \A k \in DOMAIN o : o[k].type = "signal" => o[k].origin = d
    <2>1. \A k \in DOMAIN out[d] : out[d][k].type = "signal" => out[d][k].origin = d
      BY DEF HeadInv, OwnSignals
    <2>2. CASE conn[d]
      <3>1. /\ DOMAIN o = DOMAIN out[d] \cup {Len(out[d]) + 1}
            /\ \A k \in DOMAIN out[d] : o[k] = out[d][k]
            /\ o[Len(out[d]) + 1] = m
        BY <2>2, SentOne
      <3> QED BY <2>1, <3>1
    <2> QED BY <2>1, <2>2
  <1>4. Announces(o, order[d], again[d], heard[d], copies[d])
    <2>1. Announces(out[d], order[d], again[d], heard[d], copies[d])
      BY DEF HeadInv, OutBacked
    <2>2. Announces(Append(out[d], m), order[d], again[d], heard[d], copies[d])
      BY <1>1, <2>1, AnnouncesSent
    <2> QED BY <2>1, <2>2
  <1> HIDE DEF o
  <1> QED BY <1>2, <1>3, <1>4, HeadInvOut

\* The relay keeps a signal: each of those before it has one more after it, and those
\* of its device one less on the way.
LEMMA HeadKept ==
    ASSUME PullTypeOK, HeadBacked, HeardCopied, NEW d \in Device, NEW id \in Id, NEW h,
           h = Append(head, [id |-> id, origin |-> d]),
           head' = (IF Len(h) > HeadDepth THEN Tail(h) ELSE h),
           heard' = [heard EXCEPT ![d] = heard[d] + 1], UNCHANGED <<order, again, copies>>,
           heard[d] + 1 <= copies[d],
           id \notin again[d] => Backs(order[d], id, copies[d] - (heard[d] + 1))
    PROVE  HeadBacked'
  <1>0. /\ head \in Seq(Signal) /\ order \in [Device -> Seq(Id)] /\ heard \in [Device -> Nat]
        /\ copies \in [Device -> Nat]
        /\ \A i \in DOMAIN head : head[i].origin \in Device /\ head[i].id \in Id
    BY HeadTyped
  <1> DEFINE later(n) == (Len(h) - n) + (copies[h[n].origin] - heard'[h[n].origin])
  <1>1. /\ Len(h) = Len(head) + 1 /\ Len(head) \in Nat /\ DOMAIN h = 1 .. Len(h)
        /\ \A n \in 1 .. Len(head) : h[n] = head[n]
        /\ h[Len(h)] = [id |-> id, origin |-> d]
        /\ DOMAIN head = 1 .. Len(head) /\ h \in Seq(Signal)
    <2>1. [id |-> id, origin |-> d] \in Signal
      BY DEF Signal
    <2> QED BY <1>0, <2>1
  <1>2. ASSUME NEW n \in 1 .. Len(h), h[n].id \notin again[h[n].origin]
        PROVE  Backs(order[h[n].origin], h[n].id, later(n))
    <2>1. CASE n = Len(h)
      <3>1. h[n].id = id /\ h[n].origin = d
        BY <1>1, <2>1
      <3>2. heard'[d] = heard[d] + 1 /\ copies[d] \in Nat /\ heard[d] \in Nat
        BY <1>0
      <3>3. (Len(h) - n) + (copies[d] - (heard[d] + 1)) = copies[d] - (heard[d] + 1)
        BY <1>1, <2>1, <3>2
      <3> QED BY <1>2, <3>1, <3>2, <3>3
    <2>2. CASE n # Len(h)
      <3>1. n \in 1 .. Len(head)
        BY <1>1, <2>2
      <3> DEFINE e == head[n].origin
                 c == head[n].id
      <3>2. e \in Device /\ c \in Id /\ h[n] = head[n]
        BY <1>0, <1>1, <3>1
      <3>3. Backs(order[e], c, (Len(head) - n) + (copies[e] - heard[e]))
        BY <1>1, <1>2, <3>1, <3>2 DEF HeadBacked
      <3>4. heard[e] \in Nat /\ copies[e] \in Nat /\ heard[e] <= copies[e] /\ order[e] \in Seq(Id)
        BY <1>0, <3>2 DEF HeardCopied
      <3>5. heard'[e] = IF e = d THEN heard[e] + 1 ELSE heard[e]
        BY <1>0, <3>2
      <3>6. e = d => heard[e] + 1 <= copies[e]
        OBVIOUS
      <3> HIDE DEF e, c
      <3>7. /\ (Len(head) - n) + (copies[e] - heard[e]) \in Nat
            /\ (Len(h) - n) + (copies[e] - heard'[e]) \in Nat
            /\ (Len(head) - n) + (copies[e] - heard[e]) <= (Len(h) - n) + (copies[e] - heard'[e])
        BY <1>1, <3>1, <3>4, <3>5, <3>6
      <3>8. Backs(order[e], c, (Len(h) - n) + (copies[e] - heard'[e]))
        BY <3>2, <3>3, <3>4, <3>7, BacksMore
      <3> QED BY <3>2, <3>8 DEF e, c
    <2> QED BY <2>1, <2>2
  <1>3. CASE Len(h) > HeadDepth
    <2>1. head' = Tail(h) /\ h # <<>>
      BY <1>1, <1>3
    <2>2. /\ Len(head') = Len(h) - 1
          /\ \A i \in DOMAIN head' : i \in Nat /\ i + 1 \in 1 .. Len(h) /\ head'[i] = h[i + 1]
      <3> HIDE DEF later
      <3>1. h \in Seq(Signal) /\ h # <<>>
        BY <1>1, <2>1
      <3> QED BY <2>1, <3>1
    <2> SUFFICES ASSUME NEW i \in DOMAIN head', head'[i].id \notin again[head'[i].origin]
                 PROVE  Backs(order[head'[i].origin], head'[i].id,
                              (Len(head') - i) + (copies[head'[i].origin] - heard'[head'[i].origin]))
      BY DEF HeadBacked
    <2>3. i \in Nat /\ i + 1 \in 1 .. Len(h) /\ head'[i] = h[i + 1]
      BY <2>2
    <2>4. Len(head') - i = Len(h) - (i + 1)
      BY <1>1, <2>2, <2>3
    <2>5. Backs(order[h[i + 1].origin], h[i + 1].id, later(i + 1))
      BY <1>2, <2>3
    <2> QED BY <2>3, <2>4, <2>5
  <1>4. CASE ~(Len(h) > HeadDepth)
    <2>1. head' = h
      BY <1>4
    <2> SUFFICES ASSUME NEW i \in DOMAIN h, h[i].id \notin again[h[i].origin]
                 PROVE  Backs(order[h[i].origin], h[i].id, later(i))
      BY <2>1 DEF HeadBacked
    <2> QED BY <1>1, <1>2
  <1> QED BY <1>3, <1>4

\* The relay reads a message.
LEMMA HeadInvRelay ==
    ASSUME PullTypeOK, HeadInv, NEW d \in Device, RelayTakes(d)
    PROVE  HeadInv'
  <1>1. PICK m : m = Head(out[d])
    OBVIOUS
  <1>2. PICK u : u = Tail(out[d])
    OBVIOUS
  <1>3. /\ out \in [Device -> Seq(Message)] /\ order \in [Device -> Seq(Id)]
        /\ heard \in [Device -> Nat] /\ copies \in [Device -> Nat]
    BY HeadTyped
  <1>4. /\ out[d] # <<>> /\ out' = [out EXCEPT ![d] = u]
        /\ UNCHANGED <<order, stale, copies, senders, again, aged>>
    BY <1>2 DEF RelayTakes, cacheVars, pullBounds
  <1>5. m \in Message /\ u \in Seq(Message)
    BY <1>1, <1>2, <1>3, <1>4, QueueType
  <1>6. 1 \in DOMAIN out[d] /\ m = out[d][1]
        /\ \A k \in DOMAIN u : k + 1 \in DOMAIN out[d] /\ u[k] = out[d][k + 1]
    BY <1>1, <1>2, <1>3, <1>4
  <1>7. /\ \A k \in DOMAIN u : u[k].type = "signal" => u[k].origin = d
        /\ m.type = "signal" => m.origin = d
    BY <1>6 DEF HeadInv, OwnSignals
  <1>8. Announces(out[d], order[d], again[d], heard[d], copies[d])
    BY DEF HeadInv, OutBacked
  <1>9. /\ out[d] \in Seq(Message) /\ order[d] \in Seq(Id) /\ heard[d] \in Nat /\ copies[d] \in Nat
    BY <1>3
  <1>10. IF m.type = "signal"
         THEN /\ heard[d] + 1 <= copies[d]
              /\ Announces(u, order[d], again[d], heard[d] + 1, copies[d])
              /\ m.id \notin again[d] => Backs(order[d], m.id, copies[d] - (heard[d] + 1))
         ELSE Announces(u, order[d], again[d], heard[d], copies[d])
    BY <1>1, <1>2, <1>4, <1>8, <1>9, AnnouncesRead
  <1>11. CASE m.type # "signal"
    <2>1. head' = head /\ heard' = heard
      BY <1>1, <1>11 DEF RelayTakes, RelayRequest, RelayPasses
    <2>2. UNCHANGED headState
      BY <1>4, <2>1 DEF headState
    <2>3. Announces(u, order[d], again[d], heard[d], copies[d])
      BY <1>10, <1>11
    <2> QED BY <1>4, <1>5, <1>7, <2>2, <2>3, HeadInvOut
  <1>12. CASE m.type = "signal"
    <2>1. RelaySignal(d, m)
      BY <1>1, <1>12 DEF RelayTakes
    <2>2. PICK h : h = Append(head, [id |-> m.id, origin |-> d])
      OBVIOUS
    <2>3. head' = IF Len(h) > HeadDepth THEN Tail(h) ELSE h
      BY <1>7, <1>12, <2>1, <2>2 DEF RelaySignal
    <2>4. heard' = [heard EXCEPT ![d] = heard[d] + 1]
      BY <2>1 DEF RelaySignal
    <2>5. m.id \in Id
      BY <1>5, MessageFields
    <2>6. /\ heard[d] + 1 <= copies[d]
          /\ Announces(u, order[d], again[d], heard[d] + 1, copies[d])
          /\ m.id \notin again[d] => Backs(order[d], m.id, copies[d] - (heard[d] + 1))
      BY <1>10, <1>12
    <2>7. HeadBacked'
      BY <1>4, <2>2, <2>3, <2>4, <2>5, <2>6, HeadKept DEF HeadInv
    <2>8. OwnSignals'
      BY <1>3, <1>4, <1>7 DEF HeadInv, OwnSignals
    <2>9. CachePublished' /\ StaleAged'
      BY <1>4 DEF HeadInv, CachePublished, StaleAged, Published
    <2>10. HeardCopied'
      BY <1>3, <1>4, <2>4, <2>6 DEF HeadInv, HeardCopied
    <2>11. OutBacked'
      <3> SUFFICES ASSUME NEW e \in Device
                   PROVE  Announces(out'[e], order[e], again[e], heard'[e], copies[e])
        BY <1>4 DEF OutBacked
      <3>1. CASE e = d
        <4>1. out'[e] = u /\ heard'[e] = heard[d] + 1
          BY <1>3, <1>4, <2>4, <3>1
        <4> QED BY <2>6, <3>1, <4>1
      <3>2. CASE e # d
        <4>1. out'[e] = out[e] /\ heard'[e] = heard[e]
          BY <1>3, <1>4, <2>4, <3>2
        <4> QED BY <4>1 DEF HeadInv, OutBacked
      <3> QED BY <3>1, <3>2
    <2> QED BY <2>7, <2>8, <2>9, <2>10, <2>11 DEF HeadInv
  <1> QED BY <1>11, <1>12

\* A body is published.
LEMMA HeadInvPublish ==
    ASSUME PullTypeOK, HeadInv, NEW d \in Device, NEW id \in Id, PublishBody(d, id)
    PROVE  HeadInv'
  <1>0. /\ head \in Seq(Signal) /\ out \in [Device -> Seq(Message)] /\ order \in [Device -> Seq(Id)]
        /\ Len(order[d]) <= CacheItems /\ stale \in [Device -> SUBSET Id]
        /\ senders \in [Id -> SUBSET Device] /\ heard \in [Device -> Nat]
        /\ copies \in [Device -> Nat] /\ again \in [Device -> SUBSET Id]
        /\ aged \in [Device -> SUBSET Id]
        /\ \A i \in DOMAIN head : head[i].origin \in Device /\ head[i].id \in Id
    BY HeadTyped
  <1>1. PICK m : m = [type |-> "signal", id |-> id, origin |-> d]
    OBVIOUS
  <1>2. PICK r : r = CacheOrder(order[d], id)
    OBVIOUS
  <1>3. PICK bg : bg = IF id \in Kept(order[d]) THEN again[d] \cup {id} ELSE again[d] \ {id}
    OBVIOUS
  <1>4. /\ head' = head /\ heard' = heard
        /\ copies' = [copies EXCEPT ![d] = copies[d] + 1]
        /\ senders' = [senders EXCEPT ![id] = senders[id] \cup {d}]
        /\ order' = [order EXCEPT ![d] = r]
        /\ stale' = [stale EXCEPT ![d] = (stale[d] \ {id}) \cap Kept(order'[d])]
        /\ again' = [again EXCEPT ![d] = bg]
        /\ aged' = [aged EXCEPT ![d] = aged[d] \ {id}]
    BY <1>2, <1>3 DEF PublishBody, relayVars, Put
  <1>5. m \in Message /\ m.type = "signal" /\ m.origin = d /\ m.id = id
    BY <1>1 DEF Message
  <1>6. Send(d, <<m>>)
    BY <1>1 DEF PublishBody
  <1>7. /\ out' = [out EXCEPT ![d] = IF conn[d] THEN Append(out[d], m) ELSE out[d]]
        /\ Append(out[d], m) \in Seq(Message)
        /\ DOMAIN Append(out[d], m) = DOMAIN out[d] \cup {Len(out[d]) + 1}
        /\ \A k \in DOMAIN out[d] : Append(out[d], m)[k] = out[d][k]
        /\ Append(out[d], m)[Len(out[d]) + 1] = m
    BY <1>5, <1>6, SentOne
  <1>8. r \in Seq(Id) /\ Kept(r) \subseteq Kept(order[d]) \cup {id}
    BY <1>0, <1>2, CacheOrderType, CacheOrderKept
  <1>9. Copied(order[d], again[d], r, bg, id)
    BY <1>0, <1>2, <1>3, CopiedNew
  <1>10. \A e \in Device : e # d =>
            /\ order'[e] = order[e] /\ again'[e] = again[e] /\ copies'[e] = copies[e]
            /\ out'[e] = out[e] /\ stale'[e] = stale[e] /\ aged'[e] = aged[e]
    BY <1>0, <1>4, <1>7
  <1>11. /\ order'[d] = r /\ again'[d] = bg /\ copies'[d] = copies[d] + 1
         /\ stale'[d] \subseteq stale[d] \ {id} /\ aged'[d] = aged[d] \ {id}
    BY <1>0, <1>4
  <1>12. OwnSignals'
    <2> SUFFICES ASSUME NEW e \in Device, NEW k \in DOMAIN out'[e], out'[e][k].type = "signal"
                 PROVE  out'[e][k].origin = e
      BY DEF OwnSignals
    <2>1. CASE e = d /\ conn[d]
      <3>1. out'[e] = Append(out[d], m)
        BY <1>0, <1>7, <2>1
      <3>2. (k \in DOMAIN out[d] /\ out'[e][k] = out[d][k]) \/ out'[e][k] = m
        BY <1>7, <3>1
      <3> QED BY <1>5, <2>1, <3>2 DEF HeadInv, OwnSignals
    <2>2. CASE ~(e = d /\ conn[d])
      <3>1. out'[e] = out[e]
        BY <1>0, <1>7, <2>2
      <3> QED BY <3>1 DEF HeadInv, OwnSignals
    <2> QED BY <2>1, <2>2
  <1>13. CachePublished'
    <2> SUFFICES ASSUME NEW e \in Device PROVE Kept(order'[e]) \subseteq Published(e)'
      BY DEF CachePublished
    <2>1. Kept(order[e]) \subseteq Published(e)
      BY DEF HeadInv, CachePublished
    <2>2. Published(e) \subseteq Published(e)'
      BY <1>0, <1>4 DEF Published
    <2>3. CASE e = d
      <3>1. id \in Published(e)'
        BY <1>0, <1>4, <2>3 DEF Published
      <3> QED BY <1>8, <1>11, <2>1, <2>2, <2>3, <3>1
    <2>4. CASE e # d
      BY <1>10, <2>1, <2>2, <2>4
    <2> QED BY <2>3, <2>4
  <1>14. StaleAged'
    <2> SUFFICES ASSUME NEW e \in Device PROVE stale'[e] \subseteq aged'[e]
      BY DEF StaleAged
    <2>1. stale[e] \subseteq aged[e]
      BY DEF HeadInv, StaleAged
    <2>2. CASE e = d
      BY <1>11, <2>1, <2>2
    <2>3. CASE e # d
      BY <1>10, <2>1, <2>3
    <2> QED BY <2>2, <2>3
  <1>15. \A e \in Device : heard[e] \in Nat /\ copies[e] \in Nat /\ heard[e] <= copies[e]
    BY <1>0 DEF HeadInv, HeardCopied
  <1>16. HeardCopied'
    <2> SUFFICES ASSUME NEW e \in Device PROVE heard[e] <= copies'[e]
      BY <1>4 DEF HeardCopied
    <2>1. copies'[e] = copies[e] \/ copies'[e] = copies[e] + 1
      BY <1>10, <1>11
    <2> QED BY <1>15, <2>1
  <1>17. HeadBacked'
    <2> SUFFICES ASSUME NEW i \in DOMAIN head, NEW e, e = head[i].origin, NEW c, c = head[i].id,
                        c \notin again'[e]
                 PROVE  Backs(order'[e], c, (Len(head) - i) + (copies'[e] - heard[e]))
      BY <1>4 DEF HeadBacked
    <2>1. e \in Device /\ c \in Id
      BY <1>0
    <2>2. c \notin again[e] => Backs(order[e], c, (Len(head) - i) + (copies[e] - heard[e]))
      BY DEF HeadInv, HeadBacked
    <2>3. CASE e = d
      <3>1. i \in 1 .. Len(head) /\ Len(head) \in Nat
        BY <1>0
      <3>2. (Len(head) - i) + (copies[e] - heard[e]) \in Nat
        BY <1>15, <2>1, <3>1
      <3>3. /\ copies[e] \in Nat /\ heard[e] \in Nat /\ copies'[e] = copies[e] + 1
        BY <1>11, <1>15, <2>3
      <3>4. (Len(head) - i) + (copies'[e] - heard[e]) = ((Len(head) - i) + (copies[e] - heard[e])) + 1
        <4>1. \A a, b, x, y \in Int : (a - b) + ((x + 1) - y) = ((a - b) + (x - y)) + 1
          OBVIOUS
        <4>2. i \in Int /\ Len(head) \in Int /\ copies[e] \in Int /\ heard[e] \in Int
          BY <3>1, <3>3
        <4> QED BY <3>3, <4>1, <4>2
      <3>5. Backs(r, c, ((Len(head) - i) + (copies[e] - heard[e])) + 1)
        BY <1>9, <1>11, <2>1, <2>2, <2>3, <3>2 DEF Copied
      <3> QED BY <1>11, <2>3, <3>4, <3>5
    <2>4. CASE e # d
      BY <1>10, <2>1, <2>2, <2>4
    <2> QED BY <2>3, <2>4
  <1>18. OutBacked'
    <2> SUFFICES ASSUME NEW e \in Device
                 PROVE  Announces(out'[e], order'[e], again'[e], heard[e], copies'[e])
      BY <1>4 DEF OutBacked
    <2>1. Announces(out[e], order[e], again[e], heard[e], copies[e])
      BY DEF HeadInv, OutBacked
    <2>2. out[e] \in Seq(Message)
      BY <1>0
    <2>3. CASE e = d /\ conn[d]
      <3>1. out'[e] = Append(out[d], m)
        BY <1>0, <1>7, <2>3
      <3>2. Announces(Append(out[d], m), r, bg, heard[d], copies[d] + 1)
        BY <1>5, <1>9, <1>15, <2>1, <2>2, <2>3, AnnouncesSignal
      <3> QED BY <1>11, <2>3, <3>1, <3>2
    <2>4. CASE e = d /\ ~conn[d]
      <3>1. out'[e] = out[d]
        BY <1>0, <1>7, <2>4
      <3>2. Announces(out[d], r, bg, heard[d], copies[d] + 1)
        BY <1>9, <1>15, <2>1, <2>2, <2>4, AnnouncesCopied
      <3> QED BY <1>11, <2>4, <3>1, <3>2
    <2>5. CASE e # d
      BY <1>10, <2>1, <2>5
    <2> QED BY <2>3, <2>4, <2>5
  <1> QED BY <1>12, <1>13, <1>14, <1>16, <1>17, <1>18 DEF HeadInv

\* Five minutes pass for a body.
LEMMA HeadInvExpire ==
    ASSUME PullTypeOK, HeadInv, NEW d \in Device, NEW id \in Id, ExpireBody(d, id)
    PROVE  HeadInv'
  <1>1. stale \in [Device -> SUBSET Id] /\ aged \in [Device -> SUBSET Id]
    BY HeadTyped
  <1>2. /\ UNCHANGED <<head, order, copies, senders, heard, again, out>>
        /\ stale' = [stale EXCEPT ![d] = stale[d] \cup {id}]
        /\ aged' = [aged EXCEPT ![d] = aged[d] \cup {id}]
    BY DEF ExpireBody, relayVars, netVars
  <1>3. StaleAged'
    BY <1>1, <1>2 DEF HeadInv, StaleAged
  <1>4. OwnSignals' /\ CachePublished' /\ HeardCopied'
    BY <1>2 DEF HeadInv, OwnSignals, CachePublished, HeardCopied, Published
  <1>5. HeadBacked' /\ OutBacked'
    BY <1>2 DEF HeadInv, HeadBacked, OutBacked
  <1> QED BY <1>3, <1>4, <1>5 DEF HeadInv

\* A connection is lost, and what was on its way with it.
LEMMA HeadInvLose ==
    ASSUME PullTypeOK, HeadInv, NEW d \in Device, LoseConnection(d)
    PROVE  HeadInv'
  <1>1. UNCHANGED headState /\ out' = [out EXCEPT ![d] = <<>>]
    BY DEF LoseConnection, relayVars, cacheVars, cacheHistory, headState
  <1>2. PICK o : o = <<>>
    OBVIOUS
  <1>3. o \in Seq(Message) /\ \A k \in DOMAIN o : o[k].type = "signal" => o[k].origin = d
    BY <1>2
  <1>4. Announces(o, order[d], again[d], heard[d], copies[d])
    BY <1>2, AnnouncesNothing
  <1> QED BY <1>1, <1>2, <1>3, <1>4, HeadInvOut

\* A device connects again.
LEMMA HeadInvReconnect ==
    ASSUME HeadInv, NEW d \in Device, Reconnect(d)
    PROVE  HeadInv'
  <1>1. UNCHANGED headState /\ UNCHANGED out
    BY DEF Reconnect, relayVars, cacheVars, pullBounds, pullHistory, cacheHistory, headState
  <1> QED BY <1>1, HeadInvSame

\* The session task sends no signal.
LEMMA HeadInvSession ==
    ASSUME PullTypeOK, HeadInv, NEW d \in Device, SessionStep(d)
    PROVE  HeadInv'
  <1>1. UNCHANGED headState
    BY DEF SessionStep, IgnoreSignal, AskForBody, HearPull, ServeChunk, HearBegin, HearChunk,
       HearReject, relayVars, cacheVars, pullBounds, pullHistory, cacheHistory, headState
  <1>2. CASE IgnoreSignal(d) \/ HearBegin(d) \/ HearChunk(d) \/ HearReject(d)
    <2>1. UNCHANGED out
      BY <1>2 DEF IgnoreSignal, HearBegin, HearChunk, HearReject
    <2> QED BY <1>1, <2>1, HeadInvSame
  <1>3. CASE AskForBody(d)
    <2> DEFINE m == [type |-> "request", id |-> Next1(d).id]
    <2>1. Next1(d) \in Message
      BY <1>3, TookType DEF AskForBody
    <2>2. m \in Message /\ m.type # "signal"
      BY <2>1, MessageFields DEF Message
    <2>3. Send(d, <<m>>)
      BY <1>3 DEF AskForBody
    <2> HIDE DEF m
    <2> QED BY <1>1, <2>2, <2>3, HeadInvSent
  <1>4. CASE HearPull(d)
    <2> DEFINE begin == [type |-> "begin", id |-> Next1(d).id]
               reject == [type |-> "reject", id |-> Next1(d).id]
    <2>1. Next1(d) \in Message
      BY <1>4, TookType DEF HearPull
    <2>2. begin \in Message /\ begin.type # "signal" /\ reject \in Message /\ reject.type # "signal"
      BY <2>1, MessageFields DEF Message
    <2>3. Send(d, <<begin>>) \/ Send(d, <<reject>>)
      BY <1>4 DEF HearPull
    <2> HIDE DEF begin, reject
    <2> QED BY <1>1, <2>2, <2>3, HeadInvSent
  <1>5. CASE ServeChunk(d)
    <2> DEFINE s == serving[d]
               data == [seal |-> s.seal, index |-> s.sent + 1]
               m == [type |-> "chunk", id |-> s.id, data |-> data]
    <2>1. s \in [id : Id, seal : Seal, sent : 0 .. Chunks - 1]
      BY <1>5 DEF PullTypeOK, ServeChunk, Free
    <2>2. Send(d, <<m>>)
      BY <1>5 DEF ServeChunk
    <2> HIDE DEF s
    <2>3. s.sent + 1 \in 1 .. Chunks
      BY <2>1, PullAssumption
    <2>4. data \in Chunk
      BY <2>1, <2>3 DEF Chunk
    <2> HIDE DEF data
    <2>5. m \in Message /\ m.type # "signal"
      BY <2>1, <2>4 DEF Message
    <2> HIDE DEF m
    <2> QED BY <1>1, <2>2, <2>5, HeadInvSent
  <1> QED BY <1>2, <1>3, <1>4, <1>5 DEF SessionStep

LEMMA HeadInvInit == PullInit => HeadInv
  <1> SUFFICES ASSUME PullInit PROVE HeadInv
    OBVIOUS
  <1>1. /\ head = <<>> /\ out = [d \in Device |-> <<>>] /\ order = [d \in Device |-> <<>>]
        /\ stale = [d \in Device |-> {}] /\ copies = [d \in Device |-> 0]
        /\ heard = [d \in Device |-> 0]
    BY DEF PullInit
  <1>2. OwnSignals /\ CachePublished /\ StaleAged /\ HeardCopied /\ HeadBacked
    BY <1>1 DEF OwnSignals, CachePublished, StaleAged, HeardCopied, HeadBacked, Kept
  <1>3. OutBacked
    BY <1>1, AnnouncesNothing DEF OutBacked
  <1> QED BY <1>2, <1>3 DEF HeadInv

LEMMA HeadInvStep == PullTypeOK /\ HeadInv /\ [PullNext]_pullVars => HeadInv'
  <1> SUFFICES ASSUME PullTypeOK, HeadInv, [PullNext]_pullVars PROVE HeadInv'
    OBVIOUS
  <1>1. CASE UNCHANGED pullVars
    <2>1. UNCHANGED headState /\ UNCHANGED out
      BY <1>1 DEF pullVars, relayVars, netVars, cacheVars, pullBounds, pullHistory, cacheHistory,
         headState
    <2> QED BY <2>1, HeadInvSame
  <1> QED BY <1>1, HeadInvPublish, HeadInvExpire, HeadInvSession, HeadInvRelay, HeadInvLose,
          HeadInvReconnect DEF PullNext

\* A clip with fewer after it than the cache has places has its body there.
LEMMA HeadInvServes == PullTypeOK /\ HeadInv => HeadsServable
  <1> SUFFICES ASSUME PullTypeOK, HeadInv, NEW i \in DOMAIN head,
                      NEW d, d = head[i].origin, NEW id, id = head[i].id
               PROVE  /\ (Len(head) - i) + (copies[d] - heard[d]) < CacheItems /\ id \notin again[d]
                           => id \in Kept(order[d])
                      /\ id \in Kept(order[d]) \ aged[d] => Servable(d, id)
    BY DEF HeadsServable
  <1>1. /\ head \in Seq(Signal) /\ copies \in [Device -> Nat] /\ heard \in [Device -> Nat]
        /\ d \in Device
    BY HeadTyped
  <1>2. PICK b : b = (Len(head) - i) + (copies[d] - heard[d])
    OBVIOUS
  <1>3. ASSUME b < CacheItems, id \notin again[d] PROVE id \in Kept(order[d])
    <2>1. Backs(order[d], id, b)
      BY <1>2, <1>3 DEF HeadInv, HeadBacked
    <2>2. b \in Int /\ CacheItems \in Int
      <3>1. i \in Int /\ Len(head) \in Int /\ copies[d] \in Int /\ heard[d] \in Int
        BY <1>1
      <3> QED BY <1>2, <3>1, PullAssumption
    <2>3. ~(b >= CacheItems)
      BY <1>3, <2>2
    <2> QED BY <2>1, <2>3 DEF Backs, Kept
  <1>4. id \in Kept(order[d]) \ aged[d] => Servable(d, id)
    BY <1>1 DEF HeadInv, StaleAged, Servable
  <1> QED BY <1>2, <1>3, <1>4

\* HeadsServable, for caches of any sizes, any number of devices and clips, and however
\* many breaks: the send cache of its origin has the body of a clip the relay names while
\* the clips that device copied after it, whether or not their signals came through, are
\* fewer than the cache has places, and serves it until it is five minutes old; a clip
\* copied again while cached keeps its old place and is left out.
THEOREM HeadsServableAlways == PullSpec => []HeadsServable
  BY PullTypeInit, PullTypeStep, HeadInvInit, HeadInvStep, HeadInvServes, PTL DEF PullSpec

-----------------------------------------------------------------------------
(* WholeUnlessCrossed: the chunks of a body on their way to a requester.   *)

\* A message of a body on its way.
Of(m, id) == m.type \in {"begin", "chunk", "reject"} /\ m.id = id

ChunkOf(m, id) == m.type = "chunk" /\ m.id = id

\* What may come just before a chunk: its predecessor, or what empties the buffer.
Before(m, c) ==
    \/ m.type = "begin" /\ c.index = 1
    \/ m.type = "chunk" /\ m.data.seal = c.seal /\ m.data.index + 1 = c.index
    \/ m.type = "reject"

\* A chunk that can be added to a buffer, or that nobody adds.
Fits(buffer, c) ==
    \/ buffer = None
    \/ /\ Whole(buffer)
       /\ c.index = Len(buffer) + 1
       /\ buffer # <<>> => c.seal = buffer[1].seal

\* There is nothing of the body among the first n messages of q; or a chunk may
\* follow the last there is.
Clear(q, n, id) == \A j \in 1 .. n : ~Of(q[j], id)

Follows(q, n, id, c) ==
    \A j \in 1 .. n : Of(q[j], id) /\ (\A l \in j + 1 .. n : ~Of(q[l], id)) => Before(q[j], c)

\* A chunk may follow the first n messages of q, when those of next may come before
\* anything of the body in q.
Comes(q, next, n, id, c) ==
    Follows(q, n, id, c) /\ (Clear(q, n, id) => c \in next)

\* The chunks that may follow q.
After(q, next, id) == {c \in Chunk : Comes(q, next, Len(q), id, c)}

\* Each chunk of q may follow what is before it.
Orderly(q, next, id) ==
    \A k \in DOMAIN q : ChunkOf(q[k], id) => Comes(q, next, k - 1, id, q[k].data)

Fitting(buffer) == {c \in Chunk : Fits(buffer, c)}

\* The chunks that may be the next to come to d, and the next the relay passes on.
Arriving(d, id) == After(down[d], Fitting(fetches[d][id]), id)

Passing(id) ==
    IF puller[id] = None \/ <<puller[id], id>> \in crossed THEN Chunk ELSE Arriving(puller[id], id)

\* The chunk a device sends next.
NextChunk(s) == [seal |-> serving[s].seal, index |-> serving[s].sent + 1]

Sole(id) == \A a, b \in senders[id] : a = b

DownOrderly(id) ==
    \A d \in Device : <<d, id>> \notin crossed => Orderly(down[d], Fitting(fetches[d][id]), id)

\* Who asked last and was refused has nothing left of the body.
Blank(id) ==
    puller[id] = None
        => \A d \in Device : asker[id] \in {None, d} /\ <<d, id>> \notin crossed
              => Chunk \subseteq Arriving(d, id)

OutOrderly(id) == \A s \in Device : Orderly(out[s], Passing(id), id)

ServingOrderly(id) ==
    \A s \in Device : serving[s] # None /\ serving[s].id = id
        => NextChunk(s) \in After(out[s], Passing(id), id)

NoneGarbled(id) == \A d \in Device : <<d, id>> \in garbled => <<d, id>> \in crossed

BodyOrderly(id) ==
    DownOrderly(id) /\ Blank(id) /\ OutOrderly(id) /\ ServingOrderly(id) /\ NoneGarbled(id)

PullerAsked == \A id \in Id : puller[id] \in {None, asker[id]}

OffEmpty ==
    \A d \in Device : ~conn[d] => down[d] = <<>> /\ fetches[d] = NoFetch /\ serving[d] = None

SendersServe ==
    \A s \in Device :
        /\ \A k \in DOMAIN out[s] : out[s][k].type \in {"begin", "chunk"} => s \in senders[out[s][k].id]
        /\ serving[s] # None => s \in senders[serving[s].id]

SendersFinite == \A id \in Id : IsFiniteSet(senders[id])

WholeInv ==
    /\ PullerAsked /\ OffEmpty /\ SendersServe /\ SendersFinite
    /\ \A id \in Id : Sole(id) => BodyOrderly(id)

\* One more message leaves what is before it as it was.
LEMMA FollowsSent ==
    ASSUME NEW q \in Seq(Message), NEW m \in Message, NEW n \in 0 .. Len(q), NEW id, NEW c
    PROVE  /\ Follows(Append(q, m), n, id, c) <=> Follows(q, n, id, c)
           /\ Clear(Append(q, m), n, id) <=> Clear(q, n, id)
  <1> DEFINE u == Append(q, m)
  <1>1. \A j \in 1 .. n : u[j] = q[j]
    OBVIOUS
  <1>2. \A j \in 1 .. n : \A l \in j + 1 .. n : l \in 1 .. n
    OBVIOUS
  <1> HIDE DEF u
  <1> QED BY <1>1, <1>2 DEF Follows, Clear, u

\* One that has nothing to do with the body changes nothing for it.
LEMMA FollowsOther ==
    ASSUME NEW q \in Seq(Message), NEW m \in Message, NEW id, ~Of(m, id), NEW c
    PROVE  /\ Follows(q, Len(q), id, c) => Follows(Append(q, m), Len(q) + 1, id, c)
           /\ Clear(Append(q, m), Len(q) + 1, id) => Clear(q, Len(q), id)
  <1> DEFINE u == Append(q, m)
             n == Len(q)
  <1>1. /\ n \in Nat /\ u[n + 1] = m
        /\ \A j \in 1 .. n + 1 : j # n + 1 => j \in 1 .. n /\ u[j] = q[j]
        /\ \A j \in 1 .. n : j \in 1 .. n + 1 /\ u[j] = q[j]
    OBVIOUS
  <1>2. \A j \in 1 .. n : \A l \in j + 1 .. n : l \in j + 1 .. n + 1 /\ u[l] = q[l]
    OBVIOUS
  <1> HIDE DEF u, n
  <1>3. ASSUME Follows(q, n, id, c), NEW j \in 1 .. n + 1, Of(u[j], id),
               \A l \in j + 1 .. n + 1 : ~Of(u[l], id)
        PROVE  Before(u[j], c)
    <2>1. j \in 1 .. n /\ u[j] = q[j]
      BY <1>1, <1>3
    <2>2. \A l \in j + 1 .. n : ~Of(q[l], id)
      BY <1>2, <1>3, <2>1
    <2> QED BY <1>3, <2>1, <2>2 DEF Follows
  <1>4. Clear(u, n + 1, id) => Clear(q, n, id)
    BY <1>1 DEF Clear
  <1> QED BY <1>3, <1>4 DEF Follows, u, n

\* One of the body is what the next chunk follows.
LEMMA FollowsLast ==
    ASSUME NEW q \in Seq(Message), NEW m \in Message, NEW id, Of(m, id), NEW c, Before(m, c)
    PROVE  /\ Follows(Append(q, m), Len(q) + 1, id, c)
           /\ ~Clear(Append(q, m), Len(q) + 1, id)
  <1> DEFINE u == Append(q, m)
             n == Len(q)
  <1>1. n \in Nat /\ u[n + 1] = m /\ n + 1 \in 1 .. n + 1
    OBVIOUS
  <1>2. \A j \in 1 .. n + 1 : j # n + 1 => n + 1 \in j + 1 .. n + 1
    BY <1>1
  <1> HIDE DEF u, n
  <1>3. ~Clear(u, n + 1, id)
    BY <1>1 DEF Clear
  <1>4. Follows(u, n + 1, id, c)
    BY <1>1, <1>2 DEF Follows
  <1> QED BY <1>3, <1>4 DEF u, n

\* The first message is taken: one that has nothing to do with the body.
LEMMA FollowsTailOther ==
    ASSUME NEW q \in Seq(Message), q # <<>>, NEW n \in 1 .. Len(q), NEW id, ~Of(Head(q), id), NEW c
    PROVE  /\ Follows(q, n, id, c) => Follows(Tail(q), n - 1, id, c)
           /\ Clear(Tail(q), n - 1, id) => Clear(q, n, id)
  <1> DEFINE u == Tail(q)
  <1>1. /\ n \in Nat /\ n >= 1 /\ q[1] = Head(q)
        /\ \A j \in 1 .. n - 1 : j + 1 \in 1 .. n /\ u[j] = q[j + 1]
        /\ \A j \in 1 .. n : j # 1 => j - 1 \in 1 .. n - 1 /\ u[j - 1] = q[j]
    OBVIOUS
  <1>2. \A j \in 1 .. n - 1 : \A l \in (j + 1) + 1 .. n : l - 1 \in j + 1 .. n - 1 /\ u[l - 1] = q[l]
    OBVIOUS
  <1> HIDE DEF u
  <1>3. ASSUME Follows(q, n, id, c), NEW j \in 1 .. n - 1, Of(u[j], id),
               \A l \in j + 1 .. n - 1 : ~Of(u[l], id)
        PROVE  Before(u[j], c)
    <2>1. j + 1 \in 1 .. n /\ u[j] = q[j + 1]
      BY <1>1
    <2>2. \A l \in (j + 1) + 1 .. n : ~Of(q[l], id)
      BY <1>2, <1>3
    <2> QED BY <1>3, <2>1, <2>2 DEF Follows
  <1>4. Clear(u, n - 1, id) => Clear(q, n, id)
    BY <1>1 DEF Clear
  <1> QED BY <1>3, <1>4 DEF Follows, u

\* The first message is taken, and it is one of the body.
LEMMA FollowsTailOf ==
    ASSUME NEW q \in Seq(Message), q # <<>>, NEW n \in 1 .. Len(q), NEW id, Of(Head(q), id), NEW c,
           Follows(q, n, id, c)
    PROVE  /\ Follows(Tail(q), n - 1, id, c)
           /\ Clear(Tail(q), n - 1, id) => Before(Head(q), c)
  <1> DEFINE u == Tail(q)
  <1>1. /\ n \in Nat /\ n >= 1 /\ q[1] = Head(q) /\ 1 \in 1 .. n
        /\ \A j \in 1 .. n - 1 : j + 1 \in 1 .. n /\ u[j] = q[j + 1]
        /\ \A j \in 1 + 1 .. n : j - 1 \in 1 .. n - 1 /\ u[j - 1] = q[j]
    OBVIOUS
  <1>2. \A j \in 1 .. n - 1 : \A l \in (j + 1) + 1 .. n : l - 1 \in j + 1 .. n - 1 /\ u[l - 1] = q[l]
    OBVIOUS
  <1> HIDE DEF u
  <1>3. ASSUME NEW j \in 1 .. n - 1, Of(u[j], id), \A l \in j + 1 .. n - 1 : ~Of(u[l], id)
        PROVE  Before(u[j], c)
    <2>1. j + 1 \in 1 .. n /\ u[j] = q[j + 1]
      BY <1>1
    <2>2. \A l \in (j + 1) + 1 .. n : ~Of(q[l], id)
      BY <1>2, <1>3
    <2> QED BY <1>3, <2>1, <2>2 DEF Follows
  <1>4. ASSUME Clear(u, n - 1, id) PROVE Before(Head(q), c)
    <2>1. \A l \in 1 + 1 .. n : ~Of(q[l], id)
      BY <1>1, <1>4 DEF Clear
    <2> QED BY <1>1, <2>1 DEF Follows
  <1> QED BY <1>3, <1>4 DEF Follows, u

\* Nothing precedes the first message.
LEMMA FollowsNothing ==
    ASSUME NEW q, NEW id, NEW c
    PROVE  Follows(q, 0, id, c) /\ Clear(q, 0, id)
  BY DEF Follows, Clear

\* A chunk that fits leaves a whole buffer that ends with it.
LEMMA WholeTakes ==
    ASSUME NEW buffer \in Seq(Chunk), buffer # None, NEW x \in Chunk, Fits(buffer, x)
    PROVE  /\ Whole(Append(buffer, x)) /\ Append(buffer, x) # <<>>
           /\ Len(Append(buffer, x)) = x.index
           /\ Append(buffer, x)[1].seal = x.seal
  <1> DEFINE new == Append(buffer, x)
  <1>1. Whole(buffer) /\ x.index = Len(buffer) + 1 /\ (buffer # <<>> => x.seal = buffer[1].seal)
    BY DEF Fits
  <1>2. /\ Len(new) = Len(buffer) + 1 /\ Len(buffer) \in Nat
        /\ DOMAIN new = 1 .. Len(buffer) + 1 /\ DOMAIN buffer = 1 .. Len(buffer)
        /\ \A i \in 1 .. Len(buffer) : new[i] = buffer[i]
        /\ new[Len(buffer) + 1] = x
    OBVIOUS
  <1> HIDE DEF new
  <1>3. new[1].seal = x.seal /\ new # <<>>
    <2>1. CASE buffer = <<>>
      BY <1>2, <2>1
    <2>2. CASE buffer # <<>>
      <3>1. Len(buffer) >= 1
        BY <1>2, <2>2
      <3> QED BY <1>1, <1>2, <2>2, <3>1
    <2> QED BY <2>1, <2>2
  <1>4. x = [seal |-> x.seal, index |-> Len(buffer) + 1]
    BY <1>1 DEF Chunk
  <1>5. Whole(new)
    <2> SUFFICES ASSUME NEW i \in DOMAIN new PROVE new[i] = [seal |-> new[1].seal, index |-> i]
      BY DEF Whole
    <2>1. CASE i = Len(buffer) + 1
      BY <1>2, <1>3, <1>4, <2>1
    <2>2. CASE i # Len(buffer) + 1
      <3>1. i \in 1 .. Len(buffer) /\ new[i] = buffer[i] /\ buffer # <<>> /\ new[1] = buffer[1]
        BY <1>2, <2>2
      <3> QED BY <1>1, <1>2, <3>1 DEF Whole
    <2> QED BY <2>1, <2>2
  <1> QED BY <1>1, <1>2, <1>3, <1>5 DEF new

\* What a message of the body makes of the buffer, for the chunk that follows it.
LEMMA BufferTakes ==
    ASSUME NEW buffer \in Seq(Chunk) \cup {None}, NEW new, NEW m \in Message, NEW c \in Chunk,
           Before(m, c),
           m.type = "chunk" => Fits(buffer, m.data),
           m.type = "begin" => new = <<>>,
           m.type = "reject" => new = None,
           m.type = "chunk" => new = None \/ (buffer # None /\ new = Append(buffer, m.data))
    PROVE  Fits(new, c)
  <1>1. CASE m.type = "begin"
    <2>1. new = <<>> /\ c.index = 1
      BY <1>1 DEF Before
    <2> QED BY <2>1 DEF Fits, Whole
  <1>2. CASE m.type = "reject"
    BY <1>2 DEF Fits
  <1>3. CASE m.type = "chunk"
    <2>1. CASE new = None
      BY <2>1 DEF Fits
    <2>2. CASE buffer # None /\ new = Append(buffer, m.data)
      <3> DEFINE x == m.data
      <3>1. x \in Chunk /\ buffer \in Seq(Chunk) /\ Fits(buffer, x)
        BY <1>3, <2>2, MessageFields
      <3>2. x.seal = c.seal /\ x.index + 1 = c.index
        BY <1>3 DEF Before
      <3>3. new = Append(buffer, x)
        BY <2>2
      <3> HIDE DEF x
      <3>4. Whole(new) /\ new # <<>> /\ Len(new) = x.index /\ new[1].seal = x.seal
        BY <2>2, <3>1, <3>3, WholeTakes
      <3> QED BY <3>2, <3>4 DEF Fits
    <2> QED BY <1>3, <2>1, <2>2
  <1> QED BY <1>1, <1>2, <1>3 DEF Before

\* More chunks may come first.
LEMMA OrderlyMore ==
    ASSUME NEW q, NEW next, NEW more, next \cap Chunk \subseteq more, NEW id,
           \A k \in DOMAIN q : ChunkOf(q[k], id) => q[k].data \in Chunk
    PROVE  /\ Orderly(q, next, id) => Orderly(q, more, id)
           /\ After(q, next, id) \subseteq After(q, more, id)
  <1>1. \A n, c : c \in Chunk /\ Comes(q, next, n, id, c) => Comes(q, more, n, id, c)
    BY DEF Comes
  <1> QED BY <1>1 DEF Orderly, After

\* One more message that has nothing to do with the body.
LEMMA OrderlyOther ==
    ASSUME NEW q \in Seq(Message), NEW m \in Message, NEW next, NEW id, ~Of(m, id)
    PROVE  /\ Orderly(q, next, id) => Orderly(Append(q, m), next, id)
           /\ After(q, next, id) \subseteq After(Append(q, m), next, id)
  <1> DEFINE u == Append(q, m)
  <1>1. /\ Len(q) \in Nat /\ Len(u) = Len(q) + 1 /\ u[Len(q) + 1] = m
        /\ DOMAIN u = DOMAIN q \cup {Len(q) + 1}
        /\ \A k \in DOMAIN q : u[k] = q[k] /\ k - 1 \in 0 .. Len(q)
    OBVIOUS
  <1>2. \A n \in 0 .. Len(q) : \A c : Comes(q, next, n, id, c) => Comes(u, next, n, id, c)
    BY FollowsSent DEF Comes
  <1>3. \A c : Comes(q, next, Len(q), id, c) => Comes(u, next, Len(q) + 1, id, c)
    BY FollowsOther DEF Comes
  <1> HIDE DEF u
  <1>4. ~ChunkOf(m, id)
    BY DEF Of, ChunkOf
  <1>5. Orderly(q, next, id) => Orderly(u, next, id)
    BY <1>1, <1>2, <1>4 DEF Orderly
  <1>6. After(q, next, id) \subseteq After(u, next, id)
    BY <1>1, <1>3 DEF After
  <1> QED BY <1>5, <1>6 DEF u

\* One more message of the body, which may come there.
LEMMA OrderlyOf ==
    ASSUME NEW q \in Seq(Message), NEW m \in Message, NEW next, NEW id, Of(m, id),
           Orderly(q, next, id), ChunkOf(m, id) => m.data \in After(q, next, id)
    PROVE  /\ Orderly(Append(q, m), next, id)
           /\ \A c \in Chunk : Before(m, c) => c \in After(Append(q, m), next, id)
  <1> DEFINE u == Append(q, m)
  <1>1. /\ Len(q) \in Nat /\ Len(u) = Len(q) + 1 /\ u[Len(q) + 1] = m
        /\ DOMAIN u = DOMAIN q \cup {Len(q) + 1}
        /\ \A k \in DOMAIN q : u[k] = q[k] /\ k - 1 \in 0 .. Len(q)
        /\ (Len(q) + 1) - 1 = Len(q) /\ Len(q) \in 0 .. Len(q)
    OBVIOUS
  <1>2. \A n \in 0 .. Len(q) : \A c : Comes(q, next, n, id, c) => Comes(u, next, n, id, c)
    BY FollowsSent DEF Comes
  <1>3. \A c : Before(m, c) => Comes(u, next, Len(q) + 1, id, c)
    BY FollowsLast DEF Comes
  <1> HIDE DEF u
  <1>4. Orderly(u, next, id)
    <2> SUFFICES ASSUME NEW k \in DOMAIN u, ChunkOf(u[k], id)
                 PROVE  Comes(u, next, k - 1, id, u[k].data)
      BY DEF Orderly
    <2>1. CASE k \in DOMAIN q
      BY <1>1, <1>2, <2>1 DEF Orderly
    <2>2. CASE k = Len(q) + 1
      <3>1. Comes(q, next, Len(q), id, m.data)
        BY <1>1, <2>2 DEF After
      <3> QED BY <1>1, <1>2, <2>2, <3>1
    <2> QED BY <1>1, <2>1, <2>2
  <1>5. \A c \in Chunk : Before(m, c) => c \in After(u, next, id)
    BY <1>1, <1>3 DEF After
  <1> QED BY <1>4, <1>5 DEF u

\* The first chunk of a queue is one that may come first.
LEMMA OrderlyFirst ==
    ASSUME NEW q \in Seq(Message), q # <<>>, NEW next, NEW id, Orderly(q, next, id),
           ChunkOf(Head(q), id)
    PROVE  Head(q).data \in next
  <1>1. 1 \in DOMAIN q /\ q[1] = Head(q) /\ 1 - 1 = 0
    OBVIOUS
  <1>2. Comes(q, next, 0, id, Head(q).data)
    BY <1>1 DEF Orderly
  <1> QED BY <1>2, FollowsNothing DEF Comes

\* The first message is taken; more allows what may follow it.
LEMMA OrderlyTaken ==
    ASSUME NEW q \in Seq(Message), q # <<>>, NEW next, NEW more, NEW id, Orderly(q, next, id),
           ~Of(Head(q), id) => next \cap Chunk \subseteq more,
           Of(Head(q), id) => \A c \in Chunk : Before(Head(q), c) => c \in more
    PROVE  /\ Orderly(Tail(q), more, id)
           /\ After(q, next, id) \subseteq After(Tail(q), more, id)
  <1> DEFINE u == Tail(q)
  <1>1. /\ Len(q) \in Nat /\ Len(q) >= 1 /\ Len(u) = Len(q) - 1 /\ Len(q) \in 1 .. Len(q)
        /\ \A k \in DOMAIN u : /\ k + 1 \in DOMAIN q /\ u[k] = q[k + 1]
                               /\ k \in 1 .. Len(q) /\ (k + 1) - 1 = k
    OBVIOUS
  <1>2. \A n \in 1 .. Len(q), c \in Chunk :
           Comes(q, next, n, id, c) => Comes(u, more, n - 1, id, c)
    <2> SUFFICES ASSUME NEW n \in 1 .. Len(q), NEW c \in Chunk, Comes(q, next, n, id, c)
                 PROVE  Comes(u, more, n - 1, id, c)
      OBVIOUS
    <2>1. CASE Of(Head(q), id)
      BY <2>1, FollowsTailOf DEF Comes
    <2>2. CASE ~Of(Head(q), id)
      BY <2>2, FollowsTailOther DEF Comes
    <2> QED BY <2>1, <2>2
  <1> HIDE DEF u
  <1>3. Orderly(u, more, id)
    <2> SUFFICES ASSUME NEW k \in DOMAIN u, ChunkOf(u[k], id)
                 PROVE  Comes(u, more, k - 1, id, u[k].data)
      BY DEF Orderly
    <2>1. Comes(q, next, k, id, q[k + 1].data)
      BY <1>1 DEF Orderly
    <2>2. q[k + 1] \in Message
      BY <1>1
    <2>3. q[k + 1].data \in Chunk
      BY <1>1, <2>2, MessageFields DEF ChunkOf
    <2> QED BY <1>1, <1>2, <2>1, <2>3
  <1>4. After(q, next, id) \subseteq After(u, more, id)
    BY <1>1, <1>2 DEF After
  <1> QED BY <1>3, <1>4 DEF u

\* Nothing is in an empty queue.
LEMMA OrderlyEmpty ==
    ASSUME NEW next, NEW id
    PROVE  Orderly(<<>>, next, id) /\ After(<<>>, next, id) = next \cap Chunk
  <1>1. Orderly(<<>>, next, id)
    BY DEF Orderly
  <1>2. \A c : Comes(<<>>, next, 0, id, c) <=> c \in next
    BY FollowsNothing DEF Comes
  <1> QED BY <1>1, <1>2 DEF After

-----------------------------------------------------------------------------
(* What a device hears.                                                    *)

\* The chunks under way to d are as orderly as they were, and what could come can
\* still come.
ArrivalsKept(d, id) ==
    Orderly(down[d], Fitting(fetches[d][id]), id)
        => /\ Orderly(down'[d], Fitting(fetches'[d][id]), id)
           /\ Arriving(d, id) \subseteq After(down'[d], Fitting(fetches'[d][id]), id)

\* A device takes a message and makes of its buffer what the message says.
LEMMA ArrivalsTaken ==
    ASSUME PullTypeOK, NEW d \in Device, NEW id \in Id, down[d] # <<>>, Took(d),
           ~Of(Next1(d), id) => fetches'[d][id] = fetches[d][id],
           Of(Next1(d), id)
             => /\ Next1(d).type = "begin" => fetches'[d][id] = <<>>
                /\ Next1(d).type = "reject" => fetches'[d][id] = None
                /\ Next1(d).type = "chunk"
                     => \/ fetches'[d][id] = None
                        \/ /\ fetches[d][id] # None
                           /\ fetches'[d][id] = Append(fetches[d][id], Next1(d).data)
    PROVE  ArrivalsKept(d, id)
  <1> DEFINE q == down[d]
             m == Head(down[d])
             buffer == fetches[d][id]
             new == fetches'[d][id]
  <1>1. q \in Seq(Message) /\ q # <<>> /\ buffer \in Seq(Chunk) \cup {None} /\ down'[d] = Tail(q)
    BY DEF PullTypeOK, Took
  <1>2. m \in Message
    BY <1>1, QueueType
  <1>3. /\ ~Of(m, id) => new = buffer
        /\ Of(m, id)
             => /\ m.type = "begin" => new = <<>>
                /\ m.type = "reject" => new = None
                /\ m.type = "chunk" => new = None \/ (buffer # None /\ new = Append(buffer, m.data))
    BY DEF Next1
  <1> HIDE DEF q, m, buffer, new
  <1>4. SUFFICES ASSUME Orderly(q, Fitting(buffer), id)
                 PROVE  /\ Orderly(Tail(q), Fitting(new), id)
                        /\ After(q, Fitting(buffer), id) \subseteq After(Tail(q), Fitting(new), id)
    BY <1>1 DEF ArrivalsKept, Arriving, q, buffer, new
  <1>5. Of(m, id) /\ m.type = "chunk" => Fits(buffer, m.data)
    BY <1>1, <1>4, OrderlyFirst DEF m, q, Of, ChunkOf, Fitting
  <1>6. Of(m, id) => \A c \in Chunk : Before(m, c) => c \in Fitting(new)
    <2> SUFFICES ASSUME Of(m, id), NEW c \in Chunk, Before(m, c) PROVE Fits(new, c)
      BY DEF Fitting
    <2> QED BY <1>1, <1>2, <1>3, <1>5, BufferTakes
  <1>7. ~Of(m, id) => Fitting(buffer) \cap Chunk \subseteq Fitting(new)
    BY <1>3
  <1> QED BY <1>1, <1>4, <1>6, <1>7, OrderlyTaken DEF m, q

LEMMA ChunkData ==
    ASSUME NEW q \in Seq(Message), NEW id
    PROVE  \A k \in DOMAIN q : ChunkOf(q[k], id) => q[k].data \in Chunk
  <1>1. \A k \in DOMAIN q : q[k] \in Message
    OBVIOUS
  <1> QED BY <1>1, MessageFields DEF ChunkOf

\* What d has and hears is as it was.
LEMMA ArrivalsSame ==
    ASSUME NEW d, NEW id, down'[d] = down[d], fetches'[d][id] = fetches[d][id]
    PROVE  ArrivalsKept(d, id)
  BY DEF ArrivalsKept, Arriving

\* Who is asked for and who asked being the same, the relay can pass on what it could.
LEMMA PassingKept ==
    ASSUME PullTypeOK, NEW id \in Id, puller'[id] = puller[id], asker'[id] = asker[id],
           \A d \in Device : <<d, id>> \in crossed' <=> <<d, id>> \in crossed,
           \A d \in Device : ArrivalsKept(d, id), DownOrderly(id), Blank(id)
    PROVE  DownOrderly(id)' /\ Blank(id)' /\ Passing(id) \subseteq Passing(id)'
  <1>1. \A d \in Device : <<d, id>> \notin crossed =>
           /\ Orderly(down'[d], Fitting(fetches'[d][id]), id)
           /\ Arriving(d, id) \subseteq Arriving(d, id)'
    BY DEF DownOrderly, ArrivalsKept, Arriving
  <1>2. DownOrderly(id)'
    BY <1>1 DEF DownOrderly
  <1>3. Blank(id)'
    <2> SUFFICES ASSUME puller'[id] = None, NEW d \in Device, asker'[id] \in {None, d},
                        <<d, id>> \notin crossed'
                 PROVE  Chunk \subseteq Arriving(d, id)'
      BY DEF Blank
    <2>1. Chunk \subseteq Arriving(d, id)
      BY DEF Blank
    <2> QED BY <1>1, <2>1
  <1>4. Passing(id) \subseteq Passing(id)'
    <2>0. puller[id] \in Device \cup {None}
      BY DEF PullTypeOK
    <2>1. CASE puller[id] = None \/ <<puller[id], id>> \in crossed
      <3>1. puller'[id] = None \/ <<puller'[id], id>> \in crossed'
        BY <2>0, <2>1
      <3>2. Passing(id) = Chunk /\ Passing(id)' = Chunk
        BY <2>1, <3>1 DEF Passing
      <3> QED BY <3>2
    <2>2. CASE puller[id] # None /\ <<puller[id], id>> \notin crossed
      <3>1. Passing(id) = Arriving(puller[id], id)
        BY <2>2 DEF Passing
      <3>2. puller'[id] # None /\ <<puller'[id], id>> \notin crossed' /\ puller[id] \in Device
        BY <2>0, <2>2
      <3>3. Passing(id)' = Arriving(puller[id], id)'
        BY <3>2 DEF Passing, Arriving
      <3> QED BY <1>1, <2>2, <3>1, <3>2, <3>3
    <2> QED BY <2>1, <2>2
  <1> QED BY <1>2, <1>3, <1>4

\* Nothing is sent.
LEMMA OutKept ==
    ASSUME PullTypeOK, NEW id \in Id, UNCHANGED <<out, serving>>,
           Passing(id) \subseteq Passing(id)', OutOrderly(id), ServingOrderly(id)
    PROVE  OutOrderly(id)' /\ ServingOrderly(id)'
  <1>1. \A s \in Device : out[s] \in Seq(Message)
    BY DEF PullTypeOK
  <1>2. \A s \in Device : /\ Orderly(out[s], Passing(id), id) => Orderly(out[s], Passing(id)', id)
                          /\ After(out[s], Passing(id), id) \subseteq After(out[s], Passing(id)', id)
    BY <1>1, ChunkData, OrderlyMore
  <1>3. OutOrderly(id)'
    BY <1>2 DEF OutOrderly
  <1>4. ServingOrderly(id)'
    <2> SUFFICES ASSUME NEW s \in Device, serving'[s] # None, serving'[s].id = id
                 PROVE  NextChunk(s)' \in After(out'[s], Passing(id)', id)
      BY DEF ServingOrderly
    <2>1. NextChunk(s)' = NextChunk(s) /\ serving[s] # None /\ serving[s].id = id
      BY DEF NextChunk
    <2> QED BY <1>2, <2>1 DEF ServingOrderly
  <1> QED BY <1>3, <1>4

\* A message is sent that has nothing to do with the body.
LEMMA OutKeptOther ==
    ASSUME PullTypeOK, NEW id \in Id, NEW d \in Device, NEW m \in Message, ~Of(m, id),
           Send(d, <<m>>), UNCHANGED conn,
           \A s \in Device : serving'[s] # None /\ serving'[s].id = id => serving'[s] = serving[s],
           Passing(id) \subseteq Passing(id)', OutOrderly(id), ServingOrderly(id)
    PROVE  OutOrderly(id)' /\ ServingOrderly(id)'
  <1>1. out \in [Device -> Seq(Message)]
    BY DEF PullTypeOK
  <1>2. \A s \in Device : /\ Orderly(out[s], Passing(id), id) => Orderly(out[s], Passing(id)', id)
                          /\ After(out[s], Passing(id), id) \subseteq After(out[s], Passing(id)', id)
    BY <1>1, ChunkData, OrderlyMore
  <1>3. out' = [out EXCEPT ![d] = IF conn[d] THEN Append(out[d], m) ELSE out[d]]
    BY SentOne
  <1>4. ASSUME NEW s \in Device
        PROVE  /\ Orderly(out[s], Passing(id)', id) => Orderly(out'[s], Passing(id)', id)
               /\ After(out[s], Passing(id)', id) \subseteq After(out'[s], Passing(id)', id)
    <2>1. CASE out'[s] = out[s]
      BY <2>1
    <2>2. CASE out'[s] = Append(out[s], m)
      <3>1. out[s] \in Seq(Message)
        BY <1>1
      <3> QED BY <2>2, <3>1, OrderlyOther
    <2> QED BY <1>1, <1>3, <2>1, <2>2
  <1>5. OutOrderly(id)'
    BY <1>2, <1>4 DEF OutOrderly
  <1>6. ServingOrderly(id)'
    <2> SUFFICES ASSUME NEW s \in Device, serving'[s] # None, serving'[s].id = id
                 PROVE  NextChunk(s)' \in After(out'[s], Passing(id)', id)
      BY DEF ServingOrderly
    <2>1. NextChunk(s)' = NextChunk(s) /\ serving[s] # None /\ serving[s].id = id
      BY DEF NextChunk
    <2> QED BY <1>2, <1>4, <2>1 DEF ServingOrderly
  <1> QED BY <1>5, <1>6

\* A message of the body is sent by a device that has a session.
LEMMA OutKeptOf ==
    ASSUME PullTypeOK, NEW id \in Id, NEW d \in Device, NEW m \in Message, Of(m, id),
           Send(d, <<m>>), conn[d],
           ChunkOf(m, id) => m.data \in After(out[d], Passing(id), id),
           \A s \in Device : serving'[s] # None /\ serving'[s].id = id
              => \/ s # d /\ serving'[s] = serving[s]
                 \/ s = d /\ NextChunk(d)' \in Chunk /\ Before(m, NextChunk(d)'),
           Passing(id) \subseteq Passing(id)', OutOrderly(id), ServingOrderly(id)
    PROVE  OutOrderly(id)' /\ ServingOrderly(id)'
  <1>1. out \in [Device -> Seq(Message)]
    BY DEF PullTypeOK
  <1>2. \A s \in Device : /\ Orderly(out[s], Passing(id), id) => Orderly(out[s], Passing(id)', id)
                          /\ After(out[s], Passing(id), id) \subseteq After(out[s], Passing(id)', id)
    BY <1>1, ChunkData, OrderlyMore
  <1>3. out' = [out EXCEPT ![d] = Append(out[d], m)]
    BY SentOne
  <1>4. out'[d] = Append(out[d], m) /\ out[d] \in Seq(Message)
          /\ \A s \in Device : s # d => out'[s] = out[s]
    BY <1>1, <1>3
  <1>5. /\ Orderly(out'[d], Passing(id)', id)
        /\ \A c \in Chunk : Before(m, c) => c \in After(out'[d], Passing(id)', id)
    BY <1>2, <1>4, OrderlyOf DEF OutOrderly
  <1>6. OutOrderly(id)'
    BY <1>2, <1>4, <1>5 DEF OutOrderly
  <1>7. ServingOrderly(id)'
    <2> SUFFICES ASSUME NEW s \in Device, serving'[s] # None, serving'[s].id = id
                 PROVE  NextChunk(s)' \in After(out'[s], Passing(id)', id)
      BY DEF ServingOrderly
    <2>1. CASE s # d /\ serving'[s] = serving[s]
      <3>1. NextChunk(s)' = NextChunk(s) /\ serving[s] # None /\ serving[s].id = id
        BY <2>1 DEF NextChunk
      <3> QED BY <1>2, <1>4, <2>1, <3>1 DEF ServingOrderly
    <2>2. CASE s = d /\ NextChunk(d)' \in Chunk /\ Before(m, NextChunk(d)')
      BY <1>5, <2>2
    <2> QED BY <2>1, <2>2
  <1> QED BY <1>6, <1>7

\* What a device that takes a message makes of what comes to it, and to others.
LEMMA HearingKeeps ==
    ASSUME PullTypeOK, NEW d \in Device,
           IgnoreSignal(d) \/ AskForBody(d) \/ HearPull(d) \/ HearBegin(d) \/ HearChunk(d)
             \/ HearReject(d)
    PROVE  \A e \in Device, id \in Id : ArrivalsKept(e, id)
  <1> DEFINE m == Next1(d)
  <1>1. /\ Took(d) /\ down[d] # <<>> /\ m \in Message
        /\ m.type \in {"signal", "pull", "begin", "chunk", "reject"}
    <2>1. PICK t \in {"signal", "pull", "begin", "chunk", "reject"} : Hears(d, t) /\ Took(d)
      BY DEF IgnoreSignal, AskForBody, HearPull, HearBegin, HearChunk, HearReject
    <2>2. m \in Message /\ m.type = t
      BY <2>1, TookType
    <2> HIDE DEF m
    <2> QED BY <2>1, <2>2 DEF Hears
  <1>2. down \in [Device -> Seq(Message)] /\ fetches \in [Device -> [Id -> Seq(Chunk) \cup {None}]]
    BY DEF PullTypeOK
  <1>3. m.id \in Id
    BY <1>1, MessageFields
  <1>5. \/ fetches' = fetches /\ m.type \in {"signal", "pull"}
        \/ /\ m.type = "chunk" /\ fetches[d][m.id] = None /\ fetches' = fetches
        \/ \E new :
             /\ fetches' = [fetches EXCEPT ![d] = [fetches[d] EXCEPT ![m.id] = new]]
             /\ m.type \in {"begin", "chunk", "reject"}
             /\ m.type = "begin" => new = <<>>
             /\ m.type = "reject" => new = None
             /\ m.type = "chunk" => \/ new = None
                                    \/ /\ fetches[d][m.id] # None
                                       /\ new = Append(fetches[d][m.id], m.data)
    <2>1. CASE IgnoreSignal(d) \/ AskForBody(d) \/ HearPull(d)
      BY <2>1 DEF IgnoreSignal, AskForBody, HearPull, fetchVars, Hears
    <2>2. CASE HearBegin(d)
      <3>1. fetches' = [fetches EXCEPT ![d] = [fetches[d] EXCEPT ![m.id] = <<>>]]
        BY <2>2 DEF HearBegin
      <3>2. m.type = "begin"
        BY <2>2 DEF HearBegin, Hears
      <3> HIDE DEF m
      <3> QED BY <3>1, <3>2
    <2>3. CASE HearReject(d)
      <3>1. fetches' = [fetches EXCEPT ![d] = [fetches[d] EXCEPT ![m.id] = None]]
        BY <2>3 DEF HearReject
      <3>2. m.type = "reject"
        BY <2>3 DEF HearReject, Hears
      <3> HIDE DEF m
      <3> QED BY <3>1, <3>2
    <2>4. CASE HearChunk(d)
      <3> DEFINE got == Append(fetches[d][m.id], m.data)
      <3>1. \/ fetches[d][m.id] = None /\ fetches' = fetches
            \/ /\ fetches[d][m.id] # None
               /\ fetches' = [fetches EXCEPT ![d] = [fetches[d] EXCEPT ![m.id] = got]]
            \/ fetches' = [fetches EXCEPT ![d] = [fetches[d] EXCEPT ![m.id] = None]]
        BY <2>4 DEF HearChunk
      <3>2. m.type = "chunk"
        BY <2>4 DEF HearChunk, Hears
      <3> HIDE DEF m
      <3> QED BY <3>1, <3>2
    <2> QED BY <2>1, <2>2, <2>3, <2>4
  <1> SUFFICES ASSUME NEW e \in Device, NEW id \in Id PROVE ArrivalsKept(e, id)
    OBVIOUS
  <1>6. CASE e # d
    <2>1. down'[e] = down[e] /\ fetches'[e] = fetches[e]
      BY <1>1, <1>2, <1>5, <1>6 DEF Took
    <2> QED BY <2>1, ArrivalsSame
  <1>7. CASE e = d
    <2>1. ~Of(m, id) => fetches'[d][id] = fetches[d][id]
      BY <1>2, <1>3, <1>5 DEF Of
    <2>2. Of(m, id)
             => /\ m.type = "begin" => fetches'[d][id] = <<>>
                /\ m.type = "reject" => fetches'[d][id] = None
                /\ m.type = "chunk"
                     => \/ fetches'[d][id] = None
                        \/ /\ fetches[d][id] # None
                           /\ fetches'[d][id] = Append(fetches[d][id], m.data)
      <3> HIDE DEF m
      <3> SUFFICES ASSUME m.id = id, m.type \in {"begin", "chunk", "reject"}
                   PROVE  /\ m.type = "begin" => fetches'[d][id] = <<>>
                          /\ m.type = "reject" => fetches'[d][id] = None
                          /\ m.type = "chunk"
                               => \/ fetches'[d][id] = None
                                  \/ /\ fetches[d][id] # None
                                     /\ fetches'[d][id] = Append(fetches[d][id], m.data)
        BY DEF Of
      <3>1. \A new : fetches' = [fetches EXCEPT ![d] = [fetches[d] EXCEPT ![id] = new]]
                       => fetches'[d][id] = new
        BY <1>2
      <3> QED BY <1>5, <3>1
    <2> QED BY <1>1, <1>7, <2>1, <2>2, ArrivalsTaken
  <1> QED BY <1>6, <1>7

\* What holds of all bodies.
WholeBasics == PullerAsked /\ OffEmpty /\ SendersServe /\ SendersFinite

\* A device goes on; what it garbles was garbled before, or it heard a chunk.
LEMMA BodySession ==
    ASSUME PullTypeOK, WholeBasics, NEW d \in Device, SessionStep(d), NEW id \in Id,
           BodyOrderly(id)
    PROVE  BodyOrderly(id)'
  <1>0. /\ DownOrderly(id) /\ Blank(id) /\ OutOrderly(id) /\ ServingOrderly(id) /\ NoneGarbled(id)
        /\ out \in [Device -> Seq(Message)] /\ down \in [Device -> Seq(Message)]
        /\ serving \in [Device -> [id : Id, seal : Seal, sent : 0 .. Chunks - 1] \cup {None}]
        /\ fetches \in [Device -> [Id -> Seq(Chunk) \cup {None}]]
    BY DEF BodyOrderly, PullTypeOK
  <1>1. UNCHANGED <<puller, asker, crossed, conn>>
    BY DEF SessionStep, IgnoreSignal, AskForBody, HearPull, ServeChunk, HearBegin, HearChunk,
       HearReject, relayVars, pullHistory
  <1>2. CASE ServeChunk(d)
    <2> DEFINE s == serving[d]
               data == [seal |-> s.seal, index |-> s.sent + 1]
               m == [type |-> "chunk", id |-> s.id, data |-> data]
               rest == [s EXCEPT !.sent = s.sent + 1]
    <2>1. s # None /\ s \in [id : Id, seal : Seal, sent : 0 .. Chunks - 1] /\ conn[d]
      BY <1>0, <1>2 DEF ServeChunk, Free, WholeBasics, OffEmpty
    <2>2. /\ Send(d, <<m>>)
          /\ serving' = [serving EXCEPT ![d] = IF s.sent + 1 = Chunks THEN None ELSE rest]
          /\ UNCHANGED <<down, fetches, garbled>>
      BY <1>2 DEF ServeChunk, fetchVars, pullHistory
    <2>3. \A e \in Device : ArrivalsKept(e, id)
      BY <2>2, ArrivalsSame
    <2>4. DownOrderly(id)' /\ Blank(id)' /\ Passing(id) \subseteq Passing(id)'
      BY <1>0, <1>1, <2>3, PassingKept
    <2>5. NoneGarbled(id)'
      BY <1>0, <1>1, <2>2 DEF NoneGarbled
    <2>6. s.sent + 1 \in 1 .. Chunks /\ (s.sent + 1 # Chunks => (s.sent + 1) + 1 \in 1 .. Chunks)
      BY <2>1, PullAssumption
    <2>7. data \in Chunk
      BY <2>1, <2>6 DEF Chunk
    <2>8. m \in Message
      BY <2>1, <2>7 DEF Message
    <2>9. CASE s.id = id
      <3>1. Of(m, id) /\ (ChunkOf(m, id) => m.data \in After(out[d], Passing(id), id))
        <4>1. NextChunk(d) \in After(out[d], Passing(id), id)
          BY <1>0, <2>1, <2>9 DEF ServingOrderly
        <4> QED BY <2>9, <4>1 DEF Of, NextChunk
      <3>2. ASSUME NEW x \in Device, serving'[x] # None, serving'[x].id = id
            PROVE  \/ x # d /\ serving'[x] = serving[x]
                   \/ x = d /\ NextChunk(d)' \in Chunk /\ Before(m, NextChunk(d)')
        <4>1. CASE x # d
          BY <1>0, <2>2, <4>1
        <4>2. CASE x = d
          <5>1. serving'[d] = rest /\ s.sent + 1 # Chunks
            BY <1>0, <2>2, <3>2, <4>2
          <5>2. rest.seal = s.seal /\ rest.sent = s.sent + 1
            BY <2>1
          <5>3. NextChunk(d)' = [seal |-> s.seal, index |-> (s.sent + 1) + 1]
            BY <5>1, <5>2 DEF NextChunk
          <5>4. NextChunk(d)' \in Chunk
            BY <2>1, <2>6, <5>1, <5>3 DEF Chunk
          <5>5. Before(m, NextChunk(d)')
            BY <5>3 DEF Before
          <5> QED BY <4>2, <5>4, <5>5
        <4> QED BY <4>1, <4>2
      <3> HIDE DEF m
      <3> QED BY <1>0, <2>1, <2>2, <2>4, <2>5, <2>8, <3>1, <3>2, OutKeptOf DEF BodyOrderly
    <2>10. CASE s.id # id
      <3>1. ~Of(m, id)
        BY <2>10 DEF Of
      <3>2. ASSUME NEW x \in Device, serving'[x] # None, serving'[x].id = id
            PROVE  serving'[x] = serving[x]
        <4>1. CASE x # d
          BY <1>0, <2>2, <4>1
        <4>2. CASE x = d
          <5>1. serving'[d] = rest
            BY <1>0, <2>2, <3>2, <4>2
          <5>2. rest.id = s.id
            BY <2>1
          <5> QED BY <2>10, <3>2, <4>2, <5>1, <5>2
        <4> QED BY <4>1, <4>2
      <3> HIDE DEF m
      <3> QED BY <1>0, <1>1, <2>2, <2>4, <2>5, <2>8, <3>1, <3>2, OutKeptOther DEF BodyOrderly
    <2> QED BY <2>9, <2>10
  <1>3. CASE ~ServeChunk(d)
    <2>1. \A e \in Device : ArrivalsKept(e, id)
      BY <1>3, HearingKeeps DEF SessionStep
    <2>2. DownOrderly(id)' /\ Blank(id)' /\ Passing(id) \subseteq Passing(id)'
      BY <1>0, <1>1, <2>1, PassingKept
    <2>3. CASE IgnoreSignal(d) \/ HearBegin(d) \/ HearReject(d)
      <3>1. UNCHANGED <<out, serving, garbled>>
        BY <2>3 DEF IgnoreSignal, HearBegin, HearReject, pullHistory
      <3>2. NoneGarbled(id)'
        BY <1>0, <1>1, <3>1 DEF NoneGarbled
      <3> QED BY <1>0, <2>2, <3>1, <3>2, OutKept DEF BodyOrderly
    <2>4. CASE HearChunk(d)
      <3> DEFINE m == Next1(d)
                 buffer == fetches[d][m.id]
                 got == Append(buffer, m.data)
      <3>1. UNCHANGED <<out, serving>>
        BY <2>4 DEF HearChunk
      <3>2. \/ garbled' = garbled
            \/ buffer # None /\ ~Whole(got) /\ garbled' = garbled \cup {<<d, m.id>>}
        BY <2>4 DEF HearChunk
      <3>3. m \in Message /\ m.type = "chunk" /\ down[d] # <<>> /\ m = Head(down[d])
        BY <2>4, TookType DEF HearChunk, Hears, Next1
      <3>4. m.id \in Id /\ m.data \in Chunk
        BY <3>3, MessageFields
      <3>5. NoneGarbled(id)'
        <4> SUFFICES ASSUME NEW e \in Device, <<e, id>> \in garbled', <<e, id>> \notin crossed
                     PROVE  FALSE
          BY <1>1 DEF NoneGarbled
        <4>1. <<e, id>> \notin garbled
          BY <1>0 DEF NoneGarbled
        <4>2. e = d /\ m.id = id /\ buffer # None /\ ~Whole(got)
          BY <3>2, <4>1
        <4>3. Orderly(down[d], Fitting(buffer), id)
          BY <1>0, <4>2 DEF DownOrderly
        <4>4. ChunkOf(Head(down[d]), id) /\ down[d] \in Seq(Message)
          BY <1>0, <3>3, <4>2 DEF ChunkOf
        <4>5. m.data \in Fitting(buffer)
          BY <3>3, <4>3, <4>4, OrderlyFirst
        <4>6. buffer \in Seq(Chunk)
          BY <1>0, <3>4, <4>2
        <4>7. Fits(buffer, m.data)
          BY <4>5 DEF Fitting
        <4> HIDE DEF m, buffer
        <4>8. Whole(got)
          BY <3>4, <4>2, <4>6, <4>7, WholeTakes
        <4> QED BY <4>2, <4>8
      <3> QED BY <1>0, <2>2, <3>1, <3>5, OutKept DEF BodyOrderly
    <2>5. CASE AskForBody(d)
      <3> DEFINE m == [type |-> "request", id |-> Next1(d).id]
      <3>1. Next1(d) \in Message
        BY <2>5, TookType DEF AskForBody
      <3>2. m \in Message /\ ~Of(m, id)
        BY <3>1, MessageFields DEF Message, Of
      <3>3. Send(d, <<m>>) /\ UNCHANGED <<serving, garbled>>
        BY <2>5 DEF AskForBody
      <3>4. NoneGarbled(id)'
        BY <1>0, <1>1, <3>3 DEF NoneGarbled
      <3> HIDE DEF m
      <3> QED BY <1>0, <1>1, <2>2, <3>2, <3>3, <3>4, OutKeptOther DEF BodyOrderly
    <2>6. CASE HearPull(d)
      <3> DEFINE x == Next1(d).id
                 begin == [type |-> "begin", id |-> x]
                 reject == [type |-> "reject", id |-> x]
                 new == [id |-> x, seal |-> bodies[d][x], sent |-> 0]
      <3>1. x \in Id /\ serving[d] = None /\ conn[d]
        <4>1. Next1(d) \in Message /\ down[d] # <<>> /\ serving[d] = None
          BY <2>6, TookType DEF HearPull, Hears, Free
        <4> QED BY <4>1, MessageFields DEF WholeBasics, OffEmpty
      <3>2. begin \in Message /\ reject \in Message
        BY <3>1 DEF Message
      <3>3. /\ garbled' = garbled
            /\ \/ Servable(d, x) /\ Send(d, <<begin>>) /\ serving' = [serving EXCEPT ![d] = new]
               \/ Send(d, <<reject>>) /\ serving' = serving
        BY <2>6 DEF HearPull, pullHistory
      <3>4. NoneGarbled(id)'
        BY <1>0, <1>1, <3>3 DEF NoneGarbled
      <3>5. CASE Send(d, <<reject>>) /\ serving' = serving
        <4>1. ~ChunkOf(reject, id)
          BY DEF ChunkOf
        <4>2. \A s \in Device : serving'[s] # None => s # d
          BY <3>1, <3>5
        <4>3. CASE x = id
          <5>1. Of(reject, id)
            BY <4>3 DEF Of
          <5> HIDE DEF reject
          <5> QED BY <1>0, <2>2, <3>1, <3>2, <3>4, <3>5, <4>1, <4>2, <5>1, OutKeptOf
                  DEF BodyOrderly
        <4>4. CASE x # id
          <5>1. ~Of(reject, id)
            BY <4>4 DEF Of
          <5> HIDE DEF reject
          <5> QED BY <1>0, <1>1, <2>2, <3>2, <3>4, <3>5, <5>1, OutKeptOther DEF BodyOrderly
        <4> QED BY <4>3, <4>4
      <3>6. CASE Servable(d, x) /\ Send(d, <<begin>>) /\ serving' = [serving EXCEPT ![d] = new]
        <4>1. ~ChunkOf(begin, id)
          BY DEF ChunkOf
        <4>2. serving'[d] = new /\ \A s \in Device : s # d => serving'[s] = serving[s]
          BY <1>0, <3>6
        <4>3. bodies[d][x] \in Seal
          BY <3>6, TypeParts DEF CacheTyped, Servable
        <4>4. NextChunk(d)' = [seal |-> bodies[d][x], index |-> 1]
          BY <4>2 DEF NextChunk
        <4>5. NextChunk(d)' \in Chunk /\ Before(begin, NextChunk(d)')
          <5>1. 1 \in 1 .. Chunks
            BY PullAssumption
          <5> QED BY <4>3, <4>4, <5>1 DEF Chunk, Before
        <4>6. CASE x = id
          <5>1. Of(begin, id)
            BY <4>6 DEF Of
          <5> HIDE DEF begin, new
          <5> QED BY <1>0, <2>2, <3>1, <3>2, <3>4, <3>6, <4>1, <4>2, <4>5, <5>1, OutKeptOf
                  DEF BodyOrderly
        <4>7. CASE x # id
          <5>1. ~Of(begin, id) /\ new.id # id
            BY <4>7 DEF Of
          <5> HIDE DEF begin, new
          <5> QED BY <1>0, <1>1, <2>2, <3>2, <3>4, <3>6, <4>2, <5>1, OutKeptOther
                  DEF BodyOrderly
        <4> QED BY <4>6, <4>7
      <3> QED BY <3>3, <3>5, <3>6
    <2> QED BY <1>3, <2>3, <2>4, <2>5, <2>6 DEF SessionStep
  <1> QED BY <1>2, <1>3

\* A queue with nothing of the body.
LEMMA OrderlyNone ==
    ASSUME NEW q \in Seq(Message), NEW next, NEW id, \A k \in DOMAIN q : ~Of(q[k], id)
    PROVE  Orderly(q, next, id) /\ next \cap Chunk \subseteq After(q, next, id)
  <1>1. Orderly(q, next, id)
    BY DEF Orderly, Of, ChunkOf
  <1>2. \A c : c \in next => Comes(q, next, Len(q), id, c)
    BY DEF Comes, Follows
  <1> QED BY <1>1, <1>2 DEF After

\* What comes to a device without a session is nothing, so that anything can come.
LEMMA ArrivingOff ==
    ASSUME NEW d, NEW id \in Id, down[d] = <<>>, fetches[d] = NoFetch
    PROVE  Arriving(d, id) = Chunk
  <1>1. Fitting(fetches[d][id]) = Chunk
    BY DEF NoFetch, Fitting, Fits
  <1> QED BY <1>1, OrderlyEmpty DEF Arriving

\* A message that has nothing to do with the body, or refuses it, comes to some.
LEMMA ArrivalsOther ==
    ASSUME PullTypeOK, NEW d \in Device, NEW id \in Id, NEW m \in Message,
           ~Of(m, id) \/ m.type = "reject",
           down'[d] = down[d] \/ down'[d] = Append(down[d], m), fetches' = fetches
    PROVE  ArrivalsKept(d, id)
  <1>1. down[d] \in Seq(Message)
    BY DEF PullTypeOK
  <1>2. CASE down'[d] = down[d]
    BY <1>2, ArrivalsSame
  <1>3. CASE down'[d] = Append(down[d], m) /\ ~Of(m, id)
    BY <1>1, <1>3, OrderlyOther DEF ArrivalsKept, Arriving
  <1>4. CASE down'[d] = Append(down[d], m) /\ Of(m, id) /\ m.type = "reject"
    <2> SUFFICES ASSUME Orderly(down[d], Fitting(fetches[d][id]), id)
                 PROVE  /\ Orderly(down'[d], Fitting(fetches[d][id]), id)
                        /\ Arriving(d, id) \subseteq After(down'[d], Fitting(fetches[d][id]), id)
      BY DEF ArrivalsKept
    <2>1. ~ChunkOf(m, id) /\ \A c : Before(m, c)
      BY <1>4 DEF ChunkOf, Before
    <2>2. /\ Orderly(down'[d], Fitting(fetches[d][id]), id)
          /\ \A c \in Chunk : c \in After(down'[d], Fitting(fetches[d][id]), id)
      BY <1>1, <1>4, <2>1, OrderlyOf
    <2>3. Arriving(d, id) \subseteq Chunk
      BY DEF Arriving, After
    <2> QED BY <2>2, <2>3
  <1> QED BY <1>2, <1>3, <1>4

\* The relay reads a message.
LEMMA OutRead ==
    ASSUME PullTypeOK, NEW id \in Id, NEW d \in Device, out[d] # <<>>,
           out' = [out EXCEPT ![d] = Tail(out[d])], UNCHANGED serving,
           Of(Head(out[d]), id) => \A c \in Chunk : Before(Head(out[d]), c) => c \in Passing(id)',
           ~Of(Head(out[d]), id) => Passing(id) \subseteq Passing(id)',
           \A s \in Device \ {d} :
              \/ Passing(id) \subseteq Passing(id)'
              \/ /\ \A k \in DOMAIN out[s] : ~ChunkOf(out[s][k], id)
                 /\ ~(serving[s] # None /\ serving[s].id = id),
           OutOrderly(id), ServingOrderly(id)
    PROVE  OutOrderly(id)' /\ ServingOrderly(id)'
  <1>1. out \in [Device -> Seq(Message)]
    BY DEF PullTypeOK
  <1>2. /\ Orderly(out'[d], Passing(id)', id)
        /\ After(out[d], Passing(id), id) \subseteq After(out'[d], Passing(id)', id)
    <2>1. Orderly(out[d], Passing(id), id) /\ out[d] \in Seq(Message) /\ out'[d] = Tail(out[d])
      BY <1>1 DEF OutOrderly
    <2>2. ~Of(Head(out[d]), id) => Passing(id) \cap Chunk \subseteq Passing(id)'
      OBVIOUS
    <2> QED BY <2>1, <2>2, OrderlyTaken
  <1>3. ASSUME NEW s \in Device \ {d}
        PROVE  /\ Orderly(out'[s], Passing(id)', id)
               /\ serving[s] # None /\ serving[s].id = id
                    => After(out[s], Passing(id), id) \subseteq After(out'[s], Passing(id)', id)
    <2>1. out'[s] = out[s] /\ out[s] \in Seq(Message) /\ Orderly(out[s], Passing(id), id)
      BY <1>1 DEF OutOrderly
    <2>2. CASE Passing(id) \subseteq Passing(id)'
      <3>1. \A k \in DOMAIN out[s] : ChunkOf(out[s][k], id) => out[s][k].data \in Chunk
        BY <2>1, ChunkData
      <3>2. Passing(id) \cap Chunk \subseteq Passing(id)'
        BY <2>2
      <3> QED BY <2>1, <3>1, <3>2, OrderlyMore
    <2>3. CASE /\ \A k \in DOMAIN out[s] : ~ChunkOf(out[s][k], id)
               /\ ~(serving[s] # None /\ serving[s].id = id)
      BY <2>1, <2>3 DEF Orderly
    <2> QED BY <2>2, <2>3
  <1>4. OutOrderly(id)'
    BY <1>2, <1>3 DEF OutOrderly
  <1>5. ServingOrderly(id)'
    <2> SUFFICES ASSUME NEW s \in Device, serving'[s] # None, serving'[s].id = id
                 PROVE  NextChunk(s)' \in After(out'[s], Passing(id)', id)
      BY DEF ServingOrderly
    <2>1. NextChunk(s)' = NextChunk(s) /\ serving[s] # None /\ serving[s].id = id
      BY DEF NextChunk
    <2>2. NextChunk(s) \in After(out[s], Passing(id), id)
      BY <2>1 DEF ServingOrderly
    <2> QED BY <1>2, <1>3, <2>1, <2>2
  <1> QED BY <1>4, <1>5

LEMMA BodyRelay ==
    ASSUME PullTypeOK, WholeBasics, NEW d \in Device, RelayTakes(d), NEW id \in Id, Sole(id),
           BodyOrderly(id)
    PROVE  BodyOrderly(id)'
  <1> DEFINE m == Head(out[d])
  <1>0. /\ DownOrderly(id) /\ Blank(id) /\ OutOrderly(id) /\ ServingOrderly(id) /\ NoneGarbled(id)
        /\ out \in [Device -> Seq(Message)] /\ down \in [Device -> Seq(Message)]
        /\ puller \in [Id -> Device \cup {None}] /\ asker \in [Id -> Device \cup {None}]
        /\ None \notin Device
    BY PullAssumption DEF BodyOrderly, PullTypeOK
  <1>1. /\ out[d] # <<>> /\ out' = [out EXCEPT ![d] = Tail(out[d])]
        /\ UNCHANGED <<conn, serving, fetches, senders, garbled>>
    BY DEF RelayTakes, fetchVars
  <1>2. m \in Message /\ m.id \in Id
    BY <1>0, <1>1, QueueType, MessageFields
  <1>3. \/ m.type = "signal" /\ RelaySignal(d, m)
        \/ m.type = "request" /\ RelayRequest(d, m)
        \/ m.type \in {"begin", "chunk", "reject"} /\ RelayPasses(d, m)
    BY DEF RelayTakes
  <1>4. crossed \subseteq crossed'
    BY <1>3 DEF RelaySignal, RelayRequest, RelayPasses
  <1>5. NoneGarbled(id)'
    BY <1>0, <1>1, <1>4 DEF NoneGarbled
  <1>6. Passing(id) \subseteq Chunk /\ \A e : Arriving(e, id) \subseteq Chunk
    BY DEF Passing, Arriving, After
  <1>7. CASE /\ puller'[id] = puller[id] /\ asker'[id] = asker[id] /\ ~Of(m, id)
             /\ \A e \in Device : <<e, id>> \in crossed' <=> <<e, id>> \in crossed
             /\ \A e \in Device : ArrivalsKept(e, id)
    <2>1. DownOrderly(id)' /\ Blank(id)' /\ Passing(id) \subseteq Passing(id)'
      BY <1>0, <1>7, PassingKept
    <2>2. OutOrderly(id)' /\ ServingOrderly(id)'
      BY <1>0, <1>1, <1>7, <2>1, OutRead
    <2> QED BY <1>5, <2>1, <2>2 DEF BodyOrderly
  <1>8. CASE m.type = "signal" /\ RelaySignal(d, m)
    <2>1. UNCHANGED <<puller, asker, crossed>> /\ ~Of(m, id)
      BY <1>8 DEF RelaySignal, Of
    <2>2. \A e \in Device : down'[e] = down[e] \/ down'[e] = Append(down[e], m)
      BY <1>8 DEF RelaySignal
    <2> HIDE DEF m
    <2>3. \A e \in Device : ArrivalsKept(e, id)
      BY <1>1, <1>2, <2>1, <2>2, ArrivalsOther
    <2> QED BY <1>7, <2>1, <2>3
  <1>9. CASE m.type = "request" /\ RelayRequest(d, m)
    <2> DEFINE found == \E i \in DOMAIN head : head[i].id = m.id
               pull == [type |-> "pull", id |-> m.id]
               reject == [type |-> "reject", id |-> m.id]
    <2>1. ~Of(m, id) /\ pull \in Message /\ reject \in Message /\ ~Of(pull, id)
      BY <1>2, <1>9 DEF Of, Message
    <2>2. CASE ~found
      <3>1. UNCHANGED <<puller, asker, crossed>> /\ down' = Passed(d, reject)
        BY <1>9, <2>2 DEF RelayRequest
      <3> HIDE DEF reject
      <3>2. \A e \in Device : down'[e] = down[e] \/ down'[e] = Append(down[e], reject)
        BY <1>0, <3>1 DEF Passed
      <3>3. reject.type = "reject"
        BY DEF reject
      <3>4. \A e \in Device : ArrivalsKept(e, id)
        BY <1>1, <2>1, <3>2, <3>3, ArrivalsOther
      <3> QED BY <1>7, <2>1, <3>1, <3>4
    <2>3. CASE found
      <3>1. /\ down' = Passed(Origin(m.id), pull)
            /\ puller' = [puller EXCEPT ![m.id] = d] /\ asker' = [asker EXCEPT ![m.id] = d]
            /\ crossed' = IF Underway(m.id) /\ asker[m.id] \notin {None, d}
                          THEN crossed \cup {<<asker[m.id], m.id>>, <<d, m.id>>} ELSE crossed
        BY <1>9, <2>3 DEF RelayRequest
      <3> HIDE DEF pull, found
      <3>2. \A e \in Device : down'[e] = down[e] \/ down'[e] = Append(down[e], pull)
        BY <1>0, <3>1 DEF Passed
      <3>3. \A e \in Device : ArrivalsKept(e, id)
        BY <1>1, <2>1, <3>2, ArrivalsOther
      <3>4. CASE m.id # id
        <4>1. puller'[id] = puller[id] /\ asker'[id] = asker[id]
          BY <1>0, <3>1, <3>4
        <4>2. \A e \in Device : <<e, id>> \in crossed' <=> <<e, id>> \in crossed
          <5> HIDE DEF m
          <5> QED BY <3>1, <3>4
        <4> QED BY <1>7, <2>1, <3>3, <4>1, <4>2
      <3>5. CASE m.id = id
        <4>1. \A e \in Device : <<e, id>> \notin crossed =>
                 /\ Orderly(down'[e], Fitting(fetches'[e][id]), id)
                 /\ Arriving(e, id) \subseteq Arriving(e, id)'
          BY <1>0, <3>3 DEF DownOrderly, ArrivalsKept, Arriving
        <4>2. DownOrderly(id)'
          BY <1>4, <4>1 DEF DownOrderly
        <4>3. puller'[id] = d
          BY <1>0, <3>1, <3>5
        <4>4. Blank(id)'
          BY <1>0, <4>3 DEF Blank
        <4>5. CASE Underway(id)
          <5>1. Passing(id)' = IF <<d, id>> \in crossed' THEN Chunk ELSE Arriving(d, id)'
            BY <1>0, <4>3 DEF Passing
          <5>2. CASE <<d, id>> \in crossed'
            <6>1. Passing(id) \subseteq Passing(id)'
              BY <1>6, <5>1, <5>2
            <6>2. OutOrderly(id)' /\ ServingOrderly(id)'
              BY <1>0, <1>1, <2>1, <6>1, OutRead
            <6> QED BY <1>5, <4>2, <4>4, <6>2 DEF BodyOrderly
          <5>3. CASE <<d, id>> \notin crossed'
            <6>1. asker[id] \in {None, d} /\ <<d, id>> \notin crossed
              BY <1>4, <3>1, <3>5, <4>5, <5>3
            <6>2. Arriving(d, id) \subseteq Arriving(d, id)'
              BY <4>1, <6>1
            <6>3. Passing(id) \subseteq Arriving(d, id)
              <7>1. CASE puller[id] = None
                BY <1>0, <1>6, <6>1, <7>1 DEF Blank
              <7>2. CASE puller[id] # None
                <8>1. puller[id] = d
                  BY <6>1, <7>2 DEF WholeBasics, PullerAsked
                <8> QED BY <1>0, <6>1, <8>1 DEF Passing
              <7> QED BY <7>1, <7>2
            <6>4. Passing(id) \subseteq Passing(id)'
              BY <5>1, <5>3, <6>2, <6>3
            <6>5. OutOrderly(id)' /\ ServingOrderly(id)'
              BY <1>0, <1>1, <2>1, <6>4, OutRead
            <6> QED BY <1>5, <4>2, <4>4, <6>5 DEF BodyOrderly
          <5> QED BY <5>2, <5>3
        <4>6. CASE ~Underway(id)
          <5>1. \A s \in Device : /\ \A k \in DOMAIN out[s] : ~ChunkOf(out[s][k], id)
                                  /\ ~(serving[s] # None /\ serving[s].id = id)
            BY <4>6 DEF Underway, ChunkOf
          <5>2. \A s \in Device : \A k \in DOMAIN out'[s] : ~ChunkOf(out'[s][k], id)
            <6>1. \A k \in DOMAIN Tail(out[d]) : k + 1 \in DOMAIN out[d] /\ Tail(out[d])[k] = out[d][k + 1]
              BY <1>0, <1>1
            <6> QED BY <1>0, <1>1, <5>1, <6>1
          <5>3. OutOrderly(id)'
            BY <5>2 DEF OutOrderly, Orderly
          <5>4. ServingOrderly(id)'
            BY <1>1, <5>1 DEF ServingOrderly
          <5> QED BY <1>5, <4>2, <4>4, <5>3, <5>4 DEF BodyOrderly
        <4> QED BY <4>5, <4>6
      <3> QED BY <3>4, <3>5
    <2> QED BY <2>2, <2>3
  <1>10. CASE m.type \in {"begin", "chunk", "reject"} /\ RelayPasses(d, m)
    <2>1. /\ down' = IF puller[m.id] = None THEN down ELSE Passed(puller[m.id], m)
          /\ puller' = IF m.type = "reject" THEN [puller EXCEPT ![m.id] = None] ELSE puller
          /\ UNCHANGED <<asker, crossed>>
      BY <1>10 DEF RelayPasses
    <2> HIDE DEF m
    <2>2. CASE m.id # id
      <3>1. ~Of(m, id)
        BY <2>2 DEF Of
      <3>2. puller'[id] = puller[id]
        BY <1>0, <2>1, <2>2
      <3>3. \A e \in Device : down'[e] = down[e] \/ down'[e] = Append(down[e], m)
        BY <1>0, <2>1 DEF Passed
      <3>4. \A e \in Device : ArrivalsKept(e, id)
        BY <1>1, <1>2, <3>1, <3>3, ArrivalsOther
      <3> QED BY <1>7, <2>1, <3>1, <3>2, <3>4
    <2>3. CASE m.id = id /\ puller[id] = None
      <3>1. down' = down /\ puller'[id] = puller[id]
        BY <1>0, <2>1, <2>3
      <3>2. \A e \in Device : ArrivalsKept(e, id)
        BY <1>1, <3>1, ArrivalsSame
      <3>3. DownOrderly(id)' /\ Blank(id)' /\ Passing(id) \subseteq Passing(id)'
        BY <1>0, <2>1, <3>1, <3>2, PassingKept
      <3>4. Passing(id)' = Chunk
        BY <2>3, <3>1 DEF Passing
      <3>5. OutOrderly(id)' /\ ServingOrderly(id)'
        BY <1>0, <1>1, <3>3, <3>4, OutRead
      <3> QED BY <1>5, <3>3, <3>5 DEF BodyOrderly
    <2>4. CASE m.id = id /\ puller[id] # None
      <3>1. PICK p \in Device : p = puller[id] /\ p = asker[id] /\ Of(m, id)
        BY <1>0, <1>10, <2>4 DEF WholeBasics, PullerAsked, Of
      <3>2. /\ \A e \in Device \ {p} : down'[e] = down[e]
            /\ conn[p] => down'[p] = Append(down[p], m)
            /\ ~conn[p] => down'[p] = down[p]
        BY <1>0, <2>1, <2>4, <3>1 DEF Passed
      <3>3. ~conn[p] => Arriving(p, id)' = Chunk /\ down'[p] = <<>>
        <4>1. ~conn[p] => down[p] = <<>> /\ fetches[p] = NoFetch
          BY <3>1 DEF WholeBasics, OffEmpty
        <4>2. ~conn[p] => Arriving(p, id) = Chunk
          BY <4>1, ArrivingOff
        <4>3. ~conn[p] => Arriving(p, id)' = Arriving(p, id)
          <5>1. ~conn[p] => down'[p] = down[p] /\ fetches'[p][id] = fetches[p][id]
            BY <1>1, <3>2
          <5> QED BY <5>1 DEF Arriving
        <4> QED BY <3>2, <4>1, <4>2, <4>3
      <3>4. <<p, id>> \notin crossed => (ChunkOf(m, id) => m.data \in Arriving(p, id))
        <4> SUFFICES ASSUME <<p, id>> \notin crossed, ChunkOf(m, id) PROVE m.data \in Arriving(p, id)
          OBVIOUS
        <4>1. Passing(id) = Arriving(p, id)
          BY <1>0, <2>4, <3>1 DEF Passing
        <4>2. Orderly(out[d], Passing(id), id) /\ out[d] \in Seq(Message)
          BY <1>0 DEF OutOrderly
        <4> QED BY <1>1, <4>1, <4>2, OrderlyFirst DEF m
      <3>5. conn[p] /\ <<p, id>> \notin crossed
              => /\ Orderly(down'[p], Fitting(fetches[p][id]), id)
                 /\ \A c \in Chunk : Before(m, c) => c \in Arriving(p, id)'
        <4> SUFFICES ASSUME conn[p], <<p, id>> \notin crossed
                     PROVE  /\ Orderly(down'[p], Fitting(fetches[p][id]), id)
                            /\ \A c \in Chunk : Before(m, c) => c \in Arriving(p, id)'
          OBVIOUS
        <4>1. down[p] \in Seq(Message) /\ Orderly(down[p], Fitting(fetches[p][id]), id)
          BY <1>0, <3>1 DEF DownOrderly
        <4>2. ChunkOf(m, id) => m.data \in After(down[p], Fitting(fetches[p][id]), id)
          BY <3>4 DEF Arriving
        <4>3. /\ Orderly(Append(down[p], m), Fitting(fetches[p][id]), id)
              /\ \A c \in Chunk : Before(m, c)
                   => c \in After(Append(down[p], m), Fitting(fetches[p][id]), id)
          BY <1>2, <3>1, <4>1, <4>2, OrderlyOf
        <4> QED BY <1>1, <3>2, <4>3 DEF Arriving
      <3>6. <<p, id>> \notin crossed => \A c \in Chunk : Before(m, c) => c \in Arriving(p, id)'
        BY <3>3, <3>5
      <3>7. DownOrderly(id)'
        <4> SUFFICES ASSUME NEW e \in Device, <<e, id>> \notin crossed
                     PROVE  Orderly(down'[e], Fitting(fetches'[e][id]), id)
          BY <2>1 DEF DownOrderly
        <4>1. CASE e # p \/ ~conn[p]
          <5>1. down'[e] = down[e]
            BY <3>2, <4>1
          <5> QED BY <1>0, <1>1, <5>1 DEF DownOrderly
        <4>2. CASE e = p /\ conn[p]
          BY <1>1, <3>5, <4>2
        <4> QED BY <4>1, <4>2
      <3>8. puller'[id] = IF m.type = "reject" THEN None ELSE p
        BY <1>0, <2>1, <2>4, <3>1
      <3>9. Blank(id)'
        <4> SUFFICES ASSUME puller'[id] = None, NEW e \in Device, asker'[id] \in {None, e},
                            <<e, id>> \notin crossed'
                     PROVE  Chunk \subseteq Arriving(e, id)'
          BY DEF Blank
        <4>1. e = p /\ m.type = "reject"
          BY <1>0, <2>1, <3>1, <3>8
        <4>2. \A c \in Chunk : Before(m, c)
          BY <4>1 DEF Before
        <4> QED BY <2>1, <3>6, <4>1, <4>2
      <3>10. \A c \in Chunk : Before(m, c) => c \in Passing(id)'
        <4>1. Passing(id)' = IF puller'[id] = None \/ <<puller'[id], id>> \in crossed THEN Chunk
                             ELSE Arriving(p, id)'
          <5>1. CASE puller'[id] = None
            BY <5>1 DEF Passing
          <5>2. CASE puller'[id] = p
            BY <2>1, <5>2 DEF Passing, Arriving
          <5> QED BY <3>8, <5>1, <5>2
        <4>2. puller'[id] = None \/ puller'[id] = p
          BY <3>8
        <4> QED BY <3>6, <4>1, <4>2
      <3>11. ASSUME NEW s \in Device \ {d}
             PROVE  \/ Passing(id) \subseteq Passing(id)'
                    \/ /\ \A k \in DOMAIN out[s] : ~ChunkOf(out[s][k], id)
                       /\ ~(serving[s] # None /\ serving[s].id = id)
        <4>1. CASE m.type = "reject"
          <5>1. Passing(id)' = Chunk
            BY <3>8, <4>1 DEF Passing
          <5> QED BY <1>6, <5>1
        <4>2. CASE m.type # "reject"
          <5>1. 1 \in DOMAIN out[d] /\ out[d][1] = m /\ m.type \in {"begin", "chunk"}
            BY <1>0, <1>1, <1>10, <4>2 DEF m
          <5>2. d \in senders[id]
            BY <2>4, <5>1 DEF WholeBasics, SendersServe
          <5>3. s \notin senders[id]
            BY <5>2 DEF Sole
          <5> QED BY <5>3 DEF WholeBasics, SendersServe, ChunkOf
        <4> QED BY <4>1, <4>2
      <3>12. OutOrderly(id)' /\ ServingOrderly(id)'
        BY <1>0, <1>1, <3>1, <3>10, <3>11, OutRead DEF m
      <3> QED BY <1>5, <3>7, <3>9, <3>12 DEF BodyOrderly
    <2> QED BY <2>2, <2>3, <2>4
  <1> QED BY <1>3, <1>8, <1>9, <1>10

\* A connection is lost, or found again.
LEMMA BodyLose ==
    ASSUME PullTypeOK, NEW d \in Device, LoseConnection(d), NEW id \in Id, BodyOrderly(id)
    PROVE  BodyOrderly(id)'
  <1>0. /\ DownOrderly(id) /\ Blank(id) /\ OutOrderly(id) /\ ServingOrderly(id) /\ NoneGarbled(id)
        /\ out \in [Device -> Seq(Message)] /\ down \in [Device -> Seq(Message)]
        /\ serving \in [Device -> [id : Id, seal : Seal, sent : 0 .. Chunks - 1] \cup {None}]
        /\ fetches \in [Device -> [Id -> Seq(Chunk) \cup {None}]]
    BY DEF BodyOrderly, PullTypeOK
  <1>1. /\ UNCHANGED <<puller, asker, crossed, garbled>>
        /\ out' = [out EXCEPT ![d] = <<>>] /\ down' = [down EXCEPT ![d] = <<>>]
        /\ serving' = [serving EXCEPT ![d] = None] /\ fetches' = [fetches EXCEPT ![d] = NoFetch]
    BY DEF LoseConnection, relayVars
  <1>2. \A e \in Device : ArrivalsKept(e, id)
    <2> SUFFICES ASSUME NEW e \in Device PROVE ArrivalsKept(e, id)
      OBVIOUS
    <2>1. CASE e = d
      <3>1. down'[e] = <<>> /\ fetches'[e][id] = None
        BY <1>0, <1>1, <2>1 DEF NoFetch
      <3>2. Fitting(None) = Chunk
        BY DEF Fitting, Fits
      <3>3. Arriving(e, id) \subseteq Chunk
        BY DEF Arriving, After
      <3> QED BY <3>1, <3>2, <3>3, OrderlyEmpty DEF ArrivalsKept
    <2>2. CASE e # d
      <3>1. down'[e] = down[e] /\ fetches'[e] = fetches[e]
        BY <1>0, <1>1, <2>2
      <3> QED BY <3>1, ArrivalsSame
    <2> QED BY <2>1, <2>2
  <1>3. DownOrderly(id)' /\ Blank(id)' /\ Passing(id) \subseteq Passing(id)'
    BY <1>0, <1>1, <1>2, PassingKept
  <1>4. ASSUME NEW s \in Device, s # d
        PROVE  /\ Orderly(out[s], Passing(id)', id)
               /\ After(out[s], Passing(id), id) \subseteq After(out[s], Passing(id)', id)
               /\ out'[s] = out[s] /\ serving'[s] = serving[s]
    <2>1. out[s] \in Seq(Message) /\ Orderly(out[s], Passing(id), id)
      BY <1>0 DEF OutOrderly
    <2>2. Passing(id) \cap Chunk \subseteq Passing(id)'
      BY <1>3
    <2> QED BY <1>0, <1>1, <1>4, <2>1, <2>2, ChunkData, OrderlyMore
  <1>5. out'[d] = <<>> /\ serving'[d] = None
    BY <1>0, <1>1
  <1>6. OutOrderly(id)'
    BY <1>4, <1>5, OrderlyEmpty DEF OutOrderly
  <1>7. ServingOrderly(id)'
    <2> SUFFICES ASSUME NEW s \in Device, serving'[s] # None, serving'[s].id = id
                 PROVE  NextChunk(s)' \in After(out'[s], Passing(id)', id)
      BY DEF ServingOrderly
    <2>1. s # d
      BY <1>5
    <2>2. NextChunk(s)' = NextChunk(s) /\ serving[s] # None /\ serving[s].id = id
      BY <1>4, <2>1 DEF NextChunk
    <2> QED BY <1>0, <1>4, <2>1, <2>2 DEF ServingOrderly
  <1>8. NoneGarbled(id)'
    BY <1>0, <1>1 DEF NoneGarbled
  <1> QED BY <1>3, <1>6, <1>7, <1>8 DEF BodyOrderly

LEMMA BodyReconnect ==
    ASSUME PullTypeOK, WholeBasics, NEW d \in Device, Reconnect(d), NEW id \in Id, BodyOrderly(id)
    PROVE  BodyOrderly(id)'
  <1> DEFINE welcome == [i \in DOMAIN head |->
                           [type |-> "signal", id |-> head[i].id, origin |-> head[i].origin]]
  <1>0. /\ DownOrderly(id) /\ Blank(id) /\ OutOrderly(id) /\ ServingOrderly(id) /\ NoneGarbled(id)
        /\ down \in [Device -> Seq(Message)] /\ head \in Seq(Signal)
    BY DEF BodyOrderly, PullTypeOK
  <1>1. /\ UNCHANGED <<puller, asker, crossed, garbled, out, serving, fetches>>
        /\ down' = [down EXCEPT ![d] = welcome] /\ ~conn[d]
    BY DEF Reconnect, relayVars, fetchVars, pullHistory
  <1>2. fetches[d] = NoFetch
    BY <1>1 DEF WholeBasics, OffEmpty
  <1>3. welcome \in Seq(Message) /\ \A k \in DOMAIN welcome : ~Of(welcome[k], id)
    <2>1. \A i \in DOMAIN head : head[i].id \in Id /\ head[i].origin \in Device
      <3>1. \A i \in DOMAIN head : head[i] \in Signal
        BY <1>0
      <3> QED BY <3>1 DEF Signal
    <2>2. \A i \in DOMAIN head :
             [type |-> "signal", id |-> head[i].id, origin |-> head[i].origin] \in Message
      BY <2>1 DEF Message
    <2>3. welcome \in Seq(Message)
      BY <1>0, <2>2
    <2> QED BY <2>3 DEF Of
  <1> HIDE DEF welcome
  <1>4. \A e \in Device : ArrivalsKept(e, id)
    <2> SUFFICES ASSUME NEW e \in Device PROVE ArrivalsKept(e, id)
      OBVIOUS
    <2>1. CASE e = d
      <3>1. down'[e] = welcome /\ fetches'[e][id] = None
        BY <1>0, <1>1, <1>2, <2>1 DEF NoFetch
      <3>2. Fitting(None) = Chunk
        BY DEF Fitting, Fits
      <3>3. Arriving(e, id) \subseteq Chunk
        BY DEF Arriving, After
      <3>4. Orderly(welcome, Chunk, id) /\ Chunk \cap Chunk \subseteq After(welcome, Chunk, id)
        BY <1>3, OrderlyNone
      <3> QED BY <3>1, <3>2, <3>3, <3>4 DEF ArrivalsKept
    <2>2. CASE e # d
      <3>1. down'[e] = down[e] /\ fetches'[e] = fetches[e]
        BY <1>0, <1>1, <2>2
      <3> QED BY <3>1, ArrivalsSame
    <2> QED BY <2>1, <2>2
  <1>5. DownOrderly(id)' /\ Blank(id)' /\ Passing(id) \subseteq Passing(id)'
    BY <1>0, <1>1, <1>4, PassingKept
  <1>6. OutOrderly(id)' /\ ServingOrderly(id)'
    BY <1>0, <1>1, <1>5, OutKept
  <1>7. NoneGarbled(id)'
    BY <1>0, <1>1 DEF NoneGarbled
  <1> QED BY <1>5, <1>6, <1>7 DEF BodyOrderly

\* A body is published: its signal is no message of a body.
LEMMA BodyPublish ==
    ASSUME PullTypeOK, NEW d \in Device, NEW x \in Id, PublishBody(d, x), NEW id \in Id,
           BodyOrderly(id)
    PROVE  BodyOrderly(id)'
  <1> DEFINE m == [type |-> "signal", id |-> x, origin |-> d]
  <1>0. DownOrderly(id) /\ Blank(id) /\ OutOrderly(id) /\ ServingOrderly(id) /\ NoneGarbled(id)
    BY DEF BodyOrderly
  <1>1. /\ UNCHANGED <<puller, asker, crossed, garbled, conn, down, serving, fetches>>
        /\ Send(d, <<m>>)
    BY DEF PublishBody, relayVars, fetchVars
  <1>2. m \in Message /\ ~Of(m, id)
    BY DEF Message, Of
  <1> HIDE DEF m
  <1>3. \A e \in Device : ArrivalsKept(e, id)
    BY <1>1, ArrivalsSame
  <1>4. DownOrderly(id)' /\ Blank(id)' /\ Passing(id) \subseteq Passing(id)'
    BY <1>0, <1>1, <1>3, PassingKept
  <1>5. OutOrderly(id)' /\ ServingOrderly(id)'
    BY <1>0, <1>1, <1>2, <1>4, OutKeptOther
  <1>6. NoneGarbled(id)'
    BY <1>0, <1>1 DEF NoneGarbled
  <1> QED BY <1>4, <1>5, <1>6 DEF BodyOrderly

LEMMA BodySame ==
    ASSUME PullTypeOK, NEW id \in Id, BodyOrderly(id),
           UNCHANGED <<puller, asker, crossed, garbled, down, out, serving, fetches>>
    PROVE  BodyOrderly(id)'
  <1>0. DownOrderly(id) /\ Blank(id) /\ OutOrderly(id) /\ ServingOrderly(id) /\ NoneGarbled(id)
    BY DEF BodyOrderly
  <1>1. \A e \in Device : ArrivalsKept(e, id)
    BY ArrivalsSame
  <1>2. DownOrderly(id)' /\ Blank(id)' /\ Passing(id) \subseteq Passing(id)'
    BY <1>0, <1>1, PassingKept
  <1>3. OutOrderly(id)' /\ ServingOrderly(id)'
    BY <1>0, <1>2, OutKept
  <1>4. NoneGarbled(id)'
    BY <1>0 DEF NoneGarbled
  <1> QED BY <1>2, <1>3, <1>4 DEF BodyOrderly

-----------------------------------------------------------------------------

\* What holds of all bodies is kept.
LEMMA PullerAskedStep ==
    ASSUME PullTypeOK, PullerAsked, [PullNext]_pullVars
    PROVE  PullerAsked'
  <1>1. puller \in [Id -> Device \cup {None}] /\ asker \in [Id -> Device \cup {None}]
    BY DEF PullTypeOK
  <1>2. CASE UNCHANGED <<puller, asker>>
    BY <1>2 DEF PullerAsked
  <1>3. ASSUME NEW d \in Device, RelayTakes(d) PROVE PullerAsked'
    <2> DEFINE m == Head(out[d])
    <2>1. CASE RelayRequest(d, m)
      <3>1. \/ UNCHANGED <<puller, asker>>
            \/ puller' = [puller EXCEPT ![m.id] = d] /\ asker' = [asker EXCEPT ![m.id] = d]
        BY <2>1 DEF RelayRequest
      <3> HIDE DEF m
      <3> QED BY <1>1, <1>2, <3>1 DEF PullerAsked
    <2>2. CASE RelayPasses(d, m)
      <3>1. asker' = asker /\ (puller' = puller \/ puller' = [puller EXCEPT ![m.id] = None])
        BY <2>2 DEF RelayPasses
      <3> HIDE DEF m
      <3> QED BY <1>1, <3>1 DEF PullerAsked
    <2>3. CASE RelaySignal(d, m)
      BY <1>2, <2>3 DEF RelaySignal
    <2> QED BY <1>3, <2>1, <2>2, <2>3 DEF RelayTakes
  <1>4. CASE UNCHANGED pullVars
    BY <1>2, <1>4 DEF pullVars, relayVars, pullHistory
  <1>5. ASSUME NEW d \in Device,
               \/ \E id \in Id : PublishBody(d, id) \/ ExpireBody(d, id)
               \/ SessionStep(d) \/ LoseConnection(d) \/ Reconnect(d)
        PROVE  UNCHANGED <<puller, asker>>
    BY <1>5 DEF PublishBody, ExpireBody, SessionStep, IgnoreSignal, AskForBody, HearPull,
       ServeChunk, HearBegin, HearChunk, HearReject, LoseConnection, Reconnect, relayVars, pullHistory
  <1> QED BY <1>2, <1>3, <1>4, <1>5 DEF PullNext

LEMMA OffEmptyStep ==
    ASSUME PullTypeOK, OffEmpty, [PullNext]_pullVars
    PROVE  OffEmpty'
  <1>0. /\ conn \in [Device -> BOOLEAN] /\ down \in [Device -> Seq(Message)]
        /\ serving \in [Device -> [id : Id, seal : Seal, sent : 0 .. Chunks - 1] \cup {None}]
        /\ fetches \in [Device -> [Id -> Seq(Chunk) \cup {None}]]
    BY DEF PullTypeOK
  <1>1. CASE UNCHANGED <<conn, down, serving, fetches>>
    BY <1>1 DEF OffEmpty
  <1>2. ASSUME NEW d \in Device, SessionStep(d) PROVE OffEmpty'
    <2>1. down[d] # <<>> \/ serving[d] # None
      BY <1>2 DEF SessionStep, IgnoreSignal, AskForBody, HearPull, ServeChunk, HearBegin, HearChunk,
         HearReject, Hears, Free
    <2>2. conn[d]
      BY <2>1 DEF OffEmpty
    <2>3. /\ conn' = conn
          /\ down' = down \/ Took(d)
          /\ serving' = serving \/ \E x : serving' = [serving EXCEPT ![d] = x]
          /\ fetches' = fetches \/ \E x, i : fetches' = [fetches EXCEPT ![d] = [fetches[d] EXCEPT ![i] = x]]
      <3>1. CASE IgnoreSignal(d) \/ AskForBody(d)
        BY <3>1 DEF IgnoreSignal, AskForBody, fetchVars
      <3>2. CASE HearPull(d)
        BY <3>2 DEF HearPull, fetchVars
      <3>3. CASE ServeChunk(d)
        BY <3>3 DEF ServeChunk, fetchVars
      <3>4. CASE HearBegin(d)
        BY <3>4 DEF HearBegin
      <3>5. CASE HearChunk(d)
        BY <3>5 DEF HearChunk
      <3>6. CASE HearReject(d)
        BY <3>6 DEF HearReject
      <3> QED BY <1>2, <3>1, <3>2, <3>3, <3>4, <3>5, <3>6 DEF SessionStep
    <2>4. \A e \in Device \ {d} : down'[e] = down[e] /\ serving'[e] = serving[e] /\ fetches'[e] = fetches[e]
      BY <1>0, <2>3 DEF Took
    <2> QED BY <2>2, <2>3, <2>4 DEF OffEmpty
  <1>3. ASSUME NEW d \in Device, RelayTakes(d) PROVE OffEmpty'
    <2> DEFINE m == Head(out[d])
    <2>1. UNCHANGED <<conn, serving, fetches>>
      BY <1>3 DEF RelayTakes, fetchVars
    <2>2. \A e \in Device : ~conn[e] => down'[e] = down[e]
      <3>1. CASE RelaySignal(d, m)
        BY <3>1 DEF RelaySignal
      <3>2. \A x, n : \A e \in Device : ~conn[e] => Passed(x, n)[e] = down[e]
        BY <1>0 DEF Passed
      <3>3. CASE RelayRequest(d, m)
        BY <3>2, <3>3 DEF RelayRequest
      <3>4. CASE RelayPasses(d, m)
        BY <3>2, <3>4 DEF RelayPasses
      <3> QED BY <1>3, <3>1, <3>3, <3>4 DEF RelayTakes
    <2> QED BY <2>1, <2>2 DEF OffEmpty
  <1>4. ASSUME NEW d \in Device, LoseConnection(d) PROVE OffEmpty'
    BY <1>0, <1>4 DEF LoseConnection, OffEmpty
  <1>5. ASSUME NEW d \in Device, Reconnect(d) PROVE OffEmpty'
    <2>1. UNCHANGED <<serving, fetches>>
      BY <1>5 DEF Reconnect, fetchVars
    <2>2. \A e \in Device : ~conn'[e] => e # d /\ ~conn[e] /\ down'[e] = down[e]
      BY <1>0, <1>5 DEF Reconnect
    <2> QED BY <2>1, <2>2 DEF OffEmpty
  <1>6. ASSUME NEW d \in Device, NEW id \in Id, PublishBody(d, id) \/ ExpireBody(d, id)
        PROVE  OffEmpty'
    BY <1>1, <1>6 DEF PublishBody, ExpireBody, netVars, fetchVars
  <1>7. CASE UNCHANGED pullVars
    BY <1>1, <1>7 DEF pullVars, netVars, fetchVars
  <1> QED BY <1>2, <1>3, <1>4, <1>5, <1>6, <1>7 DEF PullNext

\* A device sends what it has published.
LEMMA SendersServeStep ==
    ASSUME PullTypeOK, HeadInv, SendersServe, [PullNext]_pullVars
    PROVE  SendersServe'
  <1>0. /\ out \in [Device -> Seq(Message)] /\ senders \in [Id -> SUBSET Device]
        /\ serving \in [Device -> [id : Id, seal : Seal, sent : 0 .. Chunks - 1] \cup {None}]
    BY DEF PullTypeOK
  <1>1. CASE UNCHANGED <<out, serving, senders>>
    BY <1>1 DEF SendersServe
  <1>2. ASSUME NEW d \in Device, NEW m \in Message, Send(d, <<m>>),
               m.type \in {"begin", "chunk"} => d \in senders[m.id],
               \A i \in Id : senders[i] \subseteq senders'[i],
               \A s \in Device : serving'[s] # None =>
                  serving'[s].id \in Id /\ (serving'[s] = serving[s] \/ s \in senders[serving'[s].id])
        PROVE  SendersServe'
    <2>1. out' = [out EXCEPT ![d] = IF conn[d] THEN Append(out[d], m) ELSE out[d]]
            /\ DOMAIN Append(out[d], m) = DOMAIN out[d] \cup {Len(out[d]) + 1}
            /\ (\A k \in DOMAIN out[d] : Append(out[d], m)[k] = out[d][k])
            /\ Append(out[d], m)[Len(out[d]) + 1] = m
      BY <1>2, SentOne
    <2>2. ASSUME NEW s \in Device, NEW k \in DOMAIN out'[s], out'[s][k].type \in {"begin", "chunk"}
          PROVE  s \in senders'[out'[s][k].id]
      <3>1. CASE k \in DOMAIN out[s] /\ out'[s][k] = out[s][k]
        <4>1. out[s][k] \in Message
          BY <1>0, <3>1
        <4>2. out[s][k].id \in Id
          BY <4>1, MessageFields
        <4>3. s \in senders[out[s][k].id]
          BY <2>2, <3>1 DEF SendersServe
        <4> QED BY <1>2, <3>1, <4>2, <4>3
      <3>2. CASE s = d /\ out'[s][k] = m
        <4>1. m.id \in Id
          BY <1>2, MessageFields
        <4> QED BY <1>2, <2>2, <3>2, <4>1
      <3>3. out'[s] = out[s] \/ (s = d /\ out'[s] = Append(out[d], m))
        BY <1>0, <2>1
      <3> QED BY <2>1, <2>2, <3>1, <3>2, <3>3
    <2>3. ASSUME NEW s \in Device, serving'[s] # None
          PROVE  s \in senders'[serving'[s].id]
      BY <1>2, <2>3 DEF SendersServe
    <2> QED BY <2>2, <2>3 DEF SendersServe
  <1>3. ASSUME NEW d \in Device, NEW id \in Id, PublishBody(d, id) PROVE SendersServe'
    <2> DEFINE m == [type |-> "signal", id |-> id, origin |-> d]
    <2>1. m \in Message /\ m.type \notin {"begin", "chunk"}
      BY DEF Message
    <2>2. Send(d, <<m>>) /\ serving' = serving /\ senders' = [senders EXCEPT ![id] = @ \cup {d}]
      BY <1>3 DEF PublishBody
    <2>3. \A i \in Id : senders[i] \subseteq senders'[i]
      BY <1>0, <2>2
    <2>4. \A s \in Device : serving[s] # None => serving[s].id \in Id
      BY <1>0
    <2> HIDE DEF m
    <2> QED BY <1>2, <2>1, <2>2, <2>3, <2>4
  <1>4. ASSUME NEW d \in Device, SessionStep(d) PROVE SendersServe'
    <2>0. senders' = senders /\ \A s \in Device : serving[s] # None => serving[s].id \in Id
      BY <1>0, <1>4 DEF SessionStep, IgnoreSignal, AskForBody, HearPull, ServeChunk, HearBegin,
         HearChunk, HearReject, pullHistory
    <2>1. CASE IgnoreSignal(d) \/ HearBegin(d) \/ HearChunk(d) \/ HearReject(d)
      BY <1>1, <2>0, <2>1 DEF IgnoreSignal, HearBegin, HearChunk, HearReject
    <2>2. CASE AskForBody(d)
      <3> DEFINE m == [type |-> "request", id |-> Next1(d).id]
      <3>1. Next1(d) \in Message
        BY <2>2, TookType DEF AskForBody
      <3>2. m \in Message /\ m.type \notin {"begin", "chunk"}
        BY <3>1, MessageFields DEF Message
      <3>3. Send(d, <<m>>) /\ serving' = serving
        BY <2>2 DEF AskForBody
      <3> HIDE DEF m
      <3> QED BY <1>2, <2>0, <3>2, <3>3
    <2>3. CASE HearPull(d)
      <3> DEFINE x == Next1(d).id
                 begin == [type |-> "begin", id |-> x]
                 reject == [type |-> "reject", id |-> x]
                 new == [id |-> x, seal |-> bodies[d][x], sent |-> 0]
      <3>1. Next1(d) \in Message
        BY <2>3, TookType DEF HearPull
      <3>2. x \in Id /\ begin \in Message /\ reject \in Message
        BY <3>1, MessageFields DEF Message
      <3>3. \/ Servable(d, x) /\ Send(d, <<begin>>) /\ serving' = [serving EXCEPT ![d] = new]
            \/ Send(d, <<reject>>) /\ serving' = serving
        BY <2>3 DEF HearPull
      <3>4. CASE Send(d, <<reject>>) /\ serving' = serving
        <4>1. reject.type \notin {"begin", "chunk"}
          OBVIOUS
        <4> HIDE DEF reject
        <4> QED BY <1>2, <2>0, <3>2, <3>4, <4>1
      <3>5. CASE Servable(d, x) /\ Send(d, <<begin>>) /\ serving' = [serving EXCEPT ![d] = new]
        <4>1. d \in senders[x]
          BY <3>5 DEF Servable, HeadInv, CachePublished, Published
        <4>2. serving'[d] = new /\ new.id = x /\ begin.id = x
                /\ \A s \in Device \ {d} : serving'[s] = serving[s]
          BY <1>0, <3>5
        <4> HIDE DEF begin, new, x
        <4> QED BY <1>2, <2>0, <3>2, <3>5, <4>1, <4>2
      <3> QED BY <3>3, <3>4, <3>5
    <2>4. CASE ServeChunk(d)
      <3> DEFINE s == serving[d]
                 data == [seal |-> s.seal, index |-> s.sent + 1]
                 m == [type |-> "chunk", id |-> s.id, data |-> data]
                 rest == [s EXCEPT !.sent = s.sent + 1]
      <3>1. s # None /\ s \in [id : Id, seal : Seal, sent : 0 .. Chunks - 1]
        BY <1>0, <2>4 DEF ServeChunk, Free
      <3>2. /\ Send(d, <<m>>)
            /\ serving' = [serving EXCEPT ![d] = IF s.sent + 1 = Chunks THEN None ELSE rest]
        BY <2>4 DEF ServeChunk
      <3>3. d \in senders[s.id]
        BY <3>1 DEF SendersServe
      <3> HIDE DEF s
      <3>4. s.sent + 1 \in 1 .. Chunks
        BY <3>1, PullAssumption
      <3>5. data \in Chunk
        BY <3>1, <3>4 DEF Chunk
      <3> HIDE DEF data
      <3>6. m \in Message /\ m.id = s.id
        BY <3>1, <3>5 DEF Message
      <3>7. rest.id = s.id
        BY <3>1
      <3> HIDE DEF m, rest
      <3>8. /\ serving'[d] = None \/ serving'[d] = rest
            /\ \A e \in Device \ {d} : serving'[e] = serving[e]
        BY <1>0, <3>2
      <3> QED BY <1>2, <2>0, <3>1, <3>2, <3>3, <3>6, <3>7, <3>8
    <2> QED BY <1>4, <2>1, <2>2, <2>3, <2>4 DEF SessionStep
  <1>5. ASSUME NEW d \in Device, RelayTakes(d) PROVE SendersServe'
    <2>1. UNCHANGED <<serving, senders>> /\ out' = [out EXCEPT ![d] = Tail(out[d])] /\ out[d] # <<>>
      BY <1>5 DEF RelayTakes
    <2>2. \A k \in DOMAIN Tail(out[d]) : k + 1 \in DOMAIN out[d] /\ Tail(out[d])[k] = out[d][k + 1]
      BY <1>0, <2>1
    <2>3. out'[d] = Tail(out[d]) /\ \A s \in Device \ {d} : out'[s] = out[s]
      BY <1>0, <2>1
    <2> QED BY <2>1, <2>2, <2>3 DEF SendersServe
  <1>6. ASSUME NEW d \in Device, LoseConnection(d) PROVE SendersServe'
    BY <1>0, <1>6 DEF LoseConnection, SendersServe
  <1>7. ASSUME NEW d \in Device, Reconnect(d) PROVE SendersServe'
    BY <1>1, <1>7 DEF Reconnect, pullHistory
  <1>8. ASSUME NEW d \in Device, NEW id \in Id, ExpireBody(d, id) PROVE SendersServe'
    BY <1>1, <1>8 DEF ExpireBody, netVars, pullHistory
  <1>9. CASE UNCHANGED pullVars
    BY <1>1, <1>9 DEF pullVars, netVars, pullHistory
  <1> QED BY <1>3, <1>4, <1>5, <1>6, <1>7, <1>8, <1>9 DEF PullNext

\* At most one sender is added to one id.
SenderAdded ==
    \/ senders' = senders
    \/ \E d \in Device, i \in Id : senders' = [senders EXCEPT ![i] = senders[i] \cup {d}]

\* Senders are added, one at a time.
LEMMA SendersGrow ==
    ASSUME PullTypeOK, [PullNext]_pullVars, NEW id \in Id
    PROVE  \/ senders'[id] = senders[id]
           \/ \E d \in Device : senders'[id] = senders[id] \cup {d}
  <1>0. senders \in [Id -> SUBSET Device]
    BY DEF PullTypeOK
  <1>1. SenderAdded
    <2>1. ASSUME NEW d \in Device, NEW i \in Id, PublishBody(d, i) \/ ExpireBody(d, i) PROVE SenderAdded
      BY <2>1 DEF SenderAdded, PublishBody, ExpireBody, pullHistory
    <2>2. ASSUME NEW d \in Device, IgnoreSignal(d) \/ AskForBody(d) \/ ServeChunk(d) PROVE SenderAdded
      BY <2>2 DEF SenderAdded, IgnoreSignal, AskForBody, ServeChunk, pullHistory
    <2>3. ASSUME NEW d \in Device, HearPull(d) \/ HearBegin(d) PROVE SenderAdded
      BY <2>3 DEF SenderAdded, HearPull, HearBegin, pullHistory
    <2>4. ASSUME NEW d \in Device, HearChunk(d) \/ HearReject(d) PROVE SenderAdded
      BY <2>4 DEF SenderAdded, HearChunk, HearReject, pullHistory
    <2>5. ASSUME NEW d \in Device, RelayTakes(d) \/ LoseConnection(d) \/ Reconnect(d) PROVE SenderAdded
      BY <2>5 DEF SenderAdded, RelayTakes, LoseConnection, Reconnect, pullHistory
    <2>6. ASSUME UNCHANGED pullVars PROVE SenderAdded
      BY <2>6 DEF SenderAdded, pullVars, pullHistory
    <2>7. ASSUME NEW d \in Device, SessionStep(d) PROVE SenderAdded
      BY <2>2, <2>3, <2>4, <2>7 DEF SessionStep
    <2>8. ASSUME PullNext PROVE SenderAdded
      <3>1. PICK d \in Device :
              \/ \E i \in Id : PublishBody(d, i) \/ ExpireBody(d, i)
              \/ SessionStep(d)
              \/ RelayTakes(d) \/ LoseConnection(d) \/ Reconnect(d)
        BY <2>8 DEF PullNext
      <3> QED
        BY <2>1, <2>5, <2>7, <3>1
    <2> QED BY <2>6, <2>8
  <1>2. CASE senders' = senders
    BY <1>2
  <1>3. ASSUME NEW d \in Device, NEW i \in Id, senders' = [senders EXCEPT ![i] = senders[i] \cup {d}]
        PROVE  senders'[id] = senders[id] \/ senders'[id] = senders[id] \cup {d}
    <2>1. CASE i = id
      BY <1>0, <1>3, <2>1
    <2>2. CASE i # id
      BY <1>0, <1>3, <2>2
    <2> QED BY <2>1, <2>2
  <1> QED BY <1>1, <1>2, <1>3 DEF SenderAdded

LEMMA WholeInvInit == PullInit => WholeInv
  <1> SUFFICES ASSUME PullInit PROVE WholeInv
    OBVIOUS
  <1>1. /\ puller = [id \in Id |-> None] /\ asker = [id \in Id |-> None]
        /\ out = [d \in Device |-> <<>>] /\ down = [d \in Device |-> <<>>]
        /\ serving = [d \in Device |-> None] /\ fetches = [d \in Device |-> NoFetch]
        /\ senders = [id \in Id |-> {}] /\ garbled = {}
    BY DEF PullInit
  <1>2. PullerAsked /\ OffEmpty /\ SendersServe
    BY <1>1 DEF PullerAsked, OffEmpty, SendersServe
  <1>3. SendersFinite
    BY <1>1, FS_EmptySet DEF SendersFinite
  <1>4. ASSUME NEW id \in Id PROVE BodyOrderly(id)
    <2>1. DownOrderly(id) /\ OutOrderly(id)
      BY <1>1, OrderlyEmpty DEF DownOrderly, OutOrderly
    <2>2. Blank(id)
      BY <1>1, ArrivingOff DEF Blank
    <2>3. ServingOrderly(id) /\ NoneGarbled(id)
      BY <1>1 DEF ServingOrderly, NoneGarbled
    <2> QED BY <2>1, <2>2, <2>3 DEF BodyOrderly
  <1> QED BY <1>2, <1>3, <1>4 DEF WholeInv

LEMMA WholeInvStep == PullTypeOK /\ HeadInv /\ WholeInv /\ [PullNext]_pullVars => WholeInv'
  <1> SUFFICES ASSUME PullTypeOK, HeadInv, WholeInv, [PullNext]_pullVars PROVE WholeInv'
    OBVIOUS
  <1>1. WholeBasics
    BY DEF WholeInv, WholeBasics
  <1>2. PullerAsked' /\ OffEmpty' /\ SendersServe'
    BY <1>1, PullerAskedStep, OffEmptyStep, SendersServeStep DEF WholeBasics
  <1>3. SendersFinite'
    <2> SUFFICES ASSUME NEW id \in Id PROVE IsFiniteSet(senders'[id])
      BY DEF SendersFinite
    <2>1. IsFiniteSet(senders[id])
      BY <1>1 DEF WholeBasics, SendersFinite
    <2>2. \A d : IsFiniteSet(senders[id] \cup {d})
      BY <2>1, FS_AddElement
    <2> QED BY <2>1, <2>2, SendersGrow
  <1>4. ASSUME NEW id \in Id, Sole(id)' PROVE BodyOrderly(id)'
    <2>1. Sole(id)
      BY <1>4, SendersGrow DEF Sole
    <2>2. BodyOrderly(id)
      BY <2>1 DEF WholeInv
    <2>3. ASSUME NEW d \in Device, NEW x \in Id, PublishBody(d, x) PROVE BodyOrderly(id)'
      BY <2>2, <2>3, BodyPublish
    <2>4. ASSUME NEW d \in Device, NEW x \in Id, ExpireBody(d, x) PROVE BodyOrderly(id)'
      <3>1. UNCHANGED <<puller, asker, crossed, garbled, down, out, serving, fetches>>
        BY <2>4 DEF ExpireBody, relayVars, netVars, fetchVars, pullHistory
      <3> QED BY <2>2, <3>1, BodySame
    <2>5. CASE UNCHANGED pullVars
      <3>1. UNCHANGED <<puller, asker, crossed, garbled, down, out, serving, fetches>>
        BY <2>5 DEF pullVars, relayVars, netVars, fetchVars, pullHistory
      <3> QED BY <2>2, <3>1, BodySame
    <2>6. ASSUME NEW d \in Device, SessionStep(d) PROVE BodyOrderly(id)'
      BY <1>1, <2>2, <2>6, BodySession
    <2>7. ASSUME NEW d \in Device, RelayTakes(d) PROVE BodyOrderly(id)'
      BY <1>1, <2>1, <2>2, <2>7, BodyRelay
    <2>8. ASSUME NEW d \in Device, LoseConnection(d) PROVE BodyOrderly(id)'
      BY <2>2, <2>8, BodyLose
    <2>9. ASSUME NEW d \in Device, Reconnect(d) PROVE BodyOrderly(id)'
      BY <1>1, <2>2, <2>9, BodyReconnect
    <2> QED BY <2>3, <2>4, <2>5, <2>6, <2>7, <2>8, <2>9 DEF PullNext
  <1>5. \A id \in Id : Sole(id)' => BodyOrderly(id)'
    BY <1>4
  <1> QED BY <1>2, <1>3, <1>5 DEF WholeInv

LEMMA WholeInvImplies == PullTypeOK /\ WholeInv => WholeUnlessCrossed
  <1> SUFFICES ASSUME PullTypeOK, WholeInv, NEW r \in garbled, r \notin crossed
               PROVE  Cardinality(senders[r[2]]) > 1
    BY DEF WholeUnlessCrossed
  <1>1. PICK d \in Device, id \in Id : r = <<d, id>>
    BY DEF PullTypeOK, Request
  <1>2. ~Sole(id)
    BY <1>1 DEF WholeInv, BodyOrderly, NoneGarbled
  <1>3. PICK a \in senders[id], b \in senders[id] : a # b
    BY <1>2 DEF Sole
  <1>4. IsFiniteSet(senders[id])
    BY DEF WholeInv, SendersFinite
  <1>5. IsFiniteSet({a, b}) /\ Cardinality({a, b}) = 2
    <2>1. IsFiniteSet({}) /\ Cardinality({}) = 0
      BY FS_EmptySet
    <2>2. \A S, x : IsFiniteSet(S) /\ x \notin S =>
              IsFiniteSet(S \cup {x}) /\ Cardinality(S \cup {x}) = Cardinality(S) + 1
      BY FS_AddElement
    <2>3. IsFiniteSet({} \cup {a}) /\ Cardinality({} \cup {a}) = 0 + 1
      BY <2>1, <2>2
    <2>4. {} \cup {a} = {a}
      OBVIOUS
    <2>5. IsFiniteSet({a}) /\ Cardinality({a}) = 1
      BY <2>3, <2>4
    <2>6. b \notin {a}
      BY <1>3
    <2>7. IsFiniteSet({a} \cup {b}) /\ Cardinality({a} \cup {b}) = 1 + 1
      BY <2>2, <2>5, <2>6
    <2>8. {a} \cup {b} = {a, b}
      OBVIOUS
    <2> QED BY <2>7, <2>8
  <1>8. {a, b} \in SUBSET senders[id]
    OBVIOUS
  <1>9. 2 <= Cardinality(senders[id]) /\ Cardinality(senders[id]) \in Nat
    BY <1>4, <1>5, <1>8, FS_Subset, FS_CardinalityType
  <1> QED BY <1>1, <1>9

\* WholeUnlessCrossed, for any number of devices, clips, chunks and requests: what is
\* under way to a requester is at all times a body in order, or what it ignores.
THEOREM WholeAlways == PullSpec => []WholeUnlessCrossed
  BY PullTypeInit, PullTypeStep, HeadInvInit, HeadInvStep, WholeInvInit, WholeInvStep,
     WholeInvImplies, PTL DEF PullSpec
=============================================================================
