----------------------------- MODULE ContentPull -----------------------------
(***************************************************************************)
(* How a body that is too large for a signal is pulled: the requester asks *)
(* the relay, the relay asks the origin, the origin sends the body in      *)
(* chunks, the relay passes them on (crates/sb-server/src/lib.rs; the      *)
(* session task of src-tauri/src/worker.rs; SendCache and pending of       *)
(* crates/sb-core/src/engine.rs; the channels of crates/sb-net/src/conn.rs *)
(* and of handle_conn).                                                    *)
(*                                                                         *)
(* A device has one task for all it receives.  While that task serves a    *)
(* body it holds the core lock and waits for room in a bounded channel, so *)
(* it neither receives nor copies; the queues of the relay have no bound.  *)
(*                                                                         *)
(* Which of two clips is newer is the matter of ClipSync: here a signal is *)
(* asked for or not.  The clips are those whose body does not travel with  *)
(* the signal.  A body sealed anew has a new ciphertext.                   *)
(***************************************************************************)
EXTENDS Naturals, Sequences, FiniteSets

CONSTANTS
    None,         \* Option::None
    Device,       \* the members
    Id,           \* content ids, numbered as they are first published
    Chunks,       \* chunks of a body
    Room,         \* places of the channel to the writer of a connection, 64 in the code
    CacheItems,   \* SEND_CACHE_ITEMS, 5 in the code
    HeadDepth,    \* HEAD_CACHE_DEPTH, 4 in the code
    Limits        \* bounds on what happens, of which a behaviour has one

\* The devices that are on, the ids published, how many clips each device
\* publishes, how often each loses its connection, and how many bodies outlive
\* their five minutes.
Limit ==
    [on : SUBSET Device, ids : SUBSET Id, copies : [Device -> Nat], breaks : [Device -> Nat],
     expiries : Nat]

ASSUME PullAssumption ==
    /\ None \notin Device \cup Id
    /\ {Chunks, Room, CacheItems, HeadDepth} \subseteq Nat \ {0}
    /\ HeadDepth <= CacheItems
    /\ Id = 1 .. Cardinality(Id)
    /\ Limits \subseteq Limit

VARIABLES
    head,      \* head_cache: the signals kept, oldest first
    puller,    \* puller[id]: pending_pull, who gets what comes under that id
    conn,      \* conn[d]: d has a session
    out,       \* out[d]: messages of d the relay has not read
    down,      \* down[d]: messages the relay has sent and d has not taken
    order,     \* order[d]: SendCache.order
    bodies,    \* bodies[d]: SendCache.map, as the sealing kept for each id in order
    stale,     \* stale[d]: the ids whose time in the send cache is over
    serving,   \* serving[d]: the body the session task is sending, or None
    pending,   \* pending[d]: SyncEngine.pending
    fetches,   \* fetches[d]: what has been received under each id since its Begin
    copies, breaks, expiries,  \* how much of each bound is used
    limit,     \* the bounds of this behaviour
    senders,   \* history: senders[id] devices that published that id
    heard,     \* history: heard[d] signals of d the relay has taken
    again,     \* history: again[d] ids copied again while their body was in the cache
    aged,      \* history: aged[d] ids whose five minutes passed since d last copied them
    asked,     \* history: asked[d] ids requested by d and not answered
    asker,     \* history: asker[id]: who asked the relay for that id last
    crossed,   \* history: requests another device's request came across
    broken,    \* history: requests the break of another device came across
    garbled    \* history: requests whose complete body did not open

relayVars == <<head, puller>>
netVars == <<conn, out, down>>
cacheVars == <<order, bodies, stale>>
fetchVars == <<pending, fetches>>
pullBounds == <<copies, breaks, expiries, limit>>
cacheHistory == <<heard, again, aged>>
pullHistory == <<senders, cacheHistory, asked, asker, crossed, broken, garbled>>
pullVars == <<relayVars, netVars, cacheVars, serving, fetchVars, pullBounds, pullHistory>>

Seal == [by : Device, n : Nat]
Signal == [id : Id, origin : Device]
Chunk == [seal : Seal, index : 1 .. Chunks]
Request == Device \X Id

\* What goes either way; a chunk carries the part of the sealing it is of.
Message ==
    [type : {"signal"}, id : Id, origin : Device]
        \cup [type : {"request", "pull", "begin", "reject"}, id : Id]
        \cup [type : {"chunk"}, id : Id, data : Chunk]

PullTypeOK ==
    /\ head \in Seq(Signal) /\ Len(head) <= HeadDepth
    /\ puller \in [Id -> Device \cup {None}]
    /\ conn \in [Device -> BOOLEAN]
    /\ {out, down} \subseteq [Device -> Seq(Message)]
    /\ \A d \in Device : Len(out[d]) <= Room
    /\ order \in [Device -> Seq(Id)]
    /\ \A d \in Device : Len(order[d]) <= CacheItems
    /\ DOMAIN bodies = Device
    /\ \A d \in Device : bodies[d] \in [{order[d][i] : i \in DOMAIN order[d]} -> Seal]
    /\ stale \in [Device -> SUBSET Id]
    /\ serving \in [Device -> [id : Id, seal : Seal, sent : 0 .. Chunks - 1] \cup {None}]
    /\ pending \in [Device -> SUBSET Id]
    /\ fetches \in [Device -> [Id -> Seq(Chunk) \cup {None}]]
    /\ {copies, breaks} \subseteq [Device -> Nat] /\ expiries \in Nat
    /\ limit \in Limits
    /\ senders \in [Id -> SUBSET Device]
    /\ heard \in [Device -> Nat]
    /\ {again, aged} \subseteq [Device -> SUBSET Id]
    /\ asked \in [Device -> SUBSET Id]
    /\ asker \in [Id -> Device \cup {None}]
    /\ {crossed, broken, garbled} \subseteq SUBSET Request

NoFetch == [id \in Id |-> None]

\* Who is on is connected, nothing has been copied.
PullInit ==
    /\ head = <<>>
    /\ puller = [id \in Id |-> None]
    /\ limit \in Limits
    /\ conn = [d \in Device |-> d \in limit.on]
    /\ out = [d \in Device |-> <<>>]
    /\ down = [d \in Device |-> <<>>]
    /\ order = [d \in Device |-> <<>>]
    /\ bodies = [d \in Device |-> <<>>]
    /\ stale = [d \in Device |-> {}]
    /\ serving = [d \in Device |-> None]
    /\ pending = [d \in Device |-> {}]
    /\ fetches = [d \in Device |-> NoFetch]
    /\ copies = [d \in Device |-> 0]
    /\ breaks = [d \in Device |-> 0]
    /\ expiries = 0
    /\ senders = [id \in Id |-> {}]
    /\ heard = [d \in Device |-> 0]
    /\ again = [d \in Device |-> {}]
    /\ aged = [d \in Device |-> {}]
    /\ asked = [d \in Device |-> {}]
    /\ asker = [id \in Id |-> None]
    /\ crossed = {}
    /\ broken = {}
    /\ garbled = {}

-----------------------------------------------------------------------------
(* The send cache.                                                         *)

Kept(o) == {o[i] : i \in DOMAIN o}

\* A plausible slip: the newest body makes room for the older ones.
CacheOrderDropsNewest(o, id) ==
    LET longer == IF id \in Kept(o) THEN o ELSE Append(o, id)
    IN  IF Len(longer) > CacheItems THEN SubSeq(longer, 1, CacheItems) ELSE longer

\* A plausible slip: the cache is measured before the body is added.
CacheOrderLate(o, id) ==
    LET longer == IF id \in Kept(o) THEN o ELSE Append(o, id)
    IN  IF Len(o) > CacheItems THEN Tail(longer) ELSE longer

\* SendCache::put: a new id comes last, one that is there keeps its place; the
\* first goes when there are too many.
CacheOrder(o, id) ==
    LET longer == IF id \in Kept(o) THEN o ELSE Append(o, id)
    IN  IF Len(longer) > CacheItems THEN Tail(longer) ELSE longer

Put(d, id, seal) ==
    /\ order' = [order EXCEPT ![d] = CacheOrder(@, id)]
    /\ bodies' = [bodies EXCEPT
                    ![d] = [i \in Kept(order'[d]) |-> IF i = id THEN seal ELSE @[i]]]
    /\ stale' = [stale EXCEPT ![d] = (@ \ {id}) \cap Kept(order'[d])]

\* SendCache::get finds a body of which the time is not over.
Servable(d, id) == id \in Kept(order[d]) /\ id \notin stale[d]

\* Five minutes pass for one body.
ExpireBody(d, id) ==
    /\ expiries < limit.expiries
    /\ expiries' = expiries + 1
    /\ Servable(d, id)
    /\ stale' = [stale EXCEPT ![d] = @ \cup {id}]
    /\ aged' = [aged EXCEPT ![d] = @ \cup {id}]
    /\ UNCHANGED <<relayVars, netVars, order, bodies, serving, fetchVars, copies, breaks,
                   limit, senders, heard, again, asked, asker, crossed, broken, garbled>>

-----------------------------------------------------------------------------
(* The session task and the clipboard loop of a device.                    *)

\* The core lock is free, which the session task holds while it serves.
Free(d) == serving[d] = None

\* The channel takes ms from d; with no session nobody reads it.
Send(d, ms) ==
    /\ Len(out[d]) + Len(ms) <= Room
    /\ out' = [out EXCEPT ![d] = IF conn[d] THEN @ \o ms ELSE @]

\* on_local_clipboard, Emit: the body goes to the send cache, the signal to
\* the relay if there is a session.
PublishBody(d, id) ==
    /\ Free(d)
    /\ id \in limit.ids /\ \A i \in Id : i < id => senders[i] # {}
    /\ copies[d] < limit.copies[d]
    /\ copies' = [copies EXCEPT ![d] = @ + 1]
    /\ Put(d, id, [by |-> d, n |-> copies[d]])
    /\ Send(d, <<[type |-> "signal", id |-> id, origin |-> d]>>)
    /\ senders' = [senders EXCEPT ![id] = @ \cup {d}]
    /\ again' = [again EXCEPT ![d] = IF id \in Kept(order[d]) THEN @ \cup {id} ELSE @ \ {id}]
    /\ aged' = [aged EXCEPT ![d] = @ \ {id}]
    /\ UNCHANGED <<relayVars, conn, down, serving, fetchVars, breaks, expiries, limit, heard,
                   asked, asker, crossed, broken, garbled>>

Next1(d) == Head(down[d])

Hears(d, type) == Free(d) /\ down[d] # <<>> /\ Next1(d).type = type

Took(d) == down' = [down EXCEPT ![d] = Tail(@)]

\* apply_signal, Superseded.
IgnoreSignal(d) ==
    /\ Hears(d, "signal")
    /\ Took(d)
    /\ UNCHANGED <<relayVars, conn, out, cacheVars, serving, fetchVars, pullBounds, pullHistory>>

\* apply_signal, NeedFetch: the body is awaited and asked for.  A signal of
\* one's own comes back with a Welcome; it never wins.
AskForBody(d) ==
    /\ Hears(d, "signal")
    /\ Next1(d).origin # d
    /\ Took(d)
    /\ Send(d, <<[type |-> "request", id |-> Next1(d).id]>>)
    /\ pending' = [pending EXCEPT ![d] = @ \cup {Next1(d).id}]
    /\ asked' = [asked EXCEPT ![d] = @ \cup {Next1(d).id}]
    /\ UNCHANGED <<relayVars, conn, cacheVars, serving, fetches, pullBounds, senders,
                   cacheHistory, asker, crossed, broken, garbled>>

\* ContentPull: the body is sent from the send cache, or refused.
HearPull(d) ==
    /\ Hears(d, "pull")
    /\ Took(d)
    /\ LET id == Next1(d).id
       IN  IF Servable(d, id)
           THEN /\ Send(d, <<[type |-> "begin", id |-> id]>>)
                /\ serving' = [serving EXCEPT
                                 ![d] = [id |-> id, seal |-> bodies[d][id], sent |-> 0]]
           ELSE /\ Send(d, <<[type |-> "reject", id |-> id]>>)
                /\ UNCHANGED serving
    /\ UNCHANGED <<relayVars, conn, cacheVars, fetchVars, pullBounds, pullHistory>>

\* The loop over the chunks, which waits for room.
ServeChunk(d) ==
    /\ ~Free(d)
    /\ LET s == serving[d]
           data == [seal |-> s.seal, index |-> s.sent + 1]
       IN  /\ Send(d, <<[type |-> "chunk", id |-> s.id, data |-> data]>>)
           /\ serving' = [serving EXCEPT ![d] = IF s.sent + 1 = Chunks THEN None
                                                ELSE [s EXCEPT !.sent = @ + 1]]
    /\ UNCHANGED <<relayVars, conn, down, cacheVars, fetchVars, pullBounds, pullHistory>>

\* A plausible slip: a second Begin goes on with what there is.
HearBeginKeeps(d) ==
    /\ Hears(d, "begin")
    /\ Took(d)
    /\ fetches' = [fetches EXCEPT ![d][Next1(d).id] = IF @ = None THEN <<>> ELSE @]
    /\ UNCHANGED <<relayVars, conn, out, cacheVars, serving, pending, pullBounds, pullHistory>>

\* ContentBegin: an empty buffer, whatever was there.
HearBegin(d) ==
    /\ Hears(d, "begin")
    /\ Took(d)
    /\ fetches' = [fetches EXCEPT ![d][Next1(d).id] = <<>>]
    /\ UNCHANGED <<relayVars, conn, out, cacheVars, serving, pending, pullBounds, pullHistory>>

\* The sealed body opens: it is one sealing, from the first chunk to the last.
Whole(body) == \A i \in DOMAIN body : body[i] = [seal |-> body[1].seal, index |-> i]

\* ContentChunk: added to the buffer if there is one, its index unread.  A
\* full buffer goes to finish_fetch, which no longer awaits the body whether
\* it opens or not.
HearChunk(d) ==
    /\ Hears(d, "chunk")
    /\ Took(d)
    /\ LET id == Next1(d).id
           got == Append(fetches[d][id], Next1(d).data)
       IN  IF fetches[d][id] = None
           THEN UNCHANGED <<fetches, pending, asked, garbled>>
           ELSE IF Len(got) < Chunks
           THEN /\ fetches' = [fetches EXCEPT ![d][id] = got]
                /\ UNCHANGED <<pending, asked, garbled>>
           ELSE /\ fetches' = [fetches EXCEPT ![d][id] = None]
                /\ pending' = [pending EXCEPT ![d] = @ \ {id}]
                /\ asked' = [asked EXCEPT ![d] = @ \ {id}]
                /\ garbled' = IF Whole(got) THEN garbled ELSE garbled \cup {<<d, id>>}
    /\ UNCHANGED <<relayVars, conn, out, cacheVars, serving, pullBounds, senders, cacheHistory,
                   asker, crossed, broken>>

\* ContentReject, ContentAbort: the buffer goes, the engine goes on waiting.
HearReject(d) ==
    /\ Hears(d, "reject")
    /\ Took(d)
    /\ fetches' = [fetches EXCEPT ![d][Next1(d).id] = None]
    /\ asked' = [asked EXCEPT ![d] = @ \ {Next1(d).id}]
    /\ UNCHANGED <<relayVars, conn, out, cacheVars, serving, pending, pullBounds, senders,
                   cacheHistory, asker, crossed, broken, garbled>>

-----------------------------------------------------------------------------
(* The relay.  One lock: a message is handled in one step.                 *)

\* send_to: nothing goes to a device without a session.
Passed(x, m) == [down EXCEPT ![x] = IF conn[x] THEN Append(@, m) ELSE @]

\* ClipSignal: cached, and sent to all others.
RelaySignal(d, m) ==
    /\ LET h == Append(head, [id |-> m.id, origin |-> m.origin])
       IN  head' = IF Len(h) > HeadDepth THEN Tail(h) ELSE h
    /\ down' = [x \in Device |-> IF x # d /\ conn[x] THEN Append(down[x], m) ELSE down[x]]
    /\ heard' = [heard EXCEPT ![d] = @ + 1]
    /\ UNCHANGED <<puller, asker, crossed, broken>>

\* The signal the relay finds for an id: the oldest one.
Origin(id) ==
    head[CHOOSE i \in DOMAIN head :
            head[i].id = id /\ \A j \in 1 .. i - 1 : head[j].id # id].origin

\* A pull of a body goes on: the origin has not heard of it yet, or serves it, or
\* has sent what the relay has not passed on.
Underway(id) ==
    \E o \in Device :
        \/ \E k \in DOMAIN down[o] : down[o][k] = [type |-> "pull", id |-> id]
        \/ serving[o] # None /\ serving[o].id = id
        \/ \E k \in DOMAIN out[o] :
               out[o][k].type \in {"begin", "chunk", "reject"} /\ out[o][k].id = id

\* ContentRequest: who asks replaces who asked before; the oldest device to
\* have sent that id is asked, if it is there.
RelayRequest(d, m) ==
    /\ IF \E i \in DOMAIN head : head[i].id = m.id
       THEN /\ puller' = [puller EXCEPT ![m.id] = d]
            /\ down' = Passed(Origin(m.id), [type |-> "pull", id |-> m.id])
            /\ asker' = [asker EXCEPT ![m.id] = d]
            /\ crossed' = IF Underway(m.id) /\ asker[m.id] \notin {None, d}
                          THEN crossed \cup {<<asker[m.id], m.id>>, <<d, m.id>>} ELSE crossed
            /\ broken' = IF conn[Origin(m.id)] THEN broken ELSE broken \cup {<<d, m.id>>}
       ELSE /\ down' = Passed(d, [type |-> "reject", id |-> m.id])
            /\ UNCHANGED <<puller, asker, crossed, broken>>
    /\ UNCHANGED <<head, heard>>

\* ContentBegin, ContentChunk, ContentReject: passed on to the requester,
\* whom a refusal ends.
RelayPasses(d, m) ==
    /\ down' = IF puller[m.id] = None THEN down ELSE Passed(puller[m.id], m)
    /\ puller' = IF m.type = "reject" THEN [puller EXCEPT ![m.id] = None] ELSE puller
    /\ UNCHANGED <<head, heard, asker, crossed, broken>>

\* The queue of a session takes any number of messages.
QueueBounded == \A x \in Device : Len(down[x]) < Room
QueueTakes == TRUE

RelayTakes(d) ==
    /\ out[d] # <<>>
    /\ QueueTakes
    /\ out' = [out EXCEPT ![d] = Tail(@)]
    /\ LET m == Head(out[d])
       IN  \/ m.type = "signal" /\ RelaySignal(d, m)
           \/ m.type = "request" /\ RelayRequest(d, m)
           \/ m.type \in {"begin", "chunk", "reject"} /\ RelayPasses(d, m)
    /\ UNCHANGED <<conn, cacheVars, serving, fetchVars, pullBounds, senders, again, aged, asked,
                   garbled>>

-----------------------------------------------------------------------------
(* Connections; both ends notice a break at once.                          *)

\* The session ends with its buffers; a body being served goes nowhere.
LoseConnection(d) ==
    /\ conn[d]
    /\ breaks[d] < limit.breaks[d]
    /\ breaks' = [breaks EXCEPT ![d] = @ + 1]
    /\ conn' = [conn EXCEPT ![d] = FALSE]
    /\ out' = [out EXCEPT ![d] = <<>>]
    /\ down' = [down EXCEPT ![d] = <<>>]
    /\ serving' = [serving EXCEPT ![d] = None]
    /\ fetches' = [fetches EXCEPT ![d] = NoFetch]
    /\ asked' = [asked EXCEPT ![d] = {}]
    /\ broken' = broken \cup {r \in Request : r[1] # d /\ r[2] \in asked[r[1]]}
    /\ UNCHANGED <<relayVars, cacheVars, pending, copies, expiries, limit, senders, cacheHistory,
                   asker, crossed, garbled>>

\* The next session; Welcome brings the signals the relay has kept.
Reconnect(d) ==
    /\ ~conn[d] /\ d \in limit.on
    /\ conn' = [conn EXCEPT ![d] = TRUE]
    /\ down' = [down EXCEPT ![d] = [i \in DOMAIN head |->
                   [type |-> "signal", id |-> head[i].id, origin |-> head[i].origin]]]
    /\ UNCHANGED <<relayVars, out, cacheVars, serving, fetchVars, pullBounds, pullHistory>>

-----------------------------------------------------------------------------

\* What the session task of d does next.
SessionStep(d) ==
    \/ IgnoreSignal(d)
    \/ AskForBody(d)
    \/ HearPull(d)
    \/ ServeChunk(d)
    \/ HearBegin(d)
    \/ HearChunk(d)
    \/ HearReject(d)

PullNext ==
    \E d \in Device :
        \/ \E id \in Id : PublishBody(d, id) \/ ExpireBody(d, id)
        \/ SessionStep(d)
        \/ RelayTakes(d)
        \/ LoseConnection(d)
        \/ Reconnect(d)

PullSpec == PullInit /\ [][PullNext]_pullVars

\* The session task and the relay's reader of each connection go on.
PullFairness ==
    \A d \in Device : WF_pullVars(SessionStep(d)) /\ WF_pullVars(RelayTakes(d))

FairPullSpec == PullSpec /\ PullFairness

-----------------------------------------------------------------------------

\* What the relay still names can be had from whoever published it: its send cache
\* has the body, although it evicts by age while the relay counts signals, as long as
\* the signals after that one, those still on their way and those a break kept from
\* the relay included, are fewer than the cache has places; and SendCache::get finds
\* it until five minutes have passed since it was last copied.  A clip copied again
\* while its body is cached is excepted from the first: its signal is new, but the
\* body keeps its old place and goes first.
HeadsServable ==
    \A i \in DOMAIN head :
        LET d == head[i].origin
            id == head[i].id
            later == (Len(head) - i) + (copies[d] - heard[d])
        IN  /\ later < CacheItems /\ id \notin again[d] => id \in Kept(order[d])
            /\ id \in Kept(order[d]) \ aged[d] => Servable(d, id)

\* A body that is complete opens, although chunks carry no checked index and
\* arrive among those of other pulls, before and after breaks of either end;
\* unless two devices publish the same clip, or one asks for it while a pull of
\* the other goes on.
WholeUnlessCrossed ==
    \A r \in garbled : r \in crossed \/ Cardinality(senders[r[2]]) > 1

\* Every request is answered with a body or a refusal, unless another device
\* asked for the same body meanwhile or a connection broke: devices that serve
\* each other at once, each deaf while it sends, do not wait for each other.
PullsAnswered ==
    \A d \in Device, id \in Id :
        (id \in asked[d]) ~> (id \notin asked[d] \/ <<d, id>> \in crossed \cup broken)

-----------------------------------------------------------------------------
(* What documents of the repository say and the code does not do.          *)

\* "the relay tees to several requesters" (PLAN.md:487): with nothing left to
\* do and no connection lost, nobody waits for a body.
ManyRequestersServed ==
    (\A d \in Device : out[d] = <<>> /\ down[d] = <<>> /\ Free(d) /\ breaks[d] = 0)
        => \A d \in Device : asked[d] = {}
=============================================================================
