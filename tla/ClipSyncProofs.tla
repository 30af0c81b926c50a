--------------------------- MODULE ClipSyncProofs ---------------------------
(***************************************************************************)
(* What TLAPS proves of ClipSync, for every number of devices, every set   *)
(* of clips and every bound: its type invariant, the safety of the clock,  *)
(* of fetches and of the echo defence; that the engines implement the      *)
(* last-writer-wins register; and of devices at rest that they have caught *)
(* up with the relay's cache and that any two of them agree.  Catching up  *)
(* rests on where a cached signal may still be on its way to a device,     *)
(* agreeing on where the key a device holds may still be on its way to the *)
(* cache.                                                                  *)
(***************************************************************************)
EXTENDS ClipSync, SequenceTheorems, TLAPS

-----------------------------------------------------------------------------
(* Lemmas about the engine.                                                *)

\* The signal of a local copy is a signal; its key has the next clock value.
LEMMA LocalSignalType ==
    ASSUME EngineTypeOK, NEW d \in Device, NEW c \in Content, NEW w \in Wall,
           lamport[d] < MaxLamport
    PROVE  /\ LocalSignal(d, c, w) \in Signal
           /\ LocalSignal(d, c, w).key \in Key
           /\ LocalSignal(d, c, w).key.lamport = lamport[d] + 1
  BY LwwAssumption DEF EngineTypeOK, LocalSignal, Tick, Signal, Key

\* The clock after a merge is the larger of the two.
LEMMA MergeLamportMax ==
    ASSUME NEW lam \in Int, NEW remote \in Int
    PROVE  /\ MergeLamport(lam, remote) \in {lam, remote}
           /\ MergeLamport(lam, remote) >= lam
           /\ MergeLamport(lam, remote) >= remote
  BY DEF MergeLamport

\* A local copy keeps the types of the engine.
LEMMA EmitLocalType ==
    ASSUME EngineTypeOK, NEW d \in Device, NEW c \in Content, NEW w \in Wall,
           EmitLocal(d, c, w)
    PROVE  EngineTypeOK'
  <1>1. lamport[d] < MaxLamport
    BY DEF EmitLocal
  <1>2. LocalSignal(d, c, w).key \in Key
    BY <1>1, LocalSignalType
  <1>3. lamport' \in [Device -> 0 .. MaxLamport]
    BY <1>1, LwwAssumption DEF EmitLocal, EngineTypeOK, Tick
  <1>4. current' \in [Device -> Key \cup {None}]
    BY <1>2 DEF EmitLocal, EngineTypeOK
  <1> QED
    BY <1>3, <1>4 DEF EmitLocal, EngineTypeOK

\* Hearing a signal keeps the types of the engine.
LEMMA HearType ==
    ASSUME EngineTypeOK, NEW d \in Device, NEW s \in Signal,
           \/ RejectSignal(d, s) \/ SupersededSignal(d, s)
           \/ NeedFetch(d, s) \/ ApplyInline(d, s)
    PROVE  EngineTypeOK'
  <1>1. s.key \in Key /\ s.key.lamport \in 0 .. MaxLamport /\ IdOf(s) \in ContentId
    BY LwwAssumption DEF Signal, Key, IdOf, ContentId
  <1>2. MergeLamport(lamport[d], s.key.lamport) \in 0 .. MaxLamport
    BY <1>1, LwwAssumption DEF EngineTypeOK, MergeLamport
  <1>3. CASE RejectSignal(d, s)
    BY <1>3 DEF RejectSignal, EngineTypeOK, engineVars
  <1>4. CASE SupersededSignal(d, s)
    BY <1>2, <1>4 DEF SupersededSignal, EngineTypeOK
  <1>5. CASE NeedFetch(d, s)
    <2>1. pending' \in [Device -> SUBSET Signal]
      BY <1>5 DEF NeedFetch, EngineTypeOK
    <2> QED
      BY <1>2, <1>5, <2>1 DEF NeedFetch, EngineTypeOK
  <1>6. CASE ApplyInline(d, s)
    <2>1. Applied(current[d], s.key) \in Key \cup {None}
      BY <1>1 DEF Applied, EngineTypeOK
    <2> QED
      BY <1>1, <1>2, <1>6, <2>1 DEF ApplyInline, EngineTypeOK
  <1> QED
    BY <1>3, <1>4, <1>5, <1>6

\* A fetched body, applied or dropped, keeps the types of the engine.
LEMMA FetchedType ==
    ASSUME EngineTypeOK, NEW d \in Device, NEW p,
           ApplyFetched(d, p) \/ DropFetched(d, p)
    PROVE  p \in Signal /\ EngineTypeOK'
  <1>1. p \in Signal
    BY DEF EngineTypeOK, ApplyFetched, DropFetched
  <1>2. p.key \in Key /\ IdOf(p) \in ContentId
    BY <1>1 DEF Signal, IdOf, ContentId
  <1>3. Applied(current[d], p.key) \in Key \cup {None}
    BY <1>2 DEF Applied, EngineTypeOK
  <1>4. CASE ApplyFetched(d, p)
    BY <1>2, <1>3, <1>4 DEF ApplyFetched, EngineTypeOK
  <1>5. CASE DropFetched(d, p)
    BY <1>5 DEF DropFetched, EngineTypeOK
  <1> QED
    BY <1>1, <1>4, <1>5

-----------------------------------------------------------------------------
(* Lemmas about the queues.                                                *)

\* What the relay sends is queued as a message.
LEMMA SentType ==
    ASSUME NetTypeOK, NEW S, NEW m \in Batch
    PROVE  Sent(S, m) \in [Device -> Seq(Batch)]
  <1>1. ASSUME NEW d \in Device PROVE Append(down[d], m) \in Seq(Batch)
    BY <1>1 DEF NetTypeOK
  <1> QED
    BY <1>1 DEF Sent, NetTypeOK

\* The signal cache keeps its type and its bound.
LEMMA CachedType ==
    ASSUME RelayTypeOK, NEW s \in Signal
    PROVE  Cached(s) \in Seq(Signal) /\ Len(Cached(s)) <= HeadDepth
  <1> DEFINE h == Append(head, s)
  <1>1. h \in Seq(Signal) /\ h # <<>> /\ Len(h) = Len(head) + 1 /\ Len(head) \in Nat
    <2>1. head \in Seq(Signal)
      BY DEF RelayTypeOK
    <2> QED
      BY <2>1, AppendProperties, LenProperties
  <1>2. Tail(h) \in Seq(Signal) /\ Len(Tail(h)) = Len(h) - 1
    <2> HIDE DEF h
    <2> QED
      BY <1>1, HeadTailProperties
  <1>3. Len(head) <= HeadDepth /\ HeadDepth \in Nat
    BY ClipSyncAssumption DEF RelayTypeOK
  <1>4. Cached(s) = IF Len(h) > HeadDepth THEN Tail(h) ELSE h
    BY DEF Cached
  <1> HIDE DEF h
  <1> QED
    BY <1>1, <1>2, <1>3, <1>4

\* A message handled by the relay keeps the types of the cache and the queues.
LEMMA HandleType ==
    ASSUME NetTypeOK, RelayTypeOK, NEW d \in Device, NEW m \in ToRelay, Handle(d, m)
    PROVE  /\ down' \in [Device -> Seq(Batch)]
           /\ head' \in Seq(Signal) /\ Len(head') <= HeadDepth
           /\ dropped' \in BOOLEAN
  <1>1. CASE m.type = "hello" /\ HandleHello(d)
    <2>1. head # <<>> => Sent({d}, head) \in [Device -> Seq(Batch)]
      BY SentType DEF RelayTypeOK, Batch
    <2> QED
      BY <1>1, <2>1 DEF HandleHello, NetTypeOK, RelayTypeOK
  <1>2. CASE m.type = "signal" /\ HandleSignal(d, m.sig)
    <2>1. m.sig \in Signal
      BY <1>2 DEF ToRelay
    <2>2. <<m.sig>> \in Batch
      BY <2>1 DEF Batch
    <2>3. Sent(Device \ {d}, <<m.sig>>) \in [Device -> Seq(Batch)]
      BY <2>2, SentType
    <2> QED
      BY <1>2, <2>1, <2>3, CachedType DEF HandleSignal
  <1> QED
    BY <1>1, <1>2 DEF Handle

\* The signals a device hears next are a nonempty list, the rest is one too.
LEMMA HeardType ==
    ASSUME ClientTypeOK, NetTypeOK, NEW d \in Device, HasNext(d)
    PROVE  /\ Heard(d) \in Batch
           /\ Head(Heard(d)) \in Signal
           /\ Tail(Heard(d)) \in Seq(Signal)
           /\ inHand[d] = <<>> => Tail(down[d]) \in Seq(Batch)
  <1>1. inHand[d] \in Seq(Signal) /\ down[d] \in Seq(Batch)
    BY DEF ClientTypeOK, NetTypeOK
  <1>2. ASSUME inHand[d] = <<>>
        PROVE  Head(down[d]) \in Batch /\ Tail(down[d]) \in Seq(Batch)
    <2>1. down[d] # <<>>
      BY <1>2 DEF HasNext
    <2> QED
      BY <1>1, <2>1, HeadTailProperties
  <1>3. Heard(d) \in Batch
    BY <1>1, <1>2 DEF Heard, Batch
  <1>4. Head(Heard(d)) \in Signal /\ Tail(Heard(d)) \in Seq(Signal)
    BY <1>3, HeadTailProperties DEF Batch
  <1> QED
    BY <1>2, <1>3, <1>4

\* Taking a signal keeps the types of what is left.
LEMMA TakeType ==
    ASSUME ClientTypeOK, NetTypeOK, NEW d \in Device, HasNext(d), TakeSignal(d)
    PROVE  /\ inHand' \in [Device -> Seq(Signal)]
           /\ down' \in [Device -> Seq(Batch)]
  <1>1. Tail(Heard(d)) \in Seq(Signal) /\ (inHand[d] = <<>> => Tail(down[d]) \in Seq(Batch))
    BY HeardType
  <1>2. inHand' \in [Device -> Seq(Signal)]
    BY <1>1 DEF TakeSignal, ClientTypeOK
  <1>3. down' \in [Device -> Seq(Batch)]
    BY <1>1 DEF TakeSignal, NetTypeOK
  <1> QED
    BY <1>2, <1>3

\* The keys among messages to the relay are keys.
LEMMA KeysOfType ==
    ASSUME NEW q \in Seq(ToRelay)
    PROVE  KeysOf(q) \subseteq Key
  <1>1. ASSUME NEW i \in 1 .. Len(q), q[i].type = "signal"
        PROVE  q[i].sig.key \in Key
    <2>1. q[i] \in ToRelay
      BY <1>1
    <2>2. q[i].sig \in Signal
      BY <1>1, <2>1 DEF ToRelay
    <2> QED
      BY <2>2 DEF Signal
  <1> QED
    BY <1>1 DEF KeysOf

\* A severed session leaves well-typed queues; what it loses are keys.
LEMMA SeverType ==
    ASSUME NetTypeOK, HistoryTypeOK, NEW d \in Device, Sever(d)
    PROVE  NetTypeOK' /\ lost' \subseteq Key
  <1>1. up[d] \in Seq(ToRelay)
    BY DEF NetTypeOK
  <1>2. PICK n \in 0 .. Len(up[d]) :
          /\ closing' = [closing EXCEPT ![d] = SubSeq(up[d], 1, n)]
          /\ lost' = lost \cup KeysOf(SubSeq(up[d], n + 1, Len(up[d])))
    BY DEF Sever
  <1>3. Len(up[d]) \in Nat /\ \A i \in 1 .. Len(up[d]) : up[d][i] \in ToRelay
    BY <1>1
  <1>4. SubSeq(up[d], 1, n) \in Seq(ToRelay)
    BY <1>2, <1>3, SubSeqProperties
  <1>5. SubSeq(up[d], n + 1, Len(up[d])) \in Seq(ToRelay)
    BY <1>2, <1>3, SubSeqProperties
  <1>6. KeysOf(SubSeq(up[d], n + 1, Len(up[d]))) \subseteq Key
    BY <1>5, KeysOfType
  <1>7. lost' \subseteq Key
    BY <1>2, <1>6 DEF HistoryTypeOK
  <1> QED
    BY <1>2, <1>4, <1>7 DEF Sever, NetTypeOK

-----------------------------------------------------------------------------
(* The type invariant.                                                     *)

LEMMA TypeInit == Init => TypeOK
  <1> SUFFICES ASSUME Init PROVE TypeOK
    OBVIOUS
  <1>1. EngineTypeOK
    BY LwwAssumption, EngineAssumption DEF Init, EngineInit, EngineTypeOK, Epoch
  <1>2. RelayTypeOK
    <2>1. dropped \in BOOLEAN
      BY DEF Init
    <2>2. head \in Seq(Signal) /\ Len(head) <= HeadDepth /\ relayEpoch \in Epoch
      BY ClipSyncAssumption, EngineAssumption DEF Init, Epoch
    <2> QED
      BY <2>1, <2>2 DEF RelayTypeOK
  <1> QED
    BY <1>1, <1>2 DEF Init, TypeOK, ClientTypeOK, NetTypeOK, HistoryTypeOK, BoundsTypeOK

\* What a step leaves alone keeps its type.
LEMMA Frame ==
    ASSUME TypeOK
    PROVE  /\ UNCHANGED engineVars => EngineTypeOK'
           /\ UNCHANGED clientVars => ClientTypeOK'
           /\ UNCHANGED netVars => NetTypeOK'
           /\ UNCHANGED relayVars => RelayTypeOK'
           /\ UNCHANGED history => HistoryTypeOK'
           /\ UNCHANGED bounds => BoundsTypeOK'
  <1>1. UNCHANGED engineVars => EngineTypeOK'
    BY DEF TypeOK, engineVars, EngineTypeOK
  <1>2. UNCHANGED clientVars => ClientTypeOK'
    BY DEF TypeOK, clientVars, ClientTypeOK
  <1>3. UNCHANGED netVars => NetTypeOK'
    BY DEF TypeOK, netVars, NetTypeOK
  <1>4. UNCHANGED relayVars => RelayTypeOK'
    BY DEF TypeOK, relayVars, RelayTypeOK
  <1>5. UNCHANGED history => HistoryTypeOK'
    BY DEF TypeOK, history, HistoryTypeOK
  <1>6. UNCHANGED bounds => BoundsTypeOK'
    BY DEF TypeOK, bounds, BoundsTypeOK
  <1> QED
    BY <1>1, <1>2, <1>3, <1>4, <1>5, <1>6

\* What a write leaves on the clipboard: a clip that the watcher has noted, or one
\* that it has not and that is counted, or a copy of the user's, counted as well.
WriteAs(d, c, last) ==
    /\ os' = [os EXCEPT ![d] = c]
    /\ seen' = [seen EXCEPT ![d] = last]
    /\ \/ c = last /\ UNCHANGED altered
       \/ altered' = [altered EXCEPT ![d] = @ + 1]
    /\ \/ UNCHANGED copied
       \/ c = last /\ copied' = [copied EXCEPT ![d] = @ + 1]

LEMMA WriteEffect ==
    ASSUME TypeOK, NEW d \in Device, WriteClipboard(d)
    PROVE  \E c \in Content, last \in Content \cup {None} : WriteAs(d, c, last)
  <1>1. writing[d].content \in Content
    BY DEF WriteClipboard, TypeOK, ClientTypeOK, Signal
  <1>2. ReadsAs(writing[d].content) \subseteq Content
    BY <1>1, ClipSyncAssumption DEF ReadsAs, Content
  <1>3. CASE WriteContent(d)
    <2>1. PICK c \in ReadsAs(writing[d].content) : Noted(d, c, writing[d].content)
      BY <1>3 DEF WriteContent
    <2>2. WriteAs(d, c, writing[d].content)
      BY <1>3, <2>1 DEF WriteContent, Noted, WriteAs
    <2> QED
      BY <1>1, <1>2, <2>2
  <1>4. CASE WriteFiles(d)
    <2>1. PICK c \in ReadsAs(writing[d].content) : Noted(d, c, c) \/ Noted(d, c, None)
      BY <1>4 DEF WriteFiles
    <2>2. WriteAs(d, c, c) \/ WriteAs(d, c, None)
      BY <1>4, <2>1 DEF WriteFiles, Noted, WriteAs
    <2> QED
      BY <1>2, <2>2
  <1>5. ASSUME NEW c \in Content, WriteFilesLate(d, c)
        PROVE  \E x \in Content, last \in Content \cup {None} : WriteAs(d, x, last)
    <2>1. WriteAs(d, c, c)
      BY <1>5 DEF WriteFilesLate, Noted, WriteAs
    <2> QED
      BY <2>1
  <1> QED
    BY <1>3, <1>4, <1>5 DEF WriteClipboard

\* Every step of a device or of the relay keeps every variable in its type.
LEMMA TypeStep == TypeOK /\ [Next]_vars => TypeOK'
  <1> SUFFICES ASSUME TypeOK, [Next]_vars PROVE TypeOK'
    OBVIOUS
  <1> USE DEF TypeOK
  <1>1. ASSUME NEW d \in Device, NEW c \in Content, UserCopy(d, c) PROVE TypeOK'
    <2>1. UNCHANGED <<engineVars, netVars, relayVars, bounds>>
      BY <1>1 DEF UserCopy
    <2>2. ClientTypeOK'
      BY <1>1 DEF UserCopy, ClientTypeOK
    <2>3. HistoryTypeOK'
      BY <1>1 DEF UserCopy, HistoryTypeOK
    <2> QED
      BY <2>1, <2>2, <2>3, Frame
  <1>2. ASSUME NEW d \in Device, Poll(d) PROVE TypeOK'
    <2>1. UNCHANGED <<engineVars, netVars, relayVars, history, bounds>>
      BY <1>2 DEF Poll
    <2>2. ClientTypeOK'
      BY <1>2 DEF Poll, ClientTypeOK
    <2> QED
      BY <2>1, <2>2, Frame
  <1>3. ASSUME NEW d \in Device, NEW w \in Wall, PublishCopy(d, w) PROVE TypeOK'
    <2> DEFINE s == LocalSignal(d, polled[d], w)
    <2>1. polled[d] \in Content /\ EmitLocal(d, polled[d], w)
      BY <1>3 DEF PublishCopy, ClientTypeOK
    <2>2. EngineTypeOK'
      BY <2>1, EmitLocalType
    <2>3. s \in Signal /\ s.key \in Key
      BY <2>1, LocalSignalType DEF EmitLocal
    <2>4. [type |-> "signal", sig |-> s] \in ToRelay
      BY <2>3 DEF ToRelay
    <2>5. NetTypeOK'
      <3>1. Append(up[d], [type |-> "signal", sig |-> s]) \in Seq(ToRelay)
        BY <2>4 DEF NetTypeOK
      <3>2. up' \in [Device -> Seq(ToRelay)]
        BY <1>3, <3>1 DEF PublishCopy, NetTypeOK
      <3> QED
        BY <1>3, <3>2 DEF PublishCopy, NetTypeOK
    <2>6. issued' \subseteq Key /\ lost' \subseteq Key
      BY <1>3, <2>3 DEF PublishCopy, HistoryTypeOK
    <2>7. HistoryTypeOK'
      BY <1>3, <2>6 DEF PublishCopy, HistoryTypeOK
    <2>8. ClientTypeOK'
      BY <1>3 DEF PublishCopy, ClientTypeOK
    <2>9. UNCHANGED <<relayVars, bounds>>
      BY <1>3 DEF PublishCopy
    <2> QED
      BY <2>2, <2>5, <2>7, <2>8, <2>9, Frame
  <1>4. ASSUME NEW d \in Device, KeepCopy(d) PROVE TypeOK'
    <2>1. UNCHANGED <<engineVars, netVars, relayVars, history, bounds>>
      BY <1>4 DEF KeepCopy, KeepLocal
    <2>2. ClientTypeOK'
      BY <1>4 DEF KeepCopy, ClientTypeOK
    <2> QED
      BY <2>1, <2>2, Frame
  <1>5. ASSUME NEW d \in Device, HearSignal(d) PROVE TypeOK'
    <2>1. HasNext(d) /\ TakeSignal(d) /\ UNCHANGED <<relayVars, history, bounds>>
      BY <1>5 DEF HearSignal
    <2>2. EngineTypeOK'
      BY <1>5, <2>1, HeardType, HearType DEF HearSignal
    <2>3. ClientTypeOK' /\ NetTypeOK'
      BY <1>5, <2>1, TakeType DEF HearSignal, ClientTypeOK, NetTypeOK
    <2> QED
      BY <2>1, <2>2, <2>3, Frame
  <1>6. ASSUME NEW d \in Device, HearInline(d) PROVE TypeOK'
    <2>1. HasNext(d) /\ TakeSignal(d) /\ UNCHANGED <<relayVars, history, bounds>>
      BY <1>6 DEF HearInline
    <2>2. EngineTypeOK'
      BY <1>6, <2>1, HeardType, HearType DEF HearInline
    <2>3. writing' \in [Device -> Signal \cup {None}]
      BY <1>6, <2>1, HeardType DEF HearInline, ClientTypeOK
    <2>4. ClientTypeOK' /\ NetTypeOK'
      BY <1>6, <2>1, <2>3, TakeType DEF HearInline, ClientTypeOK, NetTypeOK
    <2> QED
      BY <2>1, <2>2, <2>4, Frame
  <1>7. ASSUME NEW d \in Device, NEW p, FinishFetch(d, p) PROVE TypeOK'
    <2>1. p \in Signal /\ EngineTypeOK'
      BY <1>7, FetchedType DEF FinishFetch
    <2>2. ClientTypeOK'
      BY <1>7, <2>1 DEF FinishFetch, ClientTypeOK
    <2>3. UNCHANGED <<netVars, relayVars, history, bounds>>
      BY <1>7 DEF FinishFetch
    <2> QED
      BY <2>1, <2>2, <2>3, Frame
  <1>8. ASSUME NEW d \in Device, WriteClipboard(d) PROVE TypeOK'
    <2>1. writing[d] \in Signal
      BY <1>8 DEF WriteClipboard, ClientTypeOK
    <2>2. writing[d].content \in Content
      BY <2>1 DEF Signal
    <2>3. ClientTypeOK' /\ HistoryTypeOK'
      <3>1. UNCHANGED <<polled, inHand, issued, published, restarted, lost>>
        BY <1>8 DEF WriteClipboard
      <3>2. PICK c \in Content, last \in Content \cup {None} : WriteAs(d, c, last)
        BY <1>8, WriteEffect
      <3>4. os' \in [Device -> Content \cup {None}] /\ seen' \in [Device -> Content \cup {None}]
        BY <3>2 DEF WriteAs, ClientTypeOK
      <3>5. altered' \in [Device -> Nat] /\ copied' \in [Device -> Nat]
        BY <3>2 DEF WriteAs, HistoryTypeOK
      <3>3. writing' \in [Device -> Signal \cup {None}]
        BY <1>8 DEF WriteClipboard, ClientTypeOK
      <3> QED
        BY <3>1, <3>3, <3>4, <3>5 DEF ClientTypeOK, HistoryTypeOK
    <2>4. UNCHANGED <<engineVars, netVars, relayVars, bounds>>
      BY <1>8 DEF WriteClipboard
    <2> QED
      BY <2>3, <2>4, Frame
  <1>9. ASSUME NEW d \in Device, WriteFails(d) PROVE TypeOK'
    <2>1. ClientTypeOK' /\ BoundsTypeOK'
      BY <1>9 DEF WriteFails, ClientTypeOK, BoundsTypeOK
    <2>2. UNCHANGED <<engineVars, netVars, relayVars, history>>
      BY <1>9 DEF WriteFails
    <2> QED
      BY <2>1, <2>2, Frame
  <1>10. ASSUME NEW d \in Device, NEW e \in Epoch, AdoptKey(d, e) PROVE TypeOK'
    <2>1. EngineTypeOK'
      BY <1>10 DEF AdoptKey, SetGroupKey, EngineTypeOK
    <2>2. UNCHANGED <<clientVars, netVars, relayVars, history, bounds>>
      BY <1>10 DEF AdoptKey
    <2> QED
      BY <2>1, <2>2, Frame
  <1>11. ASSUME NEW d \in Device, Disconnect(d) PROVE TypeOK'
    <2>1. NetTypeOK' /\ lost' \subseteq Key
      BY <1>11, SeverType DEF Disconnect
    <2>2. HistoryTypeOK'
      BY <1>11, <2>1 DEF Disconnect, HistoryTypeOK
    <2>3. BoundsTypeOK'
      BY <1>11 DEF Disconnect, BoundsTypeOK
    <2>4. UNCHANGED <<engineVars, clientVars, relayVars>>
      BY <1>11 DEF Disconnect
    <2> QED
      BY <2>1, <2>2, <2>3, <2>4, Frame
  <1>12. ASSUME NEW d \in Device, Connect(d) PROVE TypeOK'
    <2>1. <<[type |-> "hello"]>> \in Seq(ToRelay)
      BY DEF ToRelay
    <2>2. NetTypeOK'
      BY <1>12, <2>1 DEF Connect, NetTypeOK
    <2>3. UNCHANGED <<engineVars, clientVars, relayVars, history, bounds>>
      BY <1>12 DEF Connect
    <2> QED
      BY <2>2, <2>3, Frame
  <1>13. ASSUME NEW d \in Device, Restart(d) PROVE TypeOK'
    <2>1. NetTypeOK' /\ lost' \subseteq Key
      BY <1>13, SeverType DEF Restart, netVars, NetTypeOK, HistoryTypeOK
    <2>2. EngineTypeOK'
      BY <1>13, LwwAssumption DEF Restart, EngineRestart, EngineTypeOK
    <2>3. HistoryTypeOK'
      BY <1>13, <2>1 DEF Restart, HistoryTypeOK
    <2>4. ClientTypeOK'
      BY <1>13 DEF Restart, ClientTypeOK
    <2>5. UNCHANGED <<relayVars, bounds>>
      BY <1>13 DEF Restart
    <2> QED
      BY <2>1, <2>2, <2>3, <2>4, <2>5, Frame
  <1>14. ASSUME NEW d \in Device, Toggle(d) PROVE TypeOK'
    <2>1. EngineTypeOK'
      BY <1>14 DEF Toggle, SetEnabled, EngineTypeOK
    <2>2. BoundsTypeOK'
      BY <1>14 DEF Toggle, BoundsTypeOK
    <2>3. UNCHANGED <<clientVars, netVars, relayVars, history>>
      BY <1>14 DEF Toggle
    <2> QED
      BY <2>1, <2>2, <2>3, Frame
  <1>15. ASSUME NEW d \in Device, NEW id, Expire(d, id) PROVE TypeOK'
    <2>1. EngineTypeOK'
      BY <1>15 DEF Expire, GraceExpires, EngineTypeOK
    <2>2. UNCHANGED <<clientVars, netVars, relayVars, history, bounds>>
      BY <1>15 DEF Expire
    <2> QED
      BY <2>1, <2>2, Frame
  <1>16. ASSUME NEW d \in Device, RelayReads(d) PROVE TypeOK'
    <2>1. Head(up[d]) \in ToRelay /\ Tail(up[d]) \in Seq(ToRelay)
      BY <1>16, HeadTailProperties DEF RelayReads, NetTypeOK
    <2>2. /\ down' \in [Device -> Seq(Batch)] /\ head' \in Seq(Signal) /\ Len(head') <= HeadDepth
          /\ dropped' \in BOOLEAN
      BY <1>16, <2>1, HandleType DEF RelayReads
    <2>3. NetTypeOK' /\ RelayTypeOK'
      BY <1>16, <2>1, <2>2 DEF RelayReads, NetTypeOK, RelayTypeOK
    <2>4. UNCHANGED <<engineVars, clientVars, history, bounds>>
      BY <1>16 DEF RelayReads
    <2> QED
      BY <2>3, <2>4, Frame
  <1>17. ASSUME NEW d \in Device, RelayReadsLate(d) PROVE TypeOK'
    <2>1. closing[d] \in Seq(ToRelay) /\ closing[d] # <<>>
      BY <1>17 DEF RelayReadsLate, NetTypeOK
    <2>2. Head(closing[d]) \in ToRelay /\ Tail(closing[d]) \in Seq(ToRelay)
      BY <2>1, HeadTailProperties
    <2>3. /\ down' \in [Device -> Seq(Batch)] /\ head' \in Seq(Signal) /\ Len(head') <= HeadDepth
          /\ dropped' \in BOOLEAN
      BY <1>17, <2>2, HandleType DEF RelayReadsLate
    <2>4. NetTypeOK' /\ RelayTypeOK'
      BY <1>17, <2>2, <2>3 DEF RelayReadsLate, NetTypeOK, RelayTypeOK
    <2>5. UNCHANGED <<engineVars, clientVars, history, bounds>>
      BY <1>17 DEF RelayReadsLate
    <2> QED
      BY <2>4, <2>5, Frame
  <1>18. ASSUME NEW d \in Device, RelayHangsUp(d) PROVE TypeOK'
    <2>1. NetTypeOK'
      BY <1>18 DEF RelayHangsUp, NetTypeOK
    <2>2. UNCHANGED <<engineVars, clientVars, relayVars, history, bounds>>
      BY <1>18 DEF RelayHangsUp
    <2> QED
      BY <2>1, <2>2, Frame
  <1>19. CASE RelayRotates
    <2>1. RelayTypeOK'
      BY <1>19, ClipSyncAssumption, EngineAssumption DEF RelayRotates, RelayTypeOK, Epoch
    <2>2. UNCHANGED <<engineVars, clientVars, netVars, history, bounds>>
      BY <1>19 DEF RelayRotates
    <2> QED
      BY <2>1, <2>2, Frame
  <1>20. CASE UNCHANGED vars
    BY <1>20, Frame DEF vars
  <1> QED
    BY <1>1, <1>2, <1>3, <1>4, <1>5, <1>6, <1>7, <1>8, <1>9, <1>10, <1>11, <1>12,
       <1>13, <1>14, <1>15, <1>16, <1>17, <1>18, <1>19, <1>20 DEF Next, DeviceStep, RelayStep

\* Every reachable state of ClipSync is well typed.
THEOREM TypeCorrect == Spec => []TypeOK
  <1> QED
    BY TypeInit, TypeStep, PTL DEF Spec

-----------------------------------------------------------------------------
(* The engine, seen alone: every step of the system is one of its inputs.  *)

\* What a step can do to the engines and to the published keys.
EngineEffect ==
    \/ UNCHANGED <<engineVars, issued>>
    \/ \E d \in Device, c \in Content, w \in Wall :
          /\ EmitLocal(d, c, w)
          /\ issued' = issued \cup {LocalSignal(d, c, w).key}
    \/ \E d \in Device :
          /\ UNCHANGED issued
          /\ HasNext(d)
          /\ LET s == Head(Heard(d))
             IN SupersededSignal(d, s) \/ NeedFetch(d, s) \/ ApplyInline(d, s)
    \/ \E d \in Device :
          /\ UNCHANGED issued
          /\ \/ \E p \in pending[d] : ApplyFetched(d, p) \/ DropFetched(d, p)
             \/ \E e \in Epoch : SetGroupKey(d, e)
             \/ SetEnabled(d)
             \/ \E id \in grace[d] : GraceExpires(d, id)
             \/ EngineRestart(d)

LEMMA StepEffect == TypeOK /\ [Next]_vars => EngineEffect
  <1> SUFFICES ASSUME TypeOK, [Next]_vars PROVE EngineEffect
    OBVIOUS
  <1> USE DEF EngineEffect
  <1>1. ASSUME NEW d \in Device, NEW c \in Content, UserCopy(d, c) PROVE EngineEffect
    BY <1>1 DEF UserCopy
  <1>2. ASSUME NEW d \in Device, Poll(d) \/ WriteClipboard(d) \/ WriteFails(d)
                                   \/ KeepCopy(d) \/ Disconnect(d) \/ Connect(d)
        PROVE  UNCHANGED <<engineVars, issued>>
    BY <1>2 DEF Poll, WriteClipboard, WriteFails, KeepCopy, KeepLocal, Disconnect, Connect,
       history
  <1>3. ASSUME NEW d \in Device, NEW w \in Wall, PublishCopy(d, w) PROVE EngineEffect
    <2>1. polled[d] \in Content
      BY <1>3 DEF PublishCopy, TypeOK, ClientTypeOK
    <2>2. EmitLocal(d, polled[d], w) /\ issued' = issued \cup {LocalSignal(d, polled[d], w).key}
      BY <1>3 DEF PublishCopy
    <2> QED
      BY <2>1, <2>2
  <1>4. ASSUME NEW d \in Device, HearSignal(d) \/ HearInline(d) PROVE EngineEffect
    <2>1. HasNext(d) /\ UNCHANGED issued
      BY <1>4 DEF HearSignal, HearInline, history
    <2>2. \/ RejectSignal(d, Head(Heard(d))) \/ SupersededSignal(d, Head(Heard(d)))
          \/ NeedFetch(d, Head(Heard(d))) \/ ApplyInline(d, Head(Heard(d)))
      BY <1>4 DEF HearSignal, HearInline
    <2> QED
      BY <2>1, <2>2 DEF RejectSignal
  <1>5. ASSUME NEW d \in Device, NEW p \in pending[d], FinishFetch(d, p) PROVE EngineEffect
    BY <1>5 DEF FinishFetch, history
  <1>6. ASSUME NEW d \in Device, NEW e \in Epoch, AdoptKey(d, e) PROVE EngineEffect
    BY <1>6 DEF AdoptKey, history
  <1>7. ASSUME NEW d \in Device, Restart(d) PROVE EngineEffect
    BY <1>7 DEF Restart
  <1>8. ASSUME NEW d \in Device, Toggle(d) PROVE EngineEffect
    BY <1>8 DEF Toggle, history
  <1>9. ASSUME NEW d \in Device, NEW id \in grace[d], Expire(d, id) PROVE EngineEffect
    BY <1>9 DEF Expire, history
  <1>10. ASSUME NEW d \in Device, RelayStep(d) PROVE UNCHANGED <<engineVars, issued>>
    BY <1>10 DEF RelayStep, RelayReads, RelayReadsLate, RelayHangsUp, history
  <1>11. CASE RelayRotates \/ UNCHANGED vars
    BY <1>11 DEF RelayRotates, vars, history
  <1> QED
    BY <1>1, <1>2, <1>3, <1>4, <1>5, <1>6, <1>7, <1>8, <1>9, <1>10, <1>11
       DEF Next, DeviceStep

-----------------------------------------------------------------------------
(* The clock and the fetches.                                              *)

\* No step of an engine leaves a key above the clock of its device.
LEMMA LamportStep ==
    ASSUME TypeOK, LamportDominates, EngineEffect
    PROVE  LamportDominates'
  <1> USE DEF TypeOK
  <1>0. \A d \in Device : lamport[d] \in Int /\ \A p \in pending[d] : p.key.lamport \in Int
    BY LwwAssumption DEF EngineTypeOK, Signal, Key
  <1>1. CASE UNCHANGED <<engineVars, issued>>
    BY <1>1 DEF LamportDominates, engineVars
  <1>2. ASSUME NEW d \in Device, NEW c \in Content, NEW w \in Wall, EmitLocal(d, c, w)
        PROVE  LamportDominates'
    <2>1. LocalSignal(d, c, w).key.lamport = lamport[d] + 1
      BY <1>2, LocalSignalType DEF EmitLocal
    <2> QED
      BY <1>0, <1>2, <2>1 DEF EmitLocal, LamportDominates, EngineTypeOK, Tick
  <1>3. ASSUME NEW d \in Device, HasNext(d),
               LET s == Head(Heard(d))
               IN SupersededSignal(d, s) \/ NeedFetch(d, s) \/ ApplyInline(d, s)
        PROVE  LamportDominates'
    <2> DEFINE s == Head(Heard(d))
    <2>1. s \in Signal /\ s.key \in Key /\ s.key.lamport \in Int
      BY <1>3, HeardType, LwwAssumption DEF Signal, Key
    <2> DEFINE m == MergeLamport(lamport[d], s.key.lamport)
    <2>2. m >= lamport[d] /\ m >= s.key.lamport /\ m \in Int
      BY <1>0, <2>1, MergeLamportMax
    <2> HIDE DEF m, s
    <2>3. current \in [Device -> Key \cup {None}] /\ pending \in [Device -> SUBSET Signal]
      BY DEF EngineTypeOK
    <2>4. lamport' = [lamport EXCEPT ![d] = m]
      BY <1>3 DEF SupersededSignal, NeedFetch, ApplyInline, m, s
    <2>5. lamport' \in [Device -> Int] /\ \A e \in Device : lamport'[e] >= lamport[e]
      BY <1>0, <2>2, <2>4 DEF EngineTypeOK
    <2>6. \A e \in Device : current'[e] \in {current[e], s.key} /\ (e # d => current'[e] = current[e])
      BY <1>3, <2>3 DEF SupersededSignal, NeedFetch, ApplyInline, Applied, s
    <2>7. \A e \in Device : /\ pending'[e] \subseteq pending[e] \cup {s}
                            /\ e # d => pending'[e] = pending[e]
      BY <1>3, <2>3 DEF SupersededSignal, NeedFetch, ApplyInline, s
    <2>8. \A e \in Device : current[e] # None => current[e].lamport \in Int
      BY <2>3, LwwAssumption DEF Key
    <2>9. lamport'[d] = m
      BY <2>4 DEF EngineTypeOK
    <2>10. ASSUME NEW e \in Device, current'[e] # None PROVE current'[e].lamport <= lamport'[e]
      <3>1. CASE current'[e] = current[e]
        BY <1>0, <2>5, <2>8, <2>10, <3>1 DEF LamportDominates
      <3>2. CASE e = d /\ current'[e] = s.key
        BY <2>1, <2>2, <2>9, <3>2
      <3> QED
        BY <2>6, <3>1, <3>2
    <2>11. ASSUME NEW e \in Device, NEW p \in pending'[e] PROVE p.key.lamport <= lamport'[e]
      <3>1. CASE p \in pending[e]
        BY <1>0, <2>5, <3>1 DEF LamportDominates
      <3>2. CASE e = d /\ p = s
        BY <2>1, <2>2, <2>9, <3>2
      <3> QED
        BY <2>7, <2>11, <3>1, <3>2
    <2> QED
      BY <2>10, <2>11 DEF LamportDominates
  <1>4. ASSUME NEW d \in Device, NEW p \in pending[d], ApplyFetched(d, p) \/ DropFetched(d, p)
        PROVE  LamportDominates'
    <2>1. p.key.lamport <= lamport[d]
      BY <1>4 DEF LamportDominates
    <2>2. lamport' = lamport /\ \A e \in Device : pending'[e] \subseteq pending[e]
      BY <1>4 DEF ApplyFetched, DropFetched, EngineTypeOK
    <2>3. \A e \in Device : current'[e] = current[e] \/ (e = d /\ current'[e] = p.key)
      BY <1>4 DEF ApplyFetched, DropFetched, Applied, EngineTypeOK
    <2> QED
      BY <2>1, <2>2, <2>3 DEF LamportDominates
  <1>5. ASSUME NEW d \in Device,
               \/ \E e \in Epoch : SetGroupKey(d, e)
               \/ SetEnabled(d)
               \/ \E id \in grace[d] : GraceExpires(d, id)
        PROVE  LamportDominates'
    BY <1>5 DEF SetGroupKey, SetEnabled, GraceExpires, LamportDominates, EngineTypeOK
  <1>6. ASSUME NEW d \in Device, EngineRestart(d) PROVE LamportDominates'
    BY <1>6 DEF EngineRestart, LamportDominates, EngineTypeOK
  <1> QED
    BY <1>1, <1>2, <1>3, <1>4, <1>5, <1>6 DEF EngineEffect

\* The clock of a device never falls behind a key it applied or is fetching:
\* the unconditional set_current of on_local_clipboard never goes back.
THEOREM LamportDominatesAlways == Spec => []LamportDominates
  <1>1. Init => LamportDominates
    <2> SUFFICES ASSUME EngineInit PROVE LamportDominates
      BY DEF Init
    <2>1. \A d \in Device : current[d] = None /\ pending[d] = {}
      BY DEF EngineInit
    <2> QED
      BY <2>1 DEF LamportDominates
  <1>2. TypeOK /\ LamportDominates /\ [Next]_vars => LamportDominates'
    BY StepEffect, LamportStep
  <1> QED
    BY <1>1, <1>2, TypeCorrect, PTL DEF Spec

\* Every fetch under way is for a body sealed under the key now held.
THEOREM FetchesUnderCurrentKey == Spec => []PendingUnderCurrentKey
  <1>1. Init => PendingUnderCurrentKey
    BY DEF Init, EngineInit, PendingUnderCurrentKey
  <1>2. ASSUME TypeOK, PendingUnderCurrentKey, EngineEffect
        PROVE  PendingUnderCurrentKey'
    <2> USE DEF TypeOK, EngineTypeOK
    <2>1. CASE UNCHANGED <<engineVars, issued>>
      BY <1>2, <2>1 DEF PendingUnderCurrentKey, engineVars
    <2>2. ASSUME NEW d \in Device, NEW c \in Content, NEW w \in Wall, EmitLocal(d, c, w)
          PROVE  PendingUnderCurrentKey'
      BY <1>2, <2>2 DEF EmitLocal, PendingUnderCurrentKey
    <2>3. ASSUME NEW d \in Device, NEW s,
                 SupersededSignal(d, s) \/ NeedFetch(d, s) \/ ApplyInline(d, s)
          PROVE  PendingUnderCurrentKey'
      BY <1>2, <2>3 DEF SupersededSignal, NeedFetch, ApplyInline, Opens, PendingUnderCurrentKey
    <2>4. ASSUME NEW d \in Device, NEW p \in pending[d], ApplyFetched(d, p) \/ DropFetched(d, p)
          PROVE  PendingUnderCurrentKey'
      BY <1>2, <2>4 DEF ApplyFetched, DropFetched, PendingUnderCurrentKey
    <2>5. ASSUME NEW d \in Device,
                 \/ \E e \in Epoch : SetGroupKey(d, e)
                 \/ SetEnabled(d)
                 \/ \E id \in grace[d] : GraceExpires(d, id)
                 \/ EngineRestart(d)
          PROVE  PendingUnderCurrentKey'
      BY <1>2, <2>5 DEF SetGroupKey, SetEnabled, GraceExpires, EngineRestart,
         PendingUnderCurrentKey
    <2> QED
      BY <1>2, <2>1, <2>2, <2>3, <2>4, <2>5 DEF EngineEffect
  <1>3. TypeOK /\ PendingUnderCurrentKey /\ [Next]_vars => PendingUnderCurrentKey'
    BY <1>2, StepEffect
  <1> QED
    BY <1>1, <1>3, TypeCorrect, PTL DEF Spec

-----------------------------------------------------------------------------
(* The echo defence.                                                       *)

\* A clip on its way from the clipboard of d to its engine: read and not yet
\* handed over, or differing from what the watcher saw last.
InEngineQueue(d) == IF polled[d] # None THEN 1 ELSE 0
UnseenClip(d) == IF os[d] # None /\ os[d] # seen[d] THEN 1 ELSE 0

\* The strengthening: the clips on their way are paid for as well.
Covered(d) ==
    published[d] + InEngineQueue(d) + UnseenClip(d) <= copied[d] + restarted[d] + altered[d]

EchoBudget == \A d \in Device : Covered(d)

\* What the budget of device d counts has not moved.
BudgetStill(d) ==
    /\ published'[d] = published[d] /\ copied'[d] = copied[d]
    /\ restarted'[d] = restarted[d] /\ altered'[d] = altered[d]
    /\ os'[d] = os[d] /\ seen'[d] = seen[d] /\ polled'[d] = polled[d]

\* A step of device d that leaves the others alone changes only its budget.
LEMMA BudgetOfOne ==
    ASSUME EchoBudget, NEW d \in Device, Covered(d)', \A e \in Device \ {d} : BudgetStill(e)
    PROVE  EchoBudget'
  BY DEF EchoBudget, Covered, BudgetStill, InEngineQueue, UnseenClip

LEMMA EchoStep == TypeOK /\ EchoBudget /\ [Next]_vars => EchoBudget'
  <1> SUFFICES ASSUME TypeOK, EchoBudget, [Next]_vars PROVE EchoBudget'
    OBVIOUS
  <1>a. /\ os \in [Device -> Content \cup {None}] /\ seen \in [Device -> Content \cup {None}]
        /\ polled \in [Device -> Content \cup {None}]
        /\ copied \in [Device -> Nat] /\ published \in [Device -> Nat]
        /\ restarted \in [Device -> Nat] /\ altered \in [Device -> Nat]
    BY DEF TypeOK, ClientTypeOK, HistoryTypeOK
  <1>0. ASSUME NEW d \in Device
        PROVE  Covered(d) /\ InEngineQueue(d) \in {0, 1} /\ UnseenClip(d) \in {0, 1}
               /\ published[d] \in Nat /\ copied[d] \in Nat
               /\ restarted[d] \in Nat /\ altered[d] \in Nat
    BY <1>a DEF EchoBudget, InEngineQueue, UnseenClip
  <1>1. ASSUME NEW d \in Device, NEW c \in Content, UserCopy(d, c) PROVE EchoBudget'
    <2>1. \A e \in Device \ {d} : BudgetStill(e)
      BY <1>1, <1>a DEF UserCopy, BudgetStill
    <2>2. /\ published'[d] = published[d] /\ InEngineQueue(d)' = InEngineQueue(d)
          /\ UnseenClip(d)' \in {0, 1} /\ copied'[d] = copied[d] + 1
          /\ restarted'[d] = restarted[d] /\ altered'[d] = altered[d]
      BY <1>1, <1>a DEF UserCopy, InEngineQueue, UnseenClip
    <2>3. Covered(d)'
      BY <1>0, <2>2 DEF Covered
    <2> QED
      BY <2>1, <2>3, BudgetOfOne
  <1>2. ASSUME NEW d \in Device, Poll(d) PROVE EchoBudget'
    <2>1. \A e \in Device \ {d} : BudgetStill(e)
      BY <1>2, <1>a DEF Poll, history, BudgetStill
    <2>2. /\ published'[d] = published[d] /\ InEngineQueue(d)' \in {0, 1} /\ UnseenClip(d)' = 0
          /\ InEngineQueue(d) = 0 /\ UnseenClip(d) = 1
          /\ copied'[d] = copied[d] /\ restarted'[d] = restarted[d] /\ altered'[d] = altered[d]
      BY <1>2, <1>a DEF Poll, history, InEngineQueue, UnseenClip
    <2>3. Covered(d)'
      BY <1>0, <2>2 DEF Covered
    <2> QED
      BY <2>1, <2>3, BudgetOfOne
  <1>3. ASSUME NEW d \in Device, NEW w \in Wall, PublishCopy(d, w) PROVE EchoBudget'
    <2>1. \A e \in Device \ {d} : BudgetStill(e)
      BY <1>3, <1>a DEF PublishCopy, BudgetStill
    <2>2. /\ published'[d] = published[d] + 1 /\ InEngineQueue(d)' = 0 /\ UnseenClip(d)' = UnseenClip(d)
          /\ InEngineQueue(d) = 1
          /\ copied'[d] = copied[d] /\ restarted'[d] = restarted[d] /\ altered'[d] = altered[d]
      BY <1>3, <1>a DEF PublishCopy, InEngineQueue, UnseenClip
    <2>3. Covered(d)'
      BY <1>0, <2>2 DEF Covered
    <2> QED
      BY <2>1, <2>3, BudgetOfOne
  <1>4. ASSUME NEW d \in Device, KeepCopy(d) PROVE EchoBudget'
    <2>1. \A e \in Device \ {d} : BudgetStill(e)
      BY <1>4, <1>a DEF KeepCopy, history, BudgetStill
    <2>2. /\ published'[d] = published[d] /\ InEngineQueue(d)' = 0 /\ UnseenClip(d)' = UnseenClip(d)
          /\ copied'[d] = copied[d] /\ restarted'[d] = restarted[d] /\ altered'[d] = altered[d]
      BY <1>4, <1>a DEF KeepCopy, history, InEngineQueue, UnseenClip
    <2>3. Covered(d)'
      BY <1>0, <2>2 DEF Covered
    <2> QED
      BY <2>1, <2>3, BudgetOfOne
  <1>5. ASSUME NEW d \in Device, WriteClipboard(d) PROVE EchoBudget'
    <2>4. UNCHANGED <<polled, published, restarted>>
      BY <1>5 DEF WriteClipboard
    <2>5. PICK c \in Content, last \in Content \cup {None} : WriteAs(d, c, last)
      BY <1>5, WriteEffect
    <2>1. \A e \in Device \ {d} : BudgetStill(e)
      BY <2>4, <2>5, <1>a DEF WriteAs, BudgetStill
    <2>2. /\ published'[d] = published[d] /\ InEngineQueue(d)' = InEngineQueue(d)
          /\ restarted'[d] = restarted[d]
          /\ \/ /\ copied'[d] = copied[d] /\ altered'[d] = altered[d] /\ UnseenClip(d)' = 0
             \/ /\ copied'[d] = copied[d] /\ altered'[d] = altered[d] + 1 /\ UnseenClip(d)' \in {0, 1}
             \/ /\ copied'[d] = copied[d] + 1 /\ altered'[d] \in {altered[d], altered[d] + 1}
                /\ UnseenClip(d)' = 0
      BY <2>4, <2>5, <1>a DEF WriteAs, InEngineQueue, UnseenClip
    <2>3. Covered(d)'
      BY <1>0, <2>2 DEF Covered
    <2> QED
      BY <2>1, <2>3, BudgetOfOne
  <1>6. ASSUME NEW d \in Device, Restart(d) PROVE EchoBudget'
    <2>1. \A e \in Device \ {d} : BudgetStill(e)
      BY <1>6, <1>a DEF Restart, BudgetStill
    <2>2. /\ published'[d] = published[d] /\ InEngineQueue(d)' = 0 /\ UnseenClip(d)' \in {0, 1}
          /\ copied'[d] = copied[d] /\ restarted'[d] = restarted[d] + 1 /\ altered'[d] = altered[d]
      BY <1>6, <1>a DEF Restart, InEngineQueue, UnseenClip
    <2>3. Covered(d)'
      BY <1>0, <2>2 DEF Covered
    <2> QED
      BY <2>1, <2>3, BudgetOfOne
  <1>7. ASSUME UNCHANGED <<os, seen, polled, copied, published, restarted, altered>>
        PROVE  EchoBudget'
    BY <1>7 DEF EchoBudget, Covered, InEngineQueue, UnseenClip
  <1>8. ASSUME NEW d \in Device, \/ HearSignal(d) \/ HearInline(d) \/ WriteFails(d)
                                 \/ Disconnect(d) \/ Connect(d) \/ Toggle(d)
        PROVE  UNCHANGED <<os, seen, polled, copied, published, restarted, altered>>
    BY <1>8 DEF HearSignal, HearInline, WriteFails, Disconnect, Connect, Toggle,
       clientVars, history
  <1>9. ASSUME NEW d \in Device, \/ \E p \in pending[d] : FinishFetch(d, p)
                                 \/ \E e \in Epoch : AdoptKey(d, e)
                                 \/ \E id \in grace[d] : Expire(d, id)
                                 \/ RelayStep(d)
        PROVE  UNCHANGED <<os, seen, polled, copied, published, restarted, altered>>
    BY <1>9 DEF FinishFetch, AdoptKey, Expire, RelayStep, RelayReads, RelayReadsLate,
       RelayHangsUp, clientVars, history
  <1>10. CASE RelayRotates \/ UNCHANGED vars
    BY <1>7, <1>10 DEF RelayRotates, vars, clientVars, history
  <1> QED
    BY <1>1, <1>2, <1>3, <1>4, <1>5, <1>6, <1>7, <1>8, <1>9, <1>10 DEF Next, DeviceStep

\* A received clip is published again only for a write that the clipboard gave
\* back otherwise than the watcher noted, and once for each, whatever the
\* interleaving of the clipboard loop, the session task and the user.
THEOREM NoEchoAlways == Spec => []NoEcho
  <1>1. Init => EchoBudget
    <2> SUFFICES ASSUME Init, NEW d \in Device
                 PROVE  Covered(d)
      BY DEF EchoBudget
    <2>1. polled[d] = None /\ os[d] = None
      BY DEF Init
    <2>2. published[d] = 0 /\ copied[d] = 0 /\ restarted[d] = 0 /\ altered[d] = 0
      BY DEF Init
    <2>3. InEngineQueue(d) = 0 /\ UnseenClip(d) = 0
      BY <2>1 DEF InEngineQueue, UnseenClip
    <2> QED
      BY <2>2, <2>3 DEF Covered
  <1>2. TypeOK /\ EchoBudget => NoEcho
    <2> SUFFICES ASSUME TypeOK, EchoBudget, NEW d \in Device
                 PROVE  published[d] <= copied[d] + restarted[d] + altered[d]
      BY DEF NoEcho
    <2>1. InEngineQueue(d) \in {0, 1} /\ UnseenClip(d) \in {0, 1}
      BY DEF InEngineQueue, UnseenClip
    <2>2. published[d] + InEngineQueue(d) + UnseenClip(d)
             <= copied[d] + restarted[d] + altered[d]
      BY DEF EchoBudget, Covered
    <2>3. published[d] \in Nat /\ copied[d] \in Nat /\ restarted[d] \in Nat /\ altered[d] \in Nat
      BY DEF TypeOK, HistoryTypeOK
    <2> QED
      BY <2>1, <2>2, <2>3
  <1> QED
    BY <1>1, <1>2, EchoStep, TypeCorrect, PTL DEF Spec

-----------------------------------------------------------------------------
(* Refinement of the last-writer-wins register.                            *)

\* No device has been given another key than the first.
Unrotated == \A d \in Device : epoch[d] = 0

\* The signals whose key was published and, as long as no device has another
\* group key, sealed under the first; and the messages that carry them.
Known == {s \in Signal : s.key \in issued /\ (Unrotated => s.epoch = 0)}
KnownToRelay == [type : {"hello"}] \cup [type : {"signal"}, sig : Known]
KnownBatch == Seq(Known) \ {<<>>}

\* Whatever is on its way was published by somebody.
AllKnown ==
    /\ pending \in [Device -> SUBSET Known]
    /\ inHand \in [Device -> Seq(Known)]
    /\ up \in [Device -> Seq(KnownToRelay)]
    /\ closing \in [Device -> Seq(KnownToRelay) \cup {None}]
    /\ down \in [Device -> Seq(KnownBatch)]
    /\ head \in Seq(Known)

\* What a device does by itself leaves the relay alone: only what the relay
\* reads, or a change of the members, touches what it keeps.
LEMMA RelayMoves ==
    ASSUME [Next]_vars
    PROVE  UNCHANGED relayVars \/ RelayRotates \/ \E d \in Device : RelayReads(d) \/ RelayReadsLate(d)
  <1>1. ASSUME NEW d \in Device,
               \/ \E c \in Content : UserCopy(d, c)
               \/ Poll(d)
               \/ \E w \in Wall : PublishCopy(d, w)
               \/ KeepCopy(d)
        PROVE  UNCHANGED relayVars
    BY <1>1 DEF UserCopy, Poll, PublishCopy, KeepCopy, relayVars
  <1>2. ASSUME NEW d \in Device,
               \/ HearSignal(d)
               \/ HearInline(d)
               \/ \E p \in pending[d] : FinishFetch(d, p)
        PROVE  UNCHANGED relayVars
    BY <1>2 DEF HearSignal, HearInline, FinishFetch, relayVars
  <1>3. ASSUME NEW d \in Device,
               \/ WriteClipboard(d)
               \/ WriteFails(d)
               \/ \E e \in Epoch : AdoptKey(d, e)
               \/ Disconnect(d)
               \/ Connect(d)
        PROVE  UNCHANGED relayVars
    BY <1>3 DEF WriteClipboard, WriteFails, AdoptKey, Disconnect, Connect, relayVars
  <1>4. ASSUME NEW d \in Device,
               \/ Restart(d)
               \/ Toggle(d)
               \/ \E id \in grace[d] : Expire(d, id)
               \/ RelayHangsUp(d)
        PROVE  UNCHANGED relayVars
    BY <1>4 DEF Restart, Toggle, Expire, RelayHangsUp, relayVars
  <1>5. ASSUME UNCHANGED vars PROVE UNCHANGED relayVars
    BY <1>5 DEF vars, relayVars
  <1>6. ASSUME NEW d \in Device, DeviceStep(d) PROVE UNCHANGED relayVars
    BY <1>1, <1>2, <1>3, <1>4, <1>6 DEF DeviceStep
  <1>7. ASSUME NEW d \in Device, RelayStep(d)
        PROVE  UNCHANGED relayVars \/ RelayReads(d) \/ RelayReadsLate(d)
    BY <1>4, <1>7 DEF RelayStep
  <1> QED
    BY <1>5, <1>6, <1>7 DEF Next

\* Publishing is what adds to the issued keys, and a restart what counts.
LEMMA HistoryMoves ==
    ASSUME [Next]_vars
    PROVE  /\ UNCHANGED restarted \/ \E d \in Device : Restart(d)
           /\ UNCHANGED issued \/ \E d \in Device, w \in Wall : PublishCopy(d, w)
  <1>1. ASSUME NEW d \in Device,
               \/ \E c \in Content : UserCopy(d, c)
               \/ Poll(d)
               \/ KeepCopy(d)
        PROVE  UNCHANGED <<issued, restarted>>
    BY <1>1 DEF UserCopy, Poll, KeepCopy, history
  <1>2. ASSUME NEW d \in Device,
               \/ HearSignal(d)
               \/ HearInline(d)
               \/ \E p \in pending[d] : FinishFetch(d, p)
        PROVE  UNCHANGED <<issued, restarted>>
    BY <1>2 DEF HearSignal, HearInline, FinishFetch, history
  <1>3. ASSUME NEW d \in Device,
               \/ WriteClipboard(d)
               \/ WriteFails(d)
               \/ \E e \in Epoch : AdoptKey(d, e)
               \/ Disconnect(d)
               \/ Connect(d)
        PROVE  UNCHANGED <<issued, restarted>>
    BY <1>3 DEF WriteClipboard, WriteFails, AdoptKey, Disconnect, Connect, history
  <1>4. ASSUME NEW d \in Device,
               \/ Toggle(d)
               \/ \E id \in grace[d] : Expire(d, id)
               \/ RelayReads(d)
               \/ RelayReadsLate(d)
               \/ RelayHangsUp(d)
        PROVE  UNCHANGED <<issued, restarted>>
    BY <1>4 DEF Toggle, Expire, RelayReads, RelayReadsLate, RelayHangsUp, history
  <1>5. CASE RelayRotates \/ UNCHANGED vars
    BY <1>5 DEF RelayRotates, vars, history
  <1>6. ASSUME NEW d \in Device, Restart(d) PROVE UNCHANGED issued
    BY <1>6 DEF Restart
  <1>7. ASSUME NEW d \in Device, NEW w \in Wall, PublishCopy(d, w) PROVE UNCHANGED restarted
    BY <1>7 DEF PublishCopy
  <1> QED
    BY <1>1, <1>2, <1>3, <1>4, <1>5, <1>6, <1>7 DEF Next, DeviceStep, RelayStep

\* What was published stays published, and the epoch of a key never goes back.
LEMMA HistoryGrows ==
    ASSUME TypeOK, [Next]_vars
    PROVE  /\ issued \subseteq issued'
           /\ Unrotated' => Unrotated
           /\ relayEpoch' = 0 => relayEpoch = 0
           /\ dropped' = FALSE => dropped = FALSE
  <1>1. issued \subseteq issued'
    BY StepEffect DEF EngineEffect
  <1>2. ASSUME NEW d \in Device, NEW e \in Epoch, AdoptKey(d, e) PROVE Unrotated' => Unrotated
    <2>1. epoch[d] \in Nat /\ e \in epoch[d] + 1 .. relayEpoch + 1 /\ relayEpoch \in Nat
      BY <1>2, EngineAssumption DEF AdoptKey, TypeOK, EngineTypeOK, RelayTypeOK, Epoch
    <2>2. epoch'[d] = e
      BY <1>2 DEF AdoptKey, SetGroupKey, TypeOK, EngineTypeOK
    <2> QED
      BY <2>1, <2>2 DEF Unrotated
  <1>3. UNCHANGED epoch \/ \E d \in Device, e \in Epoch : AdoptKey(d, e)
    <2>1. ASSUME NEW d \in Device,
                 \/ \E c \in Content : UserCopy(d, c)
                 \/ Poll(d)
                 \/ KeepCopy(d)
                 \/ WriteClipboard(d)
                 \/ WriteFails(d)
                 \/ Disconnect(d)
                 \/ Connect(d)
                 \/ RelayStep(d)
          PROVE  UNCHANGED epoch
      BY <2>1 DEF UserCopy, Poll, KeepCopy, KeepLocal, WriteClipboard, WriteFails, Disconnect,
         Connect, RelayStep, RelayReads, RelayReadsLate, RelayHangsUp, engineVars
    <2>2. ASSUME NEW d \in Device,
                 \/ \E w \in Wall : PublishCopy(d, w)
                 \/ HearSignal(d)
                 \/ HearInline(d)
                 \/ \E p \in pending[d] : FinishFetch(d, p)
                 \/ Restart(d)
                 \/ Toggle(d)
                 \/ \E id \in grace[d] : Expire(d, id)
          PROVE  UNCHANGED epoch
      BY <2>2 DEF PublishCopy, EmitLocal, HearSignal, RejectSignal, SupersededSignal, NeedFetch,
         HearInline, ApplyInline, FinishFetch, ApplyFetched, DropFetched, Restart, EngineRestart,
         Toggle, SetEnabled, Expire, GraceExpires, engineVars
    <2>3. CASE RelayRotates \/ UNCHANGED vars
      BY <2>3 DEF RelayRotates, vars, engineVars
    <2> QED
      BY <2>1, <2>2, <2>3 DEF Next, DeviceStep
  <1>4. Unrotated' => Unrotated
    BY <1>2, <1>3 DEF Unrotated
  <1>5. UNCHANGED relayVars \/ RelayRotates \/ \E d \in Device : RelayReads(d) \/ RelayReadsLate(d)
    BY RelayMoves
  <1>6. relayEpoch' = 0 => relayEpoch = 0
    BY <1>5, EngineAssumption DEF relayVars, RelayRotates, RelayReads, RelayReadsLate, TypeOK,
       RelayTypeOK, Epoch
  <1>7. dropped' = FALSE => dropped = FALSE
    BY <1>5 DEF relayVars, RelayRotates, RelayReads, RelayReadsLate, Handle, HandleHello,
       HandleSignal, TypeOK, RelayTypeOK
  <1> QED
    BY <1>1, <1>4, <1>6, <1>7

\* The sets of what was published grow with it.
LEMMA KnownGrows ==
    ASSUME issued \subseteq issued', Unrotated' => Unrotated
    PROVE  /\ Known \subseteq Known'
           /\ Seq(Known) \subseteq Seq(Known')
           /\ KnownToRelay \subseteq KnownToRelay'
           /\ Seq(KnownToRelay) \subseteq Seq(KnownToRelay')
           /\ Seq(KnownBatch) \subseteq Seq(KnownBatch')
  <1>1. Known \subseteq Known'
    BY DEF Known
  <1>2. Seq(Known) \subseteq Seq(Known')
    BY <1>1, SeqMonotonic
  <1>3. KnownToRelay \subseteq KnownToRelay'
    BY <1>1 DEF KnownToRelay
  <1>4. Seq(KnownToRelay) \subseteq Seq(KnownToRelay')
    BY <1>3, SeqMonotonic
  <1>5. KnownBatch \subseteq KnownBatch'
    BY <1>2 DEF KnownBatch
  <1>6. Seq(KnownBatch) \subseteq Seq(KnownBatch')
    BY <1>5, SeqMonotonic
  <1> QED
    BY <1>1, <1>2, <1>3, <1>4, <1>6

\* A device hears only published signals.
LEMMA HeardKnown ==
    ASSUME AllKnown, NEW d \in Device, HasNext(d)
    PROVE  /\ Heard(d) \in KnownBatch
           /\ Head(Heard(d)) \in Known
           /\ Tail(Heard(d)) \in Seq(Known)
           /\ inHand[d] = <<>> => Tail(down[d]) \in Seq(KnownBatch)
  <1>1. inHand[d] \in Seq(Known) /\ down[d] \in Seq(KnownBatch)
    BY DEF AllKnown
  <1>2. ASSUME inHand[d] = <<>>
        PROVE  Head(down[d]) \in KnownBatch /\ Tail(down[d]) \in Seq(KnownBatch)
    <2>1. down[d] # <<>>
      BY <1>2 DEF HasNext
    <2> QED
      BY <1>1, <2>1, HeadTailProperties
  <1>3. Heard(d) \in KnownBatch
    BY <1>1, <1>2 DEF Heard, KnownBatch
  <1>4. Head(Heard(d)) \in Known /\ Tail(Heard(d)) \in Seq(Known)
    BY <1>3, HeadTailProperties DEF KnownBatch
  <1> QED
    BY <1>2, <1>3, <1>4

\* A message the relay handles leaves only published signals behind.
LEMMA HandleKnown ==
    ASSUME AllKnown, NEW d \in Device, NEW m \in KnownToRelay, Handle(d, m)
    PROVE  down' \in [Device -> Seq(KnownBatch)] /\ head' \in Seq(Known)
  <1>1. ASSUME NEW S, NEW b \in KnownBatch PROVE Sent(S, b) \in [Device -> Seq(KnownBatch)]
    <2>1. ASSUME NEW e \in Device PROVE Append(down[e], b) \in Seq(KnownBatch)
      BY <2>1 DEF AllKnown
    <2> QED
      BY <2>1 DEF Sent, AllKnown
  <1>2. CASE m.type = "hello" /\ HandleHello(d)
    <2>1. head # <<>> => Sent({d}, head) \in [Device -> Seq(KnownBatch)]
      BY <1>1 DEF AllKnown, KnownBatch
    <2> QED
      BY <1>2, <2>1 DEF HandleHello, AllKnown
  <1>3. CASE m.type = "signal" /\ HandleSignal(d, m.sig)
    <2>1. m.sig \in Known
      BY <1>3 DEF KnownToRelay
    <2>2. Sent(Device \ {d}, <<m.sig>>) \in [Device -> Seq(KnownBatch)]
      <3>1. <<m.sig>> \in KnownBatch
        BY <2>1 DEF KnownBatch
      <3> QED
        BY <1>1, <3>1
    <2>3. Append(head, m.sig) \in Seq(Known) /\ Append(head, m.sig) # <<>>
      <3>1. head \in Seq(Known)
        BY DEF AllKnown
      <3> QED
        BY <2>1, <3>1
    <2>4. Tail(Append(head, m.sig)) \in Seq(Known)
      BY <2>3, HeadTailProperties
    <2> QED
      BY <1>3, <2>2, <2>3, <2>4 DEF HandleSignal, Cached
  <1> QED
    BY <1>2, <1>3 DEF Handle

\* A severed session leaves only published signals behind.
LEMMA SeverKnown ==
    ASSUME AllKnown, NEW d \in Device, Sever(d)
    PROVE  /\ up' \in [Device -> Seq(KnownToRelay)]
           /\ closing' \in [Device -> Seq(KnownToRelay) \cup {None}]
           /\ down' \in [Device -> Seq(KnownBatch)]
  <1>1. up[d] \in Seq(KnownToRelay)
    BY DEF AllKnown
  <1>2. PICK n \in 0 .. Len(up[d]) : closing' = [closing EXCEPT ![d] = SubSeq(up[d], 1, n)]
    BY DEF Sever
  <1>3. Len(up[d]) \in Nat /\ \A i \in 1 .. Len(up[d]) : up[d][i] \in KnownToRelay
    BY <1>1
  <1>4. SubSeq(up[d], 1, n) \in Seq(KnownToRelay)
    BY <1>2, <1>3, SubSeqProperties
  <1> QED
    BY <1>2, <1>4 DEF Sever, AllKnown

\* Hearing or finishing a fetch keeps pending within the published signals.
LEMMA PendingKnown ==
    ASSUME AllKnown, UNCHANGED issued, NEW d \in Device,
           \/ \E s \in Known : \/ RejectSignal(d, s) \/ SupersededSignal(d, s)
                               \/ NeedFetch(d, s) \/ ApplyInline(d, s)
           \/ \E p \in pending[d] : ApplyFetched(d, p) \/ DropFetched(d, p)
    PROVE  pending' \in [Device -> SUBSET Known]
  <1>1. pending \in [Device -> SUBSET Known]
    BY DEF AllKnown
  <1>2. ASSUME NEW s \in Known, NeedFetch(d, s) PROVE pending' \in [Device -> SUBSET Known]
    BY <1>1, <1>2 DEF NeedFetch
  <1>3. ASSUME NEW s \in Known,
               RejectSignal(d, s) \/ SupersededSignal(d, s) \/ ApplyInline(d, s)
        PROVE  UNCHANGED pending
    BY <1>3 DEF RejectSignal, SupersededSignal, ApplyInline, engineVars
  <1>4. ASSUME NEW p \in pending[d], ApplyFetched(d, p) \/ DropFetched(d, p)
        PROVE  pending' \in [Device -> SUBSET Known]
    BY <1>1, <1>4 DEF ApplyFetched, DropFetched
  <1> QED
    BY <1>1, <1>2, <1>3, <1>4

LEMMA AllKnownStep == TypeOK /\ AllKnown /\ [Next]_vars => AllKnown'
  <1> SUFFICES ASSUME TypeOK, AllKnown, [Next]_vars PROVE AllKnown'
    OBVIOUS
  <1>0. ASSUME /\ pending' \in [Device -> SUBSET Known]
               /\ inHand' \in [Device -> Seq(Known)]
               /\ up' \in [Device -> Seq(KnownToRelay)]
               /\ closing' \in [Device -> Seq(KnownToRelay) \cup {None}]
               /\ down' \in [Device -> Seq(KnownBatch)]
               /\ head' \in Seq(Known)
        PROVE  AllKnown'
    BY <1>0, HistoryGrows, KnownGrows DEF AllKnown
  <1>1. ASSUME UNCHANGED <<pending, inHand, up, closing, down, head>>
        PROVE  AllKnown'
    BY <1>0, <1>1 DEF AllKnown
  <1>2. ASSUME NEW d \in Device, \/ \E c \in Content : UserCopy(d, c)
                                 \/ Poll(d) \/ KeepCopy(d) \/ WriteClipboard(d)
                                 \/ WriteFails(d) \/ Toggle(d)
        PROVE  AllKnown'
    BY <1>1, <1>2 DEF UserCopy, Poll, KeepCopy, KeepLocal, WriteClipboard, WriteFails,
       Toggle, SetEnabled, engineVars, clientVars, netVars, relayVars, history
  <1>3. ASSUME NEW d \in Device, NEW w \in Wall, PublishCopy(d, w) PROVE AllKnown'
    <2> DEFINE s == LocalSignal(d, polled[d], w)
    <2>1. polled[d] \in Content /\ EmitLocal(d, polled[d], w) /\ issued' = issued \cup {s.key}
      BY <1>3 DEF PublishCopy, TypeOK, ClientTypeOK
    <2>2. s \in Signal
      BY <2>1, LocalSignalType DEF EmitLocal, TypeOK
    <2>3. s \in Known'
      <3>1. s.key \in issued' /\ s.epoch = epoch[d] /\ UNCHANGED epoch
        BY <2>1 DEF EmitLocal, LocalSignal
      <3> QED
        BY <2>2, <3>1 DEF Known, Unrotated
    <2>4. [type |-> "signal", sig |-> s] \in KnownToRelay'
      BY <2>3 DEF KnownToRelay
    <2>5. /\ Known \subseteq Known'
          /\ Seq(Known) \subseteq Seq(Known')
          /\ Seq(KnownToRelay) \subseteq Seq(KnownToRelay')
          /\ Seq(KnownBatch) \subseteq Seq(KnownBatch')
      BY HistoryGrows, KnownGrows
    <2>6. up \in [Device -> Seq(KnownToRelay')]
      BY <2>5 DEF AllKnown
    <2>7. Append(up[d], [type |-> "signal", sig |-> s]) \in Seq(KnownToRelay')
      BY <2>4, <2>6
    <2>8. up' \in [Device -> Seq(KnownToRelay')]
      BY <1>3, <2>6, <2>7 DEF PublishCopy
    <2>9. UNCHANGED <<pending, inHand, closing, down, head>>
      BY <1>3, <2>1 DEF PublishCopy, EmitLocal, relayVars
    <2>10. pending' \in [Device -> SUBSET Known']
      BY <2>5, <2>9 DEF AllKnown
    <2>11. /\ inHand' \in [Device -> Seq(Known')]
           /\ closing' \in [Device -> Seq(KnownToRelay') \cup {None}]
           /\ down' \in [Device -> Seq(KnownBatch')]
           /\ head' \in Seq(Known')
      BY <2>5, <2>9 DEF AllKnown
    <2> QED
      BY <2>8, <2>10, <2>11 DEF AllKnown
  <1>4. ASSUME NEW d \in Device, HearSignal(d) \/ HearInline(d) PROVE AllKnown'
    <2>1. HasNext(d) /\ TakeSignal(d) /\ UNCHANGED <<issued, up, closing, head>>
      BY <1>4 DEF HearSignal, HearInline, history, relayVars
    <2>2. Head(Heard(d)) \in Known /\ Tail(Heard(d)) \in Seq(Known)
      BY <2>1, HeardKnown
    <2>3. pending' \in [Device -> SUBSET Known]
      BY <1>4, <2>1, <2>2, PendingKnown DEF HearSignal, HearInline
    <2>4. inHand' \in [Device -> Seq(Known)]
      BY <2>1, <2>2 DEF TakeSignal, AllKnown
    <2>5. down' \in [Device -> Seq(KnownBatch)]
      BY <2>1, HeardKnown DEF TakeSignal, AllKnown
    <2> QED
      BY <1>0, <2>1, <2>3, <2>4, <2>5 DEF AllKnown
  <1>5. ASSUME NEW d \in Device, NEW p \in pending[d], FinishFetch(d, p) PROVE AllKnown'
    <2>1. UNCHANGED <<inHand, up, closing, down, head, issued>>
      BY <1>5 DEF FinishFetch, netVars, relayVars, history
    <2>2. pending' \in [Device -> SUBSET Known]
      BY <1>5, <2>1, PendingKnown DEF FinishFetch
    <2> QED
      BY <1>0, <2>1, <2>2 DEF AllKnown
  <1>6. ASSUME NEW d \in Device, \/ \E e \in Epoch : AdoptKey(d, e)
                                 \/ \E id \in grace[d] : Expire(d, id)
        PROVE  AllKnown'
    <2>1. UNCHANGED <<inHand, up, closing, down, head, issued>>
      BY <1>6 DEF AdoptKey, Expire, clientVars, netVars, relayVars, history
    <2>2. pending' \in [Device -> SUBSET Known]
      BY <1>6 DEF AdoptKey, Expire, SetGroupKey, GraceExpires, AllKnown
    <2> QED
      BY <1>0, <2>1, <2>2 DEF AllKnown
  <1>7. ASSUME NEW d \in Device, Disconnect(d) PROVE AllKnown'
    <2>1. Sever(d) /\ UNCHANGED <<pending, inHand, head, issued>>
      BY <1>7 DEF Disconnect, engineVars, clientVars, relayVars
    <2> QED
      BY <1>0, <2>1, SeverKnown DEF AllKnown
  <1>8. ASSUME NEW d \in Device, Connect(d) PROVE AllKnown'
    <2>1. UNCHANGED <<pending, inHand, closing, down, head, issued>>
      BY <1>8 DEF Connect, engineVars, clientVars, relayVars, history
    <2>2. <<[type |-> "hello"]>> \in Seq(KnownToRelay)
      BY DEF KnownToRelay
    <2>3. up' \in [Device -> Seq(KnownToRelay)]
      BY <1>8, <2>2 DEF Connect, AllKnown
    <2> QED
      BY <1>0, <2>1, <2>3 DEF AllKnown
  <1>9. ASSUME NEW d \in Device, Restart(d) PROVE AllKnown'
    <2>1. UNCHANGED <<head, issued>>
      BY <1>9 DEF Restart, relayVars
    <2>2. /\ up' \in [Device -> Seq(KnownToRelay)]
          /\ closing' \in [Device -> Seq(KnownToRelay) \cup {None}]
          /\ down' \in [Device -> Seq(KnownBatch)]
      BY <1>9, SeverKnown DEF Restart, netVars, AllKnown
    <2>3. pending' \in [Device -> SUBSET Known] /\ inHand' \in [Device -> Seq(Known)]
      BY <1>9 DEF Restart, EngineRestart, AllKnown
    <2> QED
      BY <1>0, <2>1, <2>2, <2>3 DEF AllKnown
  <1>10. ASSUME NEW d \in Device, RelayReads(d) PROVE AllKnown'
    <2>1. UNCHANGED <<pending, inHand, closing, issued>>
      BY <1>10 DEF RelayReads, engineVars, clientVars, history
    <2>2. Head(up[d]) \in KnownToRelay /\ Tail(up[d]) \in Seq(KnownToRelay)
      BY <1>10, HeadTailProperties DEF RelayReads, AllKnown
    <2>3. down' \in [Device -> Seq(KnownBatch)] /\ head' \in Seq(Known)
      BY <1>10, <2>2, HandleKnown DEF RelayReads
    <2>4. up' \in [Device -> Seq(KnownToRelay)]
      BY <1>10, <2>2 DEF RelayReads, AllKnown
    <2> QED
      BY <1>0, <2>1, <2>3, <2>4 DEF AllKnown
  <1>11. ASSUME NEW d \in Device, RelayReadsLate(d) PROVE AllKnown'
    <2>1. UNCHANGED <<pending, inHand, up, issued>>
      BY <1>11 DEF RelayReadsLate, engineVars, clientVars, history
    <2>2. closing[d] \in Seq(KnownToRelay) /\ closing[d] # <<>>
      BY <1>11 DEF RelayReadsLate, AllKnown
    <2>3. Head(closing[d]) \in KnownToRelay /\ Tail(closing[d]) \in Seq(KnownToRelay)
      BY <2>2, HeadTailProperties
    <2>4. down' \in [Device -> Seq(KnownBatch)] /\ head' \in Seq(Known)
      BY <1>11, <2>3, HandleKnown DEF RelayReadsLate
    <2>5. closing' \in [Device -> Seq(KnownToRelay) \cup {None}]
      BY <1>11, <2>3 DEF RelayReadsLate, AllKnown
    <2> QED
      BY <1>0, <2>1, <2>4, <2>5 DEF AllKnown
  <1>12. ASSUME NEW d \in Device, RelayHangsUp(d) PROVE AllKnown'
    <2>1. UNCHANGED <<pending, inHand, up, down, head, issued>>
      BY <1>12 DEF RelayHangsUp, engineVars, clientVars, relayVars, history
    <2>2. closing' \in [Device -> Seq(KnownToRelay) \cup {None}]
      BY <1>12 DEF RelayHangsUp, AllKnown
    <2> QED
      BY <1>0, <2>1, <2>2 DEF AllKnown
  <1>13. CASE RelayRotates
    <2>1. UNCHANGED <<pending, inHand, up, closing, down, issued>> /\ head' = <<>>
      BY <1>13 DEF RelayRotates, engineVars, clientVars, netVars, history
    <2> QED
      BY <1>0, <2>1 DEF AllKnown
  <1>14. CASE UNCHANGED vars
    BY <1>1, <1>14 DEF vars, engineVars, clientVars, netVars, relayVars, history
  <1> QED
    BY <1>2, <1>3, <1>4, <1>5, <1>6, <1>7, <1>8, <1>9, <1>10, <1>11, <1>12, <1>13, <1>14
       DEF Next, DeviceStep, RelayStep

-----------------------------------------------------------------------------

\* A step of the engines is a step of the register, or leaves it alone.
LEMMA RegisterStep ==
    ASSUME TypeOK, LamportDominates, AllKnown, EngineEffect
    PROVE  [Register!Next]_(Register!vars)
  <1> USE DEF TypeOK, EngineTypeOK
  <1>1. CASE UNCHANGED <<engineVars, issued>>
    BY <1>1 DEF engineVars, Register!vars
  <1>2. ASSUME NEW d \in Device, NEW c \in Content, NEW w \in Wall,
               EmitLocal(d, c, w), issued' = issued \cup {LocalSignal(d, c, w).key}
        PROVE  Register!Next
    <2> DEFINE k == LocalSignal(d, c, w).key
    <2>1. k \in Key /\ k.lamport = lamport[d] + 1 /\ k.origin = d
      BY <1>2, LocalSignalType DEF EmitLocal, LocalSignal
    <2>2. current[d] # None => current[d].lamport <= lamport[d] /\ current[d].lamport \in Int
      BY LwwAssumption DEF LamportDominates, Key
    <2>3. lamport[d] \in Int
      BY LwwAssumption
    <2>4. Register!WouldApply(current[d], k)
      BY <2>1, <2>2, <2>3 DEF Register!WouldApply, Register!KeyLess
    <2>5. current' = [current EXCEPT ![d] = k] /\ issued' = issued \cup {k}
      BY <1>2 DEF EmitLocal
    <2>6. Register!Issue(d, k)
      BY <2>1, <2>4, <2>5 DEF Register!Issue
    <2> QED
      BY <2>1, <2>6 DEF Register!Next, Register!Key, Key
  <1>3. ASSUME NEW d \in Device, NEW s \in Known, UNCHANGED issued,
               current' = [current EXCEPT ![d] = Applied(@, s.key)]
        PROVE  Register!Next \/ UNCHANGED Register!vars
    <2>1. s.key \in Key /\ s.key \in issued
      BY DEF Known, Signal
    <2>2. CASE WouldApply(current[d], s.key)
      <3>1. Register!Adopt(d, s.key)
        BY <1>3, <2>1, <2>2 DEF Register!Adopt, Register!WouldApply, Register!KeyLess,
           WouldApply, KeyLess, Applied
      <3> QED
        BY <2>1, <3>1 DEF Register!Next, Register!Key, Key
    <2>3. CASE ~WouldApply(current[d], s.key)
      BY <1>3, <2>3 DEF Applied, Register!vars
    <2> QED
      BY <2>2, <2>3
  <1>4. ASSUME UNCHANGED <<current, issued>> PROVE UNCHANGED Register!vars
    BY <1>4 DEF Register!vars
  <1>5. ASSUME NEW d \in Device, UNCHANGED issued, HasNext(d),
               LET s == Head(Heard(d))
               IN SupersededSignal(d, s) \/ NeedFetch(d, s) \/ ApplyInline(d, s)
        PROVE  Register!Next \/ UNCHANGED Register!vars
    <2>1. Head(Heard(d)) \in Known
      BY <1>5, HeardKnown
    <2> QED
      BY <1>3, <1>4, <1>5, <2>1 DEF SupersededSignal, NeedFetch, ApplyInline
  <1>6. ASSUME NEW d \in Device, UNCHANGED issued, NEW p \in pending[d],
               ApplyFetched(d, p) \/ DropFetched(d, p)
        PROVE  Register!Next \/ UNCHANGED Register!vars
    <2>1. p \in Known
      BY DEF AllKnown
    <2> QED
      BY <1>3, <1>4, <1>6, <2>1 DEF ApplyFetched, DropFetched
  <1>7. ASSUME NEW d \in Device, UNCHANGED issued,
               \/ \E e \in Epoch : SetGroupKey(d, e)
               \/ SetEnabled(d)
               \/ \E id \in grace[d] : GraceExpires(d, id)
        PROVE  UNCHANGED Register!vars
    BY <1>4, <1>7 DEF SetGroupKey, SetEnabled, GraceExpires
  <1>8. ASSUME NEW d \in Device, UNCHANGED issued, EngineRestart(d)
        PROVE  Register!Next
    BY <1>8 DEF EngineRestart, Register!Next, Register!Forget
  <1> QED
    BY <1>1, <1>2, <1>5, <1>6, <1>7, <1>8 DEF EngineEffect

\* The engines, the watchers, the worker tasks and the relay together
\* implement the last-writer-wins register: a device only ever moves to a
\* newer key, and only to one that was published.
THEOREM Implementation == Spec => ImplementsRegister
  <1>1. Init => Register!Init
    BY DEF Init, EngineInit, Register!Init
  <1>2. Init => AllKnown
    BY DEF Init, EngineInit, AllKnown
  <1>3. TypeOK /\ LamportDominates /\ AllKnown /\ [Next]_vars
          => [Register!Next]_(Register!vars)
    BY StepEffect, RegisterStep
  <1> QED
    BY <1>1, <1>2, <1>3, AllKnownStep, TypeCorrect, LamportDominatesAlways, PTL
       DEF Spec, ImplementsRegister, Register!Spec

-----------------------------------------------------------------------------
(* Who is at rest has caught up, and those who are agree.                  *)

\* A device has seen all it needs of key k: k would not be applied.
Taken(cur, k) == ~WouldApply(cur, k)

InList(q, s) == \E k \in DOMAIN q : q[k] = s
InBatches(q, s) == \E k \in DOMAIN q : InList(q[k], s)

\* Signal s is on its way to device d, or will be sent with the next Welcome.
ToCome(d, s) ==
    \/ InList(inHand[d], s)
    \/ InBatches(down[d], s)
    \/ \E k \in DOMAIN up[d] : up[d][k].type = "hello"

\* The messages of one list to the relay come from device d.
SentBy(q, d) == \A k \in DOMAIN q : q[k].type = "signal" => q[k].sig.key.origin = d

\* What is on its way to the relay is from the device of that connection; a
\* device without a connection has nothing on its way; who never touched the
\* switch has sync on.
Wires ==
    \A d \in Device :
        /\ SentBy(up[d], d)
        /\ closing[d] # None => SentBy(closing[d], d)
        /\ ~conn[d] => up[d] = <<>>
        /\ toggles[d] = 0 => enabled[d]

\* Every inline signal of another device in the cache was taken, or is to come.
CaughtUp(d) ==
    Unrotated /\ toggles[d] = 0 /\ conn[d] /\ registered[d] =>
        \A s \in Signal :
            InList(head, s) /\ s.content \in Inline /\ s.key.origin # d
                => Taken(current[d], s.key) \/ ToCome(d, s)

CatchUp == \A d \in Device : CaughtUp(d)

\* The keys of the cached signals.
HeadKeys == {head[i].key : i \in DOMAIN head}

\* The signals in the cache, or all once it was emptied or has dropped one.
InCache == {s \in Signal : s.key \in HeadKeys \/ relayEpoch # 0 \/ dropped}

\* Whatever devices hear or await is in the cache.
HeardCached ==
    /\ inHand \in [Device -> Seq(InCache)]
    /\ down \in [Device -> Seq(Seq(InCache))]
    /\ pending \in [Device -> SUBSET InCache]

\* The keys of d that have not reached the relay.
OnTheWay(d) == KeysOf(up[d]) \cup (IF closing[d] = None THEN {} ELSE KeysOf(closing[d]))

\* What a device holds is in the cache, on its way there, or lost.
HeldCached ==
    relayEpoch = 0 /\ ~dropped =>
        \A d \in Device :
            current[d] # None => current[d] \in HeadKeys \cup lost \cup OnTheWay(d)

\* A device that was never restarted holds no less than it has published.
OwnTaken ==
    \A d \in Device : restarted[d] = 0 =>
        \A k \in issued : k.origin = d => Taken(current[d], k)

-----------------------------------------------------------------------------
(* Lemmas about the order and the queues.                                  *)

\* The order of the keys is total and strict.
LEMMA KeyOrder ==
    ASSUME NEW a \in Key, NEW b \in Key, NEW c \in Key
    PROVE  /\ ~KeyLess(a, a)
           /\ KeyLess(a, b) /\ KeyLess(b, c) => KeyLess(a, c)
           /\ a = b \/ KeyLess(a, b) \/ KeyLess(b, a)
  <1>1. ASSUME NEW k \in Key PROVE k.lamport \in Int /\ k.wall \in Int /\ k.origin \in Int
    <2>1. k.lamport \in 1 .. MaxLamport
      BY <1>1 DEF Key
    <2>2. k.lamport \in Int
      BY <2>1, LwwAssumption
    <2>3. k.wall \in Wall /\ k.origin \in Device
      BY <1>1 DEF Key
    <2>4. k.wall \in Nat /\ k.origin \in Nat
      BY <2>3, LwwAssumption
    <2>5. k.wall \in Int
      BY <2>4
    <2>6. k.origin \in Int
      BY <2>4
    <2> QED
      BY <2>2, <2>5, <2>6
  <1>2. a.lamport = b.lamport /\ a.wall = b.wall /\ a.origin = b.origin => a = b
    BY DEF Key
  <1> QED
    BY <1>1, <1>2 DEF KeyLess

\* A key taken stays taken by whoever moves to a newer key.
LEMMA TakenStays ==
    ASSUME NEW cur \in Key \cup {None}, NEW new \in Key \cup {None}, NEW k \in Key,
           Taken(cur, k), new = cur \/ (new \in Key /\ WouldApply(cur, new))
    PROVE  Taken(new, k)
  <1>1. cur # None /\ cur \in Key /\ ~KeyLess(cur, k)
    BY DEF Taken, WouldApply
  <1>2. CASE new = cur
    BY <1>2
  <1>3. CASE new \in Key /\ WouldApply(cur, new)
    <2>1. KeyLess(cur, new) /\ new # None
      BY <1>1, <1>3, NoneAssumption DEF WouldApply
    <2> QED
      BY <1>1, <1>3, <2>1, KeyOrder DEF Taken, WouldApply
  <1> QED
    BY <1>2, <1>3

\* Who holds a key has taken it.
LEMMA TakenSelf ==
    ASSUME NEW k \in Key
    PROVE  Taken(k, k)
  BY NoneAssumption, KeyOrder DEF Taken, WouldApply

\* Unless its app is restarted, a device keeps its key or moves to a newer one.
Moves(d) ==
    \/ current'[d] = current[d]
    \/ current'[d] \in Key /\ WouldApply(current[d], current'[d])

LEMMA CurrentMoves ==
    ASSUME TypeOK, LamportDominates, [Next]_vars, NEW d \in Device, ~Restart(d)
    PROVE  Moves(d)
  <1> USE DEF TypeOK, EngineTypeOK
  <1>1. ASSUME NEW e \in Device, NEW k \in Key, WouldApply(current[e], k),
               current' = [current EXCEPT ![e] = k]
        PROVE  Moves(d)
    BY <1>1 DEF Moves
  <1>2. ASSUME NEW e \in Device, NEW k \in Key, current' = [current EXCEPT ![e] = Applied(@, k)]
        PROVE  Moves(d)
    BY <1>2 DEF Moves, Applied
  <1>3. ASSUME NEW e \in Device, NEW w \in Wall, PublishCopy(e, w) PROVE Moves(d)
    <2> DEFINE s == LocalSignal(e, polled[e], w)
    <2>1. polled[e] \in Content /\ EmitLocal(e, polled[e], w)
      BY <1>3 DEF PublishCopy, ClientTypeOK
    <2>2. s.key \in Key /\ s.key.lamport = lamport[e] + 1 /\ lamport[e] \in Int
      BY <2>1, LocalSignalType, LwwAssumption DEF EmitLocal
    <2>3. current[e] # None => current[e].lamport <= lamport[e] /\ current[e].lamport \in Int
      BY LwwAssumption DEF LamportDominates, Key
    <2>4. WouldApply(current[e], s.key)
      BY <2>2, <2>3 DEF WouldApply, KeyLess
    <2>5. current' = [current EXCEPT ![e] = s.key]
      BY <2>1 DEF EmitLocal
    <2> QED
      BY <1>1, <2>2, <2>4, <2>5
  <1>4. ASSUME NEW e \in Device, HearInline(e) PROVE Moves(d)
    <2>1. HasNext(e) /\ ApplyInline(e, Head(Heard(e)))
      BY <1>4 DEF HearInline
    <2>2. Head(Heard(e)) \in Signal
      BY <2>1, HeardType
    <2>3. Head(Heard(e)).key \in Key
      BY <2>2 DEF Signal
    <2> QED
      BY <1>2, <2>1, <2>3 DEF ApplyInline
  <1>5. ASSUME NEW e \in Device, NEW p \in pending[e], FinishFetch(e, p) PROVE Moves(d)
    <2>1. p.key \in Key
      BY DEF Signal
    <2> QED
      BY <1>2, <1>5, <2>1 DEF FinishFetch, ApplyFetched, DropFetched, Moves
  <1>6. ASSUME NEW e \in Device, Restart(e) PROVE Moves(d)
    BY <1>6 DEF Restart, EngineRestart, Moves
  <1>7. ASSUME NEW e \in Device,
               \/ \E c \in Content : UserCopy(e, c)
               \/ Poll(e) \/ KeepCopy(e) \/ HearSignal(e) \/ WriteClipboard(e) \/ WriteFails(e)
               \/ Disconnect(e) \/ Connect(e) \/ Toggle(e) \/ RelayStep(e)
        PROVE  UNCHANGED current
    BY <1>7 DEF UserCopy, Poll, KeepCopy, KeepLocal, HearSignal, RejectSignal, SupersededSignal,
       NeedFetch, WriteClipboard, WriteFails, Disconnect, Connect, Toggle, SetEnabled, RelayStep,
       RelayReads, RelayReadsLate, RelayHangsUp, engineVars
  <1>8. ASSUME NEW e \in Device, \/ \E x \in Epoch : AdoptKey(e, x)
                                 \/ \E id \in grace[e] : Expire(e, id)
        PROVE  UNCHANGED current
    BY <1>8 DEF AdoptKey, SetGroupKey, Expire, GraceExpires
  <1>9. CASE RelayRotates \/ UNCHANGED vars
    BY <1>9 DEF RelayRotates, vars, engineVars, Moves
  <1>10. UNCHANGED current => Moves(d)
    BY DEF Moves
  <1> QED
    BY <1>3, <1>4, <1>5, <1>6, <1>7, <1>8, <1>9, <1>10 DEF Next, DeviceStep

-----------------------------------------------------------------------------
(* What is on its way.                                                     *)

\* A message goes on the wire of the device it is from, and only while that is up.
LEMMA WiresStep == TypeOK /\ Wires /\ [Next]_vars => Wires'
  <1> SUFFICES ASSUME TypeOK, Wires, [Next]_vars PROVE Wires'
    OBVIOUS
  <1> USE DEF TypeOK, NetTypeOK
  <1>1. ASSUME UNCHANGED <<up, closing, conn, toggles, enabled>> PROVE Wires'
    BY <1>1 DEF Wires
  <1>2. ASSUME NEW d \in Device,
               \/ \E c \in Content : UserCopy(d, c)
               \/ Poll(d) \/ KeepCopy(d) \/ HearSignal(d) \/ HearInline(d)
               \/ WriteClipboard(d) \/ WriteFails(d)
        PROVE  UNCHANGED <<up, closing, conn, toggles, enabled>>
    BY <1>2 DEF UserCopy, Poll, KeepCopy, KeepLocal, HearSignal, RejectSignal, SupersededSignal,
       NeedFetch, HearInline, ApplyInline, WriteClipboard, WriteFails, engineVars, netVars, bounds
  <1>3. ASSUME NEW d \in Device,
               \/ \E p \in pending[d] : FinishFetch(d, p)
               \/ \E e \in Epoch : AdoptKey(d, e)
               \/ \E id \in grace[d] : Expire(d, id)
        PROVE  UNCHANGED <<up, closing, conn, toggles, enabled>>
    BY <1>3 DEF FinishFetch, ApplyFetched, DropFetched, AdoptKey, SetGroupKey, Expire, GraceExpires,
       netVars, bounds
  <1>4. CASE RelayRotates \/ UNCHANGED vars
    BY <1>1, <1>4 DEF RelayRotates, vars, engineVars, netVars, bounds
  <1>5. ASSUME NEW d \in Device, NEW w \in Wall, PublishCopy(d, w) PROVE Wires'
    <2> DEFINE s == LocalSignal(d, polled[d], w)
               m == [type |-> "signal", sig |-> s]
    <2>1. s.key.origin = d
      BY DEF LocalSignal
    <2>2. /\ UNCHANGED <<closing, conn, toggles, enabled>>
          /\ up' = up \/ (conn[d] /\ up' = [up EXCEPT ![d] = Append(@, m)])
      BY <1>5 DEF PublishCopy, EmitLocal, bounds
    <2>3. ASSUME conn[d], up' = [up EXCEPT ![d] = Append(@, m)] PROVE Wires'
      <3>1. SentBy(Append(up[d], m), d)
        BY <2>1 DEF Wires, SentBy
      <3> QED
        BY <2>2, <2>3, <3>1 DEF Wires
    <2>4. CASE up' = up
      BY <2>2, <2>4 DEF Wires
    <2> QED
      BY <2>2, <2>3, <2>4
  <1>6. ASSUME NEW d \in Device, Sever(d), UNCHANGED <<toggles, enabled>> PROVE Wires'
    <2>1. PICK n \in 0 .. Len(up[d]) : closing' = [closing EXCEPT ![d] = SubSeq(up[d], 1, n)]
      BY <1>6 DEF Sever
    <2>2. SentBy(SubSeq(up[d], 1, n), d)
      BY DEF Wires, SentBy
    <2>3. SentBy(<<>>, d)
      BY DEF SentBy
    <2>4. up' = [up EXCEPT ![d] = <<>>] /\ conn' = [conn EXCEPT ![d] = FALSE]
      BY <1>6 DEF Sever
    <2> QED
      BY <1>6, <2>1, <2>2, <2>3, <2>4 DEF Wires
  <1>7. ASSUME NEW d \in Device, Disconnect(d) PROVE Wires'
    BY <1>6, <1>7 DEF Disconnect, engineVars
  <1>8. ASSUME NEW d \in Device, Restart(d) PROVE Wires'
    <2>1. UNCHANGED <<toggles, enabled>>
      BY <1>8 DEF Restart, EngineRestart, bounds
    <2> QED
      BY <1>1, <1>6, <1>8, <2>1 DEF Restart, netVars
  <1>9. ASSUME NEW d \in Device, Connect(d) PROVE Wires'
    <2>1. SentBy(<<[type |-> "hello"]>>, d)
      BY DEF SentBy
    <2>2. /\ UNCHANGED <<closing, toggles, enabled>>
          /\ conn' = [conn EXCEPT ![d] = TRUE]
          /\ up' = [up EXCEPT ![d] = <<[type |-> "hello"]>>]
      BY <1>9 DEF Connect, engineVars, bounds
    <2> QED
      BY <2>1, <2>2 DEF Wires
  <1>10. ASSUME NEW d \in Device, Toggle(d) PROVE Wires'
    <2>1. UNCHANGED <<up, closing, conn>> /\ toggles' = [toggles EXCEPT ![d] = @ + 1]
          /\ \A e \in Device \ {d} : enabled'[e] = enabled[e]
      BY <1>10 DEF Toggle, SetEnabled, netVars, EngineTypeOK
    <2>2. toggles'[d] # 0
      BY <2>1 DEF BoundsTypeOK
    <2>3. \A e \in Device \ {d} : toggles'[e] = toggles[e]
      BY <2>1 DEF BoundsTypeOK
    <2> QED
      BY <2>1, <2>2, <2>3 DEF Wires
  <1>11. ASSUME NEW d \in Device, NEW q \in Seq(ToRelay), q # <<>>, SentBy(q, d)
         PROVE  SentBy(Tail(q), d)
    <2>1. \A k \in DOMAIN Tail(q) : k + 1 \in DOMAIN q /\ Tail(q)[k] = q[k + 1]
      BY <1>11
    <2> QED
      BY <1>11, <2>1 DEF SentBy
  <1>12. ASSUME NEW d \in Device, RelayReads(d) PROVE Wires'
    <2>1. up[d] # <<>> /\ up' = [up EXCEPT ![d] = Tail(@)] /\ UNCHANGED <<closing, conn, toggles, enabled>>
      BY <1>12 DEF RelayReads, engineVars, bounds
    <2>2. conn[d] /\ SentBy(Tail(up[d]), d)
      BY <1>11, <2>1 DEF Wires
    <2> QED
      BY <2>1, <2>2 DEF Wires
  <1>13. ASSUME NEW d \in Device, RelayReadsLate(d) PROVE Wires'
    <2>1. /\ closing[d] \notin {None, <<>>} /\ closing' = [closing EXCEPT ![d] = Tail(@)]
          /\ UNCHANGED <<up, conn, toggles, enabled>>
      BY <1>13 DEF RelayReadsLate, engineVars, bounds
    <2>2. SentBy(Tail(closing[d]), d)
      BY <1>11, <2>1 DEF Wires
    <2> QED
      BY <2>1, <2>2 DEF Wires
  <1>14. ASSUME NEW d \in Device, RelayHangsUp(d) PROVE Wires'
    <2>1. closing' = [closing EXCEPT ![d] = None] /\ UNCHANGED <<up, conn, toggles, enabled>>
      BY <1>14 DEF RelayHangsUp, engineVars, bounds
    <2> QED
      BY <2>1 DEF Wires
  <1> QED
    BY <1>1, <1>2, <1>3, <1>4, <1>5, <1>7, <1>8, <1>9, <1>10, <1>12, <1>13, <1>14
       DEF Next, DeviceStep, RelayStep

\* What the relay does with a message: of the cache, a signal is added, and all
\* of it is kept unless one is dropped; what devices are sent was in the cache.
LEMMA Handled ==
    ASSUME TypeOK, NEW d \in Device, NEW m \in ToRelay, Handle(d, m)
    PROVE  /\ m.type = "signal" => m.sig \in Signal
           /\ \A s : InList(head', s) => InList(head, s) \/ (m.type = "signal" /\ s = m.sig)
           /\ ~dropped' => /\ ~dropped
                           /\ \A s : InList(head, s) => InList(head', s)
                           /\ m.type = "signal" => InList(head', m.sig)
           /\ \/ m.type = "hello" /\ (down' = down \/ down' = Sent({d}, head))
              \/ m.type = "signal" /\ down' = Sent(Device \ {d}, <<m.sig>>)
           /\ m.type = "hello" /\ head # <<>> => down' = Sent({d}, head)
  <1> USE DEF TypeOK, RelayTypeOK
  <1>1. CASE m.type = "hello" /\ HandleHello(d)
    BY <1>1 DEF HandleHello
  <1>2. CASE m.type = "signal" /\ HandleSignal(d, m.sig)
    <2> DEFINE h == Append(head, m.sig)
    <2>1. m.sig \in Signal
      BY <1>2 DEF ToRelay
    <2>2. /\ head' = Cached(m.sig) /\ down' = Sent(Device \ {d}, <<m.sig>>)
          /\ dropped' = (dropped \/ Len(head) = HeadDepth)
      BY <1>2 DEF HandleSignal
    <2>3. /\ h \in Seq(Signal) /\ Len(h) = Len(head) + 1 /\ Len(head) \in Nat
          /\ \A j \in DOMAIN head : j \in DOMAIN h /\ h[j] = head[j]
          /\ \A j \in DOMAIN h : j \in DOMAIN head \/ h[j] = m.sig
          /\ Len(h) \in DOMAIN h /\ h[Len(h)] = m.sig
      BY <2>1
    <2>4. head' = h \/ (head' = Tail(h) /\ Len(h) > HeadDepth)
      BY <2>2 DEF Cached
    <2>5. \A i \in DOMAIN Tail(h) : i + 1 \in DOMAIN h /\ Tail(h)[i] = h[i + 1]
      BY <2>3
    <2>6. ~dropped' => ~dropped /\ head' = h
      <3>1. ~dropped' => ~dropped /\ Len(head) # HeadDepth
        BY <2>2
      <3>2. Len(head) # HeadDepth => ~(Len(h) > HeadDepth)
        BY <2>3, ClipSyncAssumption
      <3> QED
        BY <2>4, <3>1, <3>2
    <2> HIDE DEF h
    <2>7. \A s : InList(head', s) => InList(head, s) \/ s = m.sig
      <3>1. CASE head' = h
        BY <2>3, <3>1 DEF InList
      <3>2. CASE head' = Tail(h)
        BY <2>3, <2>5, <3>2 DEF InList
      <3> QED
        BY <2>4, <3>1, <3>2
    <2>8. head' = h => InList(head', m.sig) /\ \A s : InList(head, s) => InList(head', s)
      BY <2>3 DEF InList
    <2> QED
      BY <1>2, <2>1, <2>2, <2>6, <2>7, <2>8
  <1> QED
    BY <1>1, <1>2 DEF Handle

\* What was on its way to a device still is, after the relay has sent more.
LEMMA SentKeeps ==
    ASSUME TypeOK, NEW S, NEW b \in Batch, NEW d \in Device, NEW s
    PROVE  /\ InBatches(down[d], s) => InBatches(Sent(S, b)[d], s)
           /\ d \in S /\ registered[d] /\ InList(b, s) => InBatches(Sent(S, b)[d], s)
  <1> DEFINE q == Append(down[d], b)
  <1>1. Sent(S, b)[d] = IF d \in S /\ registered[d] THEN q ELSE down[d]
    BY DEF Sent
  <1>2. /\ \A k \in DOMAIN down[d] : k \in DOMAIN q /\ q[k] = down[d][k]
        /\ Len(q) \in DOMAIN q /\ q[Len(q)] = b
    BY DEF TypeOK, NetTypeOK
  <1> HIDE DEF q
  <1> QED
    BY <1>1, <1>2 DEF InBatches

-----------------------------------------------------------------------------
(* Catching up.                                                            *)

\* A device that goes on where it was, with nothing lost, stays caught up.
LEMMA CaughtUpKeeps ==
    ASSUME TypeOK, TypeOK', NEW d \in Device, CaughtUp(d), Moves(d),
           Unrotated' => Unrotated,
           toggles'[d] = 0 => toggles[d] = 0,
           conn'[d] => conn[d],
           registered'[d] => registered[d],
           \A s \in Signal : registered[d] /\ InList(head', s) =>
               InList(head, s) \/ ToCome(d, s)' \/ s.key.origin = d,
           \A s \in Signal :
               /\ Unrotated /\ toggles[d] = 0 /\ registered[d]
               /\ InList(head, s) /\ s.content \in Inline /\ ToCome(d, s)
               => ToCome(d, s)' \/ Taken(current'[d], s.key)
    PROVE  CaughtUp(d)'
  <1> SUFFICES ASSUME Unrotated', toggles'[d] = 0, conn'[d], registered'[d],
                      NEW s \in Signal, InList(head', s), s.content \in Inline, s.key.origin # d
               PROVE  Taken(current'[d], s.key) \/ ToCome(d, s)'
    BY DEF CaughtUp
  <1>1. Unrotated /\ toggles[d] = 0 /\ conn[d] /\ registered[d]
    OBVIOUS
  <1>2. CASE ToCome(d, s)'
    BY <1>2
  <1>3. CASE InList(head, s)
    <2>1. s.key \in Key
      BY DEF Signal
    <2>2. Taken(current[d], s.key) \/ ToCome(d, s)
      BY <1>1, <1>3 DEF CaughtUp
    <2>3. CASE Taken(current[d], s.key)
      <3>1. current[d] \in Key \cup {None} /\ current'[d] \in Key \cup {None}
        BY DEF TypeOK, EngineTypeOK
      <3> QED
        BY <2>1, <2>3, <3>1, TakenStays DEF Moves
    <2>4. CASE ToCome(d, s)
      BY <1>1, <1>3, <2>4
    <2> QED
      BY <2>2, <2>3, <2>4
  <1> QED
    BY <1>1, <1>2, <1>3

\* A list that a device hears has its first signal taken off; the others stay.
LEMMA TookOne ==
    ASSUME TypeOK, NEW d \in Device, HasNext(d), TakeSignal(d), NEW s,
           InList(inHand[d], s) \/ InBatches(down[d], s)
    PROVE  s = Head(Heard(d)) \/ InList(inHand'[d], s) \/ InBatches(down'[d], s)
  <1> USE DEF TypeOK, ClientTypeOK, NetTypeOK
  <1>1. Heard(d) \in Batch
    BY HeardType
  <1>2. \A k \in DOMAIN Heard(d) :
           Heard(d)[k] = Head(Heard(d)) \/ InList(Tail(Heard(d)), Heard(d)[k])
    <2> SUFFICES ASSUME NEW k \in DOMAIN Heard(d), k # 1
                 PROVE  InList(Tail(Heard(d)), Heard(d)[k])
      BY <1>1 DEF Batch
    <2>1. k - 1 \in DOMAIN Tail(Heard(d)) /\ Tail(Heard(d))[k - 1] = Heard(d)[k]
      BY <1>1 DEF Batch
    <2> QED
      BY <2>1 DEF InList
  <1>3. inHand'[d] = Tail(Heard(d))
    BY DEF TakeSignal
  <1>4. InList(Heard(d), s) => s = Head(Heard(d)) \/ InList(inHand'[d], s)
    BY <1>2, <1>3 DEF InList
  <1>5. CASE inHand[d] # <<>>
    <2>1. Heard(d) = inHand[d] /\ down' = down
      BY <1>5 DEF Heard, TakeSignal
    <2> QED
      BY <1>4, <2>1
  <1>6. CASE inHand[d] = <<>>
    <2>1. /\ Heard(d) = Head(down[d]) /\ down'[d] = Tail(down[d])
          /\ down[d] \in Seq(Batch) /\ down[d] # <<>>
      BY <1>6 DEF Heard, TakeSignal, HasNext
    <2>2. ~InList(inHand[d], s)
      BY <1>6 DEF InList
    <2>3. PICK k \in DOMAIN down[d] : InList(down[d][k], s)
      BY <2>2 DEF InBatches
    <2>4. CASE k = 1
      BY <1>4, <2>1, <2>3, <2>4
    <2>5. CASE k # 1
      <3>1. k - 1 \in DOMAIN Tail(down[d]) /\ Tail(down[d])[k - 1] = down[d][k]
        BY <2>1, <2>3, <2>5
      <3> QED
        BY <2>1, <2>3, <3>1 DEF InBatches
    <2> QED
      BY <2>4, <2>5
  <1> QED
    BY <1>5, <1>6

\* A signal that a device hears, inline and under its key, is taken.
LEMMA HeardTaken ==
    ASSUME TypeOK, Wires, AllKnown, NEW d \in Device, HearSignal(d) \/ HearInline(d),
           Head(Heard(d)).content \in Inline, Unrotated, toggles[d] = 0
    PROVE  Taken(current'[d], Head(Heard(d)).key)
  <1> DEFINE s == Head(Heard(d))
  <1>1. HasNext(d)
    BY DEF HearSignal, HearInline
  <1>2. s \in Known /\ s \in Signal
    BY <1>1, HeardKnown, HeardType DEF TypeOK
  <1>3. s.key \in Key
    BY <1>2 DEF Signal
  <1>4. Opens(d, s)
    BY <1>2 DEF Known, Unrotated, Opens, Wires
  <1>5. s.content \notin Fetched
    BY EngineAssumption
  <1>6. CASE HearSignal(d)
    <2>1. SupersededSignal(d, s)
      BY <1>4, <1>5, <1>6 DEF HearSignal, RejectSignal, NeedFetch
    <2> QED
      BY <2>1 DEF SupersededSignal, Taken
  <1>7. CASE HearInline(d)
    <2>1. current'[d] = s.key
      BY <1>7 DEF HearInline, ApplyInline, Applied, TypeOK, EngineTypeOK
    <2> QED
      BY <1>3, <2>1, TakenSelf
  <1> QED
    BY <1>6, <1>7

\* The relay handles a message of device e while d is registered.
LEMMA HandledToCome ==
    ASSUME TypeOK, NEW e \in Device, NEW m \in ToRelay, Handle(e, m), NEW d \in Device,
           m.type = "signal" => m.sig.key.origin = e,
           registered[d], UNCHANGED inHand
    PROVE  /\ \A s \in Signal : InList(head', s) =>
                 \/ InList(head, s) \/ ToCome(d, s)' \/ s.key.origin = d
           /\ \A s : InBatches(down[d], s) => InBatches(down'[d], s)
           /\ \A s : m.type = "hello" /\ e = d /\ InList(head, s) => InBatches(down'[d], s)
  <1> USE DEF TypeOK
  <1>1. ASSUME NEW b \in Batch, NEW S, NEW s
        PROVE  /\ InBatches(down[d], s) => InBatches(Sent(S, b)[d], s)
               /\ d \in S /\ InList(b, s) => InBatches(Sent(S, b)[d], s)
    BY SentKeeps
  <1>2. CASE m.type = "hello"
    <2>1. HandleHello(e) /\ head' = head
      BY <1>2 DEF Handle, HandleHello
    <2>2. CASE head = <<>>
      <3>1. down' = down /\ \A s : ~InList(head, s)
        BY <2>1, <2>2 DEF HandleHello, InList
      <3> QED
        BY <2>1, <3>1
    <2>3. CASE head # <<>>
      <3>1. down' = Sent({e}, head) /\ head \in Batch
        BY <2>1, <2>3 DEF HandleHello, RelayTypeOK, Batch
      <3> QED
        BY <1>1, <2>1, <3>1
    <2> QED
      BY <2>2, <2>3
  <1>3. CASE m.type = "signal"
    <2>1. m.sig \in Signal /\ m.sig.key.origin = e
      BY <1>3 DEF ToRelay
    <2>2. down' = Sent(Device \ {e}, <<m.sig>>) /\ <<m.sig>> \in Batch
      BY <1>3, <2>1 DEF Handle, HandleSignal, Batch
    <2>3. \A s : InBatches(down[d], s) => InBatches(down'[d], s)
      BY <1>1, <2>2
    <2>4. d # e => InBatches(down'[d], m.sig)
      <3>1. InList(<<m.sig>>, m.sig)
        BY DEF InList
      <3> QED
        BY <1>1, <2>2, <3>1
    <2>5. d # e => ToCome(d, m.sig)'
      <3>1. PICK s : s = m.sig
        OBVIOUS
      <3> QED
        BY <2>4, <3>1 DEF ToCome
    <2>6. \A s : InList(head', s) => InList(head, s) \/ s = m.sig
      BY <1>3, Handled
    <2> QED
      BY <1>3, <2>1, <2>3, <2>5, <2>6
  <1> QED
    BY <1>2, <1>3 DEF ToRelay

\* No step of a device or of the relay makes a cached signal pass a device by.
LEMMA CatchUpStep ==
    TypeOK /\ TypeOK' /\ LamportDominates /\ AllKnown /\ Wires /\ CatchUp /\ [Next]_vars => CatchUp'
  <1> SUFFICES ASSUME TypeOK, TypeOK', LamportDominates, AllKnown, Wires, CatchUp, [Next]_vars,
                      NEW d \in Device
               PROVE  CaughtUp(d)'
    BY DEF CatchUp
  <1>1. CaughtUp(d) /\ (Unrotated' => Unrotated)
    BY HistoryGrows DEF CatchUp
  <1>2. CASE Restart(d)
    <2>1. ~conn'[d]
      BY <1>2 DEF Restart, Sever, netVars, TypeOK, NetTypeOK
    <2> QED
      BY <2>1 DEF CaughtUp
  <1> SUFFICES ASSUME ~Restart(d) PROVE CaughtUp(d)'
    BY <1>2
  <1>3. Moves(d)
    BY CurrentMoves
  <1>4. ASSUME UNCHANGED <<head, inHand, down, up>>,
               toggles'[d] = 0 => toggles[d] = 0,
               conn'[d] => conn[d],
               registered'[d] => registered[d]
        PROVE  CaughtUp(d)'
    <2>1. \A s : ToCome(d, s) => ToCome(d, s)'
      BY <1>4 DEF ToCome
    <2>2. \A s : InList(head', s) => InList(head, s)
      BY <1>4
    <2> QED
      BY <1>1, <1>3, <1>4, <2>1, <2>2, CaughtUpKeeps
  <1>5. ASSUME NEW e \in Device,
               \/ \E c \in Content : UserCopy(e, c)
               \/ Poll(e) \/ KeepCopy(e) \/ WriteClipboard(e) \/ WriteFails(e)
               \/ \E p \in pending[e] : FinishFetch(e, p)
               \/ \E x \in Epoch : AdoptKey(e, x)
               \/ \E id \in grace[e] : Expire(e, id)
        PROVE  CaughtUp(d)'
    <2>1. UNCHANGED <<head, inHand, down, up, conn, registered, toggles>>
      BY <1>5 DEF UserCopy, Poll, KeepCopy, WriteClipboard, WriteFails, FinishFetch, AdoptKey,
         Expire, clientVars, netVars, relayVars, bounds
    <2> QED
      BY <1>4, <2>1
  <1>6. ASSUME NEW e \in Device, Toggle(e) PROVE CaughtUp(d)'
    <2>1. UNCHANGED <<head, inHand, down, up, conn, registered>>
          /\ toggles' = [toggles EXCEPT ![e] = @ + 1]
      BY <1>6 DEF Toggle, clientVars, netVars, relayVars
    <2>2. toggles'[d] = 0 => toggles[d] = 0
      BY <2>1 DEF TypeOK, BoundsTypeOK
    <2> QED
      BY <1>4, <2>1, <2>2
  <1>7. CASE UNCHANGED vars
    BY <1>4, <1>7 DEF vars, clientVars, netVars, relayVars, bounds
  <1>8. CASE RelayRotates
    <2>1. \A s : ~InList(head', s)
      BY <1>8 DEF RelayRotates, InList
    <2> QED
      BY <2>1 DEF CaughtUp
  <1>9. ASSUME NEW e \in Device, NEW w \in Wall, PublishCopy(e, w) PROVE CaughtUp(d)'
    <2> DEFINE m == [type |-> "signal", sig |-> LocalSignal(e, polled[e], w)]
    <2>1. /\ UNCHANGED <<head, inHand, down, conn, registered, toggles>>
          /\ up' = up \/ up' = [up EXCEPT ![e] = Append(@, m)]
      BY <1>9 DEF PublishCopy, relayVars, bounds
    <2>2. \A k \in DOMAIN up[d] : k \in DOMAIN up'[d] /\ up'[d][k] = up[d][k]
      <3>1. up \in [Device -> Seq(ToRelay)]
        BY DEF TypeOK, NetTypeOK
      <3> HIDE DEF m
      <3>2. CASE up'[d] = up[d]
        BY <3>2
      <3>3. CASE up'[d] = Append(up[d], m)
        <4>1. /\ DOMAIN Append(up[d], m) = 1 .. Len(up[d]) + 1 /\ DOMAIN up[d] = 1 .. Len(up[d])
              /\ \A k \in 1 .. Len(up[d]) : Append(up[d], m)[k] = up[d][k]
          BY <3>1
        <4> QED
          BY <3>1, <3>3, <4>1
      <3> QED
        BY <2>1, <3>1, <3>2, <3>3
    <2>3. \A s : ToCome(d, s) => ToCome(d, s)'
      BY <2>1, <2>2 DEF ToCome
    <2>4. \A s : InList(head', s) => InList(head, s)
      BY <2>1
    <2> QED
      BY <1>1, <1>3, <2>1, <2>3, <2>4, CaughtUpKeeps
  <1>10. ASSUME NEW e \in Device, HearSignal(e) \/ HearInline(e) PROVE CaughtUp(d)'
    <2>1. /\ HasNext(e) /\ TakeSignal(e)
          /\ UNCHANGED <<head, up, conn, registered, toggles>>
      BY <1>10 DEF HearSignal, HearInline, relayVars, bounds
    <2>2. CASE e # d
      <3>1. inHand'[d] = inHand[d] /\ down'[d] = down[d]
        BY <2>1, <2>2 DEF TakeSignal, TypeOK, ClientTypeOK, NetTypeOK
      <3>2. \A s : ToCome(d, s) => ToCome(d, s)'
        BY <2>1, <3>1 DEF ToCome
      <3>3. \A s : InList(head', s) => InList(head, s)
        BY <2>1
      <3> QED
        BY <1>1, <1>3, <2>1, <3>2, <3>3, CaughtUpKeeps
    <2>3. CASE e = d
      <3>1. ASSUME NEW s \in Signal, ToCome(d, s), s.content \in Inline, Unrotated, toggles[d] = 0
            PROVE  ToCome(d, s)' \/ Taken(current'[d], s.key)
        <4>1. CASE \E k \in DOMAIN up[d] : up[d][k].type = "hello"
          BY <2>1, <4>1 DEF ToCome
        <4>2. CASE InList(inHand[d], s) \/ InBatches(down[d], s)
          <5>1. s = Head(Heard(d)) \/ InList(inHand'[d], s) \/ InBatches(down'[d], s)
            BY <2>1, <2>3, <4>2, TookOne
          <5>2. s = Head(Heard(d)) => Taken(current'[d], s.key)
            BY <1>10, <2>3, <3>1, HeardTaken
          <5>3. InList(inHand'[d], s) \/ InBatches(down'[d], s) => ToCome(d, s)'
            BY DEF ToCome
          <5> QED
            BY <5>1, <5>2, <5>3
        <4> QED
          BY <3>1, <4>1, <4>2 DEF ToCome
      <3>2. \A s : InList(head', s) => InList(head, s)
        BY <2>1
      <3> QED
        BY <1>1, <1>3, <2>1, <3>1, <3>2, CaughtUpKeeps
    <2> QED
      BY <2>2, <2>3
  <1>11. ASSUME NEW e \in Device, Sever(e), UNCHANGED <<head, toggles>>,
                \A x \in Device \ {e} : inHand'[x] = inHand[x]
         PROVE  CaughtUp(d)'
    <2>1. CASE e = d
      <3>1. ~conn'[d]
        BY <1>11, <2>1 DEF Sever, TypeOK, NetTypeOK
      <3> QED
        BY <3>1 DEF CaughtUp
    <2>2. CASE e # d
      <3>1. /\ inHand'[d] = inHand[d] /\ down'[d] = down[d] /\ up'[d] = up[d]
            /\ conn'[d] = conn[d] /\ registered'[d] = registered[d]
        BY <1>11, <2>2 DEF Sever, TypeOK, NetTypeOK
      <3>2. \A s : ToCome(d, s) => ToCome(d, s)'
        BY <3>1 DEF ToCome
      <3>3. \A s : InList(head', s) => InList(head, s)
        BY <1>11
      <3> QED
        BY <1>1, <1>3, <1>11, <3>1, <3>2, <3>3, CaughtUpKeeps
    <2> QED
      BY <2>1, <2>2
  <1>12. ASSUME NEW e \in Device, Disconnect(e) PROVE CaughtUp(d)'
    BY <1>11, <1>12 DEF Disconnect, relayVars, clientVars
  <1>13. ASSUME NEW e \in Device, Restart(e) PROVE CaughtUp(d)'
    <2>1. /\ UNCHANGED <<head, toggles>>
          /\ inHand' = [inHand EXCEPT ![e] = <<>>]
      BY <1>13 DEF Restart, relayVars, bounds
    <2>2. \A x \in Device \ {e} : inHand'[x] = inHand[x]
      BY <2>1 DEF TypeOK, ClientTypeOK
    <2>3. CASE conn[e]
      <3>1. Sever(e)
        BY <1>13, <2>3 DEF Restart
      <3> QED
        BY <1>11, <2>1, <2>2, <3>1
    <2>4. CASE ~conn[e]
      <3>1. UNCHANGED <<down, up, conn, registered>> /\ inHand'[d] = inHand[d]
        BY <1>13, <2>2, <2>4 DEF Restart, netVars
      <3>2. \A s : ToCome(d, s) => ToCome(d, s)'
        BY <3>1 DEF ToCome
      <3>3. \A s : InList(head', s) => InList(head, s)
        BY <2>1
      <3> QED
        BY <1>1, <1>3, <2>1, <3>1, <3>2, <3>3, CaughtUpKeeps
    <2> QED
      BY <2>3, <2>4
  <1>14. ASSUME NEW e \in Device, Connect(e) PROVE CaughtUp(d)'
    <2>1. /\ UNCHANGED <<head, inHand, down, toggles>>
          /\ up' = [up EXCEPT ![e] = <<[type |-> "hello"]>>]
          /\ conn' = [conn EXCEPT ![e] = TRUE]
          /\ registered' = [registered EXCEPT ![e] = TRUE]
      BY <1>14 DEF Connect, clientVars, relayVars, bounds
    <2>2. CASE e = d
      <3>1. 1 \in DOMAIN up'[d] /\ up'[d][1].type = "hello"
        BY <2>1, <2>2 DEF TypeOK, NetTypeOK
      <3>2. \A s : ToCome(d, s)'
        BY <3>1 DEF ToCome
      <3> QED
        BY <3>2 DEF CaughtUp
    <2>3. CASE e # d
      <3>1. up'[d] = up[d] /\ conn'[d] = conn[d] /\ registered'[d] = registered[d]
        BY <2>1, <2>3 DEF TypeOK, NetTypeOK
      <3>2. \A s : ToCome(d, s) => ToCome(d, s)'
        BY <2>1, <3>1 DEF ToCome
      <3>3. \A s : InList(head', s) => InList(head, s)
        BY <2>1
      <3> QED
        BY <1>1, <1>3, <2>1, <3>1, <3>2, <3>3, CaughtUpKeeps
    <2> QED
      BY <2>2, <2>3
  <1>15. ASSUME NEW e \in Device, RelayHangsUp(e) PROVE CaughtUp(d)'
    <2>1. /\ UNCHANGED <<head, inHand, down, up, conn, toggles>>
          /\ registered' = [registered EXCEPT ![e] = FALSE]
      BY <1>15 DEF RelayHangsUp, clientVars, relayVars, bounds
    <2>2. registered'[d] => registered[d]
      BY <2>1 DEF TypeOK, NetTypeOK
    <2> QED
      BY <1>4, <2>1, <2>2
  <1>16. ASSUME NEW e \in Device, RelayReadsLate(e) PROVE CaughtUp(d)'
    <2> DEFINE m == Head(closing[e])
    <2>1. /\ UNCHANGED <<inHand, up, conn, registered, toggles>>
          /\ closing[e] \notin {None, <<>>} /\ Handle(e, m)
      BY <1>16 DEF RelayReadsLate, clientVars, bounds
    <2>2. closing[e] \in Seq(ToRelay) /\ closing[e] # <<>> /\ SentBy(closing[e], e)
      BY <2>1 DEF TypeOK, NetTypeOK, Wires
    <2>3. m \in ToRelay /\ m = closing[e][1] /\ 1 \in DOMAIN closing[e]
      BY <2>2
    <2>4. m.type = "signal" => m.sig.key.origin = e
      BY <2>2, <2>3 DEF SentBy
    <2> HIDE DEF m
    <2>5. CASE ~registered[d]
      BY <2>1, <2>5 DEF CaughtUp
    <2>6. CASE registered[d]
      <3>1. /\ \A s \in Signal : InList(head', s) =>
                 InList(head, s) \/ ToCome(d, s)' \/ s.key.origin = d
            /\ \A s : InBatches(down[d], s) => InBatches(down'[d], s)
        BY <2>1, <2>3, <2>4, <2>6, HandledToCome
      <3>2. \A s : ToCome(d, s) => ToCome(d, s)'
        BY <2>1, <3>1 DEF ToCome
      <3> QED
        BY <1>1, <1>3, <2>1, <3>1, <3>2, CaughtUpKeeps
    <2> QED
      BY <2>5, <2>6
  <1>17. ASSUME NEW e \in Device, RelayReads(e) PROVE CaughtUp(d)'
    <2> DEFINE m == Head(up[e])
    <2>1. /\ UNCHANGED <<inHand, conn, registered, toggles>>
          /\ up[e] # <<>> /\ Handle(e, m) /\ up' = [up EXCEPT ![e] = Tail(@)]
      BY <1>17 DEF RelayReads, clientVars, bounds
    <2>2. up[e] \in Seq(ToRelay) /\ SentBy(up[e], e)
      BY DEF TypeOK, NetTypeOK, Wires
    <2>3. m \in ToRelay /\ m = up[e][1] /\ 1 \in DOMAIN up[e]
      BY <2>1, <2>2
    <2>4. m.type = "signal" => m.sig.key.origin = e
      BY <2>2, <2>3 DEF SentBy
    <2>5. CASE ~registered[d]
      BY <2>1, <2>5 DEF CaughtUp
    <2>6. CASE registered[d]
      <3>1. /\ \A s \in Signal : InList(head', s) =>
                 InList(head, s) \/ ToCome(d, s)' \/ s.key.origin = d
            /\ \A s : InBatches(down[d], s) => InBatches(down'[d], s)
            /\ \A s : m.type = "hello" /\ e = d /\ InList(head, s) => InBatches(down'[d], s)
        BY <2>1, <2>3, <2>4, <2>6, HandledToCome
      <3>2. \A k \in DOMAIN up[d] :
               \/ \E j \in DOMAIN up'[d] : up'[d][j] = up[d][k]
               \/ e = d /\ up[d][k] = m
        <4>1. CASE e # d
          BY <2>1, <4>1 DEF TypeOK, NetTypeOK
        <4>2. CASE e = d
          <5> SUFFICES ASSUME NEW k \in DOMAIN up[d], k # 1
                       PROVE  \E j \in DOMAIN up'[d] : up'[d][j] = up[d][k]
            BY <2>3, <4>2
          <5>1. up'[d] = Tail(up[d])
            BY <2>1, <4>2 DEF TypeOK, NetTypeOK
          <5>2. k - 1 \in DOMAIN Tail(up[d]) /\ Tail(up[d])[k - 1] = up[d][k]
            BY <2>1, <2>2, <4>2
          <5> QED
            BY <5>1, <5>2
        <4> QED
          BY <4>1, <4>2
      <3>3. ASSUME NEW s \in Signal, InList(head, s), ToCome(d, s) PROVE ToCome(d, s)'
        <4>1. CASE InList(inHand[d], s) \/ InBatches(down[d], s)
          BY <2>1, <3>1, <4>1 DEF ToCome
        <4>2. ASSUME NEW k \in DOMAIN up[d], up[d][k].type = "hello" PROVE ToCome(d, s)'
          <5>1. CASE \E j \in DOMAIN up'[d] : up'[d][j] = up[d][k]
            BY <4>2, <5>1 DEF ToCome
          <5>2. CASE e = d /\ up[d][k] = m
            BY <3>1, <3>3, <4>2, <5>2 DEF ToCome
          <5> QED
            BY <3>2, <5>1, <5>2
        <4> QED
          BY <3>3, <4>1, <4>2 DEF ToCome
      <3> QED
        BY <1>1, <1>3, <2>1, <3>1, <3>3, CaughtUpKeeps
    <2> QED
      BY <2>5, <2>6
  <1> QED
    BY <1>5, <1>6, <1>7, <1>8, <1>9, <1>10, <1>12, <1>13, <1>14, <1>15, <1>16, <1>17
       DEF Next, DeviceStep, RelayStep

\* At first nothing is cached and nothing is on its way.
LEMMA CatchUpInit == Init => Wires /\ CatchUp
  <1> SUFFICES ASSUME Init PROVE Wires /\ CatchUp
    OBVIOUS
  <1>1. Wires
    <2> SUFFICES ASSUME NEW d \in Device
                 PROVE  /\ SentBy(up[d], d)
                        /\ closing[d] # None => SentBy(closing[d], d)
                        /\ ~conn[d] => up[d] = <<>>
                        /\ toggles[d] = 0 => enabled[d]
      BY DEF Wires
    <2>1. up[d] = <<>> /\ closing[d] = None
      BY DEF Init
    <2>2. enabled[d]
      BY DEF Init, EngineInit
    <2>3. SentBy(<<>>, d)
      BY DEF SentBy
    <2> QED
      BY <2>1, <2>2, <2>3
  <1>2. CatchUp
    BY DEF Init, CatchUp, CaughtUp
  <1> QED
    BY <1>1, <1>2

\* Nothing is on its way from or to a device at rest.
LEMMA NothingComes ==
    ASSUME NEW d \in Device, AtRest(d)
    PROVE  /\ conn[d] /\ registered[d]
           /\ OnTheWay(d) = {}
           /\ \A s : ~ToCome(d, s)
  <1>1. /\ conn[d] /\ registered[d] /\ inHand[d] = <<>>
        /\ up[d] = <<>> /\ down[d] = <<>> /\ closing[d] = None
    BY DEF AtRest, Idle
  <1>2. KeysOf(<<>>) = {}
    BY DEF KeysOf
  <1> QED
    BY <1>1, <1>2 DEF OnTheWay, ToCome, InList, InBatches

\* A device at rest has taken every inline signal of the others in the cache.
LEMMA RestTaken ==
    ASSUME TypeOK, CatchUp, NEW d \in Device, AtRest(d), Undisturbed(d),
           NEW i \in 1 .. Len(head), head[i].content \in Inline, head[i].key.origin # d
    PROVE  Taken(current[d], head[i].key)
  <1>1. Unrotated /\ toggles[d] = 0
    BY DEF Undisturbed, Unrotated
  <1>2. head[i] \in Signal /\ InList(head, head[i])
    BY DEF TypeOK, RelayTypeOK, InList
  <1> QED
    BY <1>1, <1>2, NothingComes DEF CatchUp, CaughtUp

\* A device that is connected and idle has taken, or holds something newer
\* than, every inline signal of another device that the relay still caches:
\* what was in the cache when it said hello comes with the Welcome, what came
\* later was sent to it, and neither is lost while the connection stands.
THEOREM RelayCatchUpAlways == Spec => []RelayCatchUp
  <1>1. TypeOK /\ CatchUp => RelayCatchUp
    BY RestTaken DEF RelayCatchUp, Taken
  <1>2. Init => AllKnown
    BY DEF Init, EngineInit, AllKnown
  <1> QED
    BY <1>1, <1>2, AllKnownStep, CatchUpInit, WiresStep, CatchUpStep, TypeCorrect, TypeStep,
       LamportDominatesAlways, PTL DEF Spec

-----------------------------------------------------------------------------
(* What devices hold is in the cache.                                      *)

\* As long as nothing is dropped, the cache keeps what it has.
LEMMA CacheGrows ==
    ASSUME TypeOK, [Next]_vars
    PROVE  /\ relayEpoch' = 0 /\ ~dropped' =>
                 relayEpoch = 0 /\ ~dropped /\ HeadKeys \subseteq HeadKeys'
           /\ InCache \subseteq InCache'
  <1>1. (relayEpoch' = 0 => relayEpoch = 0) /\ (~dropped' => ~dropped)
    <2>1. dropped \in BOOLEAN
      BY DEF TypeOK, RelayTypeOK
    <2>2. dropped' = FALSE => dropped = FALSE
      BY HistoryGrows
    <2>3. ~dropped' => ~dropped
      <3>1. dropped' \in BOOLEAN
        BY TypeStep DEF TypeOK, RelayTypeOK
      <3> QED
        BY <2>1, <2>2, <3>1, Zenon
    <2> QED
      BY <2>3, HistoryGrows
  <1>2. ASSUME relayEpoch' = 0, ~dropped' PROVE HeadKeys \subseteq HeadKeys'
    <2>1. \/ UNCHANGED relayVars
          \/ RelayRotates
          \/ \E d \in Device : RelayReads(d) \/ RelayReadsLate(d)
      BY RelayMoves
    <2>2. CASE UNCHANGED relayVars
      BY <2>2 DEF relayVars, HeadKeys
    <2>3. CASE RelayRotates
      <3>1. relayEpoch \in Nat
        BY EngineAssumption DEF TypeOK, RelayTypeOK, Epoch
      <3> QED
        BY <1>2, <2>3, <3>1 DEF RelayRotates
    <2>4. ASSUME NEW d \in Device, NEW m \in ToRelay, Handle(d, m) PROVE HeadKeys \subseteq HeadKeys'
      <3>1. \A s : InList(head, s) => InList(head', s)
        BY <1>2, <2>4, Handled
      <3> QED
        BY <3>1 DEF HeadKeys, InList
    <2>5. ASSUME NEW d \in Device, RelayReads(d) PROVE HeadKeys \subseteq HeadKeys'
      <3>1. up[d] \in Seq(ToRelay) /\ up[d] # <<>> /\ Handle(d, Head(up[d]))
        BY <2>5 DEF RelayReads, TypeOK, NetTypeOK
      <3> QED
        BY <2>4, <3>1
    <2>6. ASSUME NEW d \in Device, RelayReadsLate(d) PROVE HeadKeys \subseteq HeadKeys'
      <3>1. closing[d] \in Seq(ToRelay) /\ closing[d] # <<>> /\ Handle(d, Head(closing[d]))
        BY <2>6 DEF RelayReadsLate, TypeOK, NetTypeOK
      <3> QED
        BY <2>4, <3>1
    <2> QED
      BY <2>1, <2>2, <2>3, <2>5, <2>6
  <1>3. InCache \subseteq InCache'
    BY <1>1, <1>2 DEF InCache
  <1> QED
    BY <1>1, <1>2, <1>3

\* What the relay sends is in its cache.
LEMMA HandleCached ==
    ASSUME TypeOK, down \in [Device -> Seq(Seq(InCache'))],
           NEW d \in Device, NEW m \in ToRelay, Handle(d, m)
    PROVE  down' \in [Device -> Seq(Seq(InCache'))]
  <1>1. ASSUME NEW S, NEW b \in Seq(InCache') PROVE Sent(S, b) \in [Device -> Seq(Seq(InCache'))]
    <2>1. ASSUME NEW e \in Device PROVE Append(down[e], b) \in Seq(Seq(InCache'))
      BY <2>1
    <2> QED
      BY <2>1 DEF Sent
  <1>2. CASE m.type = "hello" /\ HandleHello(d)
    <2>1. head' = head /\ head \in Seq(Signal)
      BY <1>2 DEF HandleHello, TypeOK, RelayTypeOK
    <2>2. \A i \in DOMAIN head : head[i] \in InCache'
      BY <2>1 DEF InCache, HeadKeys
    <2>3. head \in Seq(InCache')
      BY <2>1, <2>2
    <2>4. Sent({d}, head) \in [Device -> Seq(Seq(InCache'))]
      BY <1>1, <2>3
    <2> QED
      BY <1>2, <2>4 DEF HandleHello
  <1>3. CASE m.type = "signal" /\ HandleSignal(d, m.sig)
    <2>1. m.sig \in Signal /\ (~dropped' => InList(head', m.sig))
      BY <1>3, Handled
    <2>2. m.sig \in InCache'
      BY <2>1 DEF InCache, HeadKeys, InList
    <2>3. <<m.sig>> \in Seq(InCache')
      BY <2>2
    <2>4. Sent(Device \ {d}, <<m.sig>>) \in [Device -> Seq(Seq(InCache'))]
      BY <1>1, <2>3
    <2> QED
      BY <1>3, <2>4 DEF HandleSignal
  <1> QED
    BY <1>2, <1>3 DEF Handle

\* The signals a device hears next are in the cache.
LEMMA HeardIsCached ==
    ASSUME TypeOK, HeardCached, NEW d \in Device, HasNext(d)
    PROVE  /\ Head(Heard(d)) \in InCache
           /\ Tail(Heard(d)) \in Seq(InCache)
           /\ inHand[d] = <<>> => Tail(down[d]) \in Seq(Seq(InCache))
  <1>1. inHand[d] \in Seq(InCache) /\ down[d] \in Seq(Seq(InCache))
    BY DEF HeardCached
  <1>2. ASSUME inHand[d] = <<>>
        PROVE  Head(down[d]) \in Seq(InCache) /\ Tail(down[d]) \in Seq(Seq(InCache))
    <2>1. down[d] # <<>>
      BY <1>2 DEF HasNext
    <2> QED
      BY <1>1, <2>1, HeadTailProperties
  <1>3. Heard(d) \in Seq(InCache) /\ Heard(d) # <<>>
    <2>1. Heard(d) \in Batch
      BY HeardType DEF TypeOK
    <2> QED
      BY <1>1, <1>2, <2>1 DEF Heard, Batch
  <1> QED
    BY <1>2, <1>3, HeadTailProperties

\* Whatever devices hear or await stays in the cache.
LEMMA HeardCachedStep == TypeOK /\ HeardCached /\ [Next]_vars => HeardCached'
  <1> SUFFICES ASSUME TypeOK, HeardCached, [Next]_vars PROVE HeardCached'
    OBVIOUS
  <1>1. InCache \subseteq InCache'
    BY CacheGrows
  <1>2. Seq(InCache) \subseteq Seq(InCache')
    BY <1>1, SeqMonotonic
  <1>3. Seq(Seq(InCache)) \subseteq Seq(Seq(InCache'))
    BY <1>2, SeqMonotonic
  <1>4. /\ inHand \in [Device -> Seq(InCache')]
        /\ down \in [Device -> Seq(Seq(InCache'))]
        /\ pending \in [Device -> SUBSET InCache']
    BY <1>1, <1>2, <1>3 DEF HeardCached
  <1>5. ASSUME inHand' \in [Device -> Seq(InCache')],
               down' \in [Device -> Seq(Seq(InCache'))],
               pending' \in [Device -> SUBSET InCache']
        PROVE  HeardCached'
    BY <1>5 DEF HeardCached
  <1>6. ASSUME UNCHANGED <<pending, inHand, down>> PROVE HeardCached'
    BY <1>4, <1>5, <1>6
  <1>7. ASSUME NEW d \in Device, \/ \E c \in Content : UserCopy(d, c)
                                 \/ Poll(d) \/ KeepCopy(d) \/ WriteClipboard(d)
                                 \/ WriteFails(d) \/ Toggle(d) \/ Connect(d) \/ RelayHangsUp(d)
                                 \/ \E w \in Wall : PublishCopy(d, w)
        PROVE  HeardCached'
    BY <1>6, <1>7 DEF UserCopy, Poll, KeepCopy, KeepLocal, WriteClipboard, WriteFails,
       Toggle, SetEnabled, Connect, RelayHangsUp, PublishCopy, EmitLocal,
       engineVars, clientVars, netVars
  <1>8. CASE RelayRotates \/ UNCHANGED vars
    BY <1>6, <1>8 DEF RelayRotates, vars, engineVars, clientVars, netVars
  <1>9. ASSUME NEW d \in Device, HearSignal(d) \/ HearInline(d) PROVE HeardCached'
    <2>1. HasNext(d) /\ TakeSignal(d)
      BY <1>9 DEF HearSignal, HearInline
    <2>2. /\ Head(Heard(d)) \in InCache' /\ Tail(Heard(d)) \in Seq(InCache')
          /\ inHand[d] = <<>> => Tail(down[d]) \in Seq(Seq(InCache'))
      BY <1>1, <1>2, <1>3, <2>1, HeardIsCached
    <2>3. inHand' \in [Device -> Seq(InCache')] /\ down' \in [Device -> Seq(Seq(InCache'))]
      BY <1>4, <2>1, <2>2 DEF TakeSignal
    <2>4. pending' \in [Device -> SUBSET InCache']
      <3> DEFINE s == Head(Heard(d))
      <3>1. \/ pending' = pending
            \/ pending' = [pending EXCEPT ![d] = {p \in pending[d] : IdOf(p) # IdOf(s)} \cup {s}]
        <4>1. CASE HearSignal(d)
          BY <4>1 DEF HearSignal, RejectSignal, SupersededSignal, NeedFetch, engineVars
        <4>2. CASE HearInline(d)
          BY <4>2 DEF HearInline, ApplyInline, engineVars
        <4> QED
          BY <1>9, <4>1, <4>2
      <3>2. s \in InCache'
        BY <2>2
      <3> HIDE DEF s
      <3>3. CASE pending' = pending
        BY <1>4, <3>3
      <3>4. CASE pending' = [pending EXCEPT ![d] = {p \in pending[d] : IdOf(p) # IdOf(s)} \cup {s}]
        BY <1>4, <3>2, <3>4
      <3> QED
        BY <3>1, <3>3, <3>4
    <2> QED
      BY <1>5, <2>3, <2>4
  <1>10. ASSUME NEW d \in Device, \/ \E p \in pending[d] : FinishFetch(d, p)
                                  \/ \E e \in Epoch : AdoptKey(d, e)
                                  \/ \E id \in grace[d] : Expire(d, id)
         PROVE  HeardCached'
    <2>1. UNCHANGED <<inHand, down>>
      BY <1>10 DEF FinishFetch, AdoptKey, Expire, clientVars, netVars
    <2>2. pending' \in [Device -> SUBSET InCache']
      BY <1>4, <1>10 DEF FinishFetch, ApplyFetched, DropFetched, AdoptKey, SetGroupKey, Expire,
         GraceExpires
    <2> QED
      BY <1>4, <1>5, <2>1, <2>2
  <1>11. ASSUME NEW d \in Device, Disconnect(d) PROVE HeardCached'
    <2>1. UNCHANGED <<pending, inHand>> /\ down' = [down EXCEPT ![d] = <<>>]
      BY <1>11 DEF Disconnect, Sever, engineVars, clientVars
    <2>2. down' \in [Device -> Seq(Seq(InCache'))]
      BY <1>4, <2>1
    <2> QED
      BY <1>4, <1>5, <2>1, <2>2
  <1>15. ASSUME NEW d \in Device, Restart(d) PROVE HeardCached'
    <2>1. inHand' = [inHand EXCEPT ![d] = <<>>] /\ pending' = [pending EXCEPT ![d] = {}]
      BY <1>15 DEF Restart, EngineRestart
    <2>2. down' = down \/ down' = [down EXCEPT ![d] = <<>>]
      BY <1>15 DEF Restart, Sever, netVars
    <2>3. inHand' \in [Device -> Seq(InCache')]
      BY <1>4, <2>1
    <2>5. down' \in [Device -> Seq(Seq(InCache'))]
      <3>1. CASE down' = down
        BY <1>4, <3>1
      <3>2. CASE down' = [down EXCEPT ![d] = <<>>]
        BY <1>4, <3>2
      <3> QED
        BY <2>2, <3>1, <3>2
    <2>4. pending' \in [Device -> SUBSET InCache']
      BY <1>4, <2>1
    <2> QED
      BY <1>5, <2>3, <2>4, <2>5
  <1>12. ASSUME NEW d \in Device, NEW m \in ToRelay, Handle(d, m), UNCHANGED <<pending, inHand>>
         PROVE  HeardCached'
    BY <1>4, <1>5, <1>12, HandleCached
  <1>13. ASSUME NEW d \in Device, RelayReads(d) PROVE HeardCached'
    <2>1. up[d] \in Seq(ToRelay) /\ up[d] # <<>> /\ Handle(d, Head(up[d]))
      BY <1>13 DEF RelayReads, TypeOK, NetTypeOK
    <2>2. UNCHANGED <<pending, inHand>>
      BY <1>13 DEF RelayReads, engineVars, clientVars
    <2> QED
      BY <1>12, <2>1, <2>2
  <1>14. ASSUME NEW d \in Device, RelayReadsLate(d) PROVE HeardCached'
    <2>1. closing[d] \in Seq(ToRelay) /\ closing[d] # <<>> /\ Handle(d, Head(closing[d]))
      BY <1>14 DEF RelayReadsLate, TypeOK, NetTypeOK
    <2>2. UNCHANGED <<pending, inHand>>
      BY <1>14 DEF RelayReadsLate, engineVars, clientVars
    <2> QED
      BY <1>12, <2>1, <2>2
  <1> QED
    BY <1>7, <1>8, <1>9, <1>10, <1>11, <1>13, <1>14, <1>15 DEF Next, DeviceStep, RelayStep

-----------------------------------------------------------------------------
(* What devices hold, and what they have published.                        *)

\* The keys of a list of messages when it is cut, or grows at the end.
LEMMA KeysOfParts ==
    ASSUME NEW q \in Seq(ToRelay)
    PROVE  /\ \A n \in 0 .. Len(q) :
                 KeysOf(q) \subseteq KeysOf(SubSeq(q, 1, n)) \cup KeysOf(SubSeq(q, n + 1, Len(q)))
           /\ q # <<>> => \A k \in KeysOf(q) :
                 \/ k \in KeysOf(Tail(q))
                 \/ Head(q).type = "signal" /\ k = Head(q).sig.key
           /\ \A m \in ToRelay : /\ KeysOf(q) \subseteq KeysOf(Append(q, m))
                                 /\ m.type = "signal" => m.sig.key \in KeysOf(Append(q, m))
  <1>1. \A p, k : k \in KeysOf(p) <=>
           \E j \in 1 .. Len(p) : p[j].type = "signal" /\ k = p[j].sig.key
    BY DEF KeysOf
  <1>2. Len(q) \in Nat /\ \A j \in 1 .. Len(q) : q[j] \in ToRelay
    OBVIOUS
  <1>3. ASSUME NEW n \in 0 .. Len(q), NEW k \in KeysOf(q)
        PROVE  k \in KeysOf(SubSeq(q, 1, n)) \cup KeysOf(SubSeq(q, n + 1, Len(q)))
    <2>1. PICK j \in 1 .. Len(q) : q[j].type = "signal" /\ k = q[j].sig.key
      BY <1>1
    <2>2. /\ Len(SubSeq(q, 1, n)) = n
          /\ \A i \in 1 .. n : SubSeq(q, 1, n)[i] = q[i]
      BY <1>2
    <2>3. /\ Len(SubSeq(q, n + 1, Len(q))) = Len(q) - n
          /\ \A i \in 1 .. Len(q) - n : SubSeq(q, n + 1, Len(q))[i] = q[n + i]
      BY <1>2
    <2>4. CASE j <= n
      <3>1. j \in 1 .. n
        BY <1>2, <2>4
      <3>2. j \in 1 .. Len(SubSeq(q, 1, n)) /\ SubSeq(q, 1, n)[j] = q[j]
        BY <2>2, <3>1
      <3>3. k \in KeysOf(SubSeq(q, 1, n))
        BY <1>1, <2>1, <3>2
      <3> QED
        BY <3>3
    <2>5. CASE j > n
      <3>1. j - n \in 1 .. Len(q) - n /\ n + (j - n) = j
        BY <1>2, <2>5
      <3>2. SubSeq(q, n + 1, Len(q))[j - n] = q[j]
        BY <2>3, <3>1
      <3>4. j - n \in 1 .. Len(SubSeq(q, n + 1, Len(q)))
        BY <2>3, <3>1
      <3>3. k \in KeysOf(SubSeq(q, n + 1, Len(q)))
        BY <1>1, <2>1, <3>2, <3>4
      <3> QED
        BY <3>3
    <2> QED
      BY <1>2, <2>4, <2>5
  <1>4. ASSUME q # <<>>, NEW k \in KeysOf(q)
        PROVE  k \in KeysOf(Tail(q)) \/ (Head(q).type = "signal" /\ k = Head(q).sig.key)
    <2>1. PICK j \in 1 .. Len(q) : q[j].type = "signal" /\ k = q[j].sig.key
      BY <1>1
    <2>2. CASE j = 1
      BY <1>4, <2>1, <2>2
    <2>3. CASE j # 1
      <3>1. j - 1 \in 1 .. Len(Tail(q)) /\ Tail(q)[j - 1] = q[j]
        BY <1>2, <1>4, <2>3
      <3> QED
        BY <1>1, <2>1, <3>1
    <2> QED
      BY <2>2, <2>3
  <1>5. ASSUME NEW m \in ToRelay
        PROVE  /\ KeysOf(q) \subseteq KeysOf(Append(q, m))
               /\ m.type = "signal" => m.sig.key \in KeysOf(Append(q, m))
    <2>1. /\ Len(Append(q, m)) = Len(q) + 1 /\ Append(q, m)[Len(q) + 1] = m
          /\ \A j \in 1 .. Len(q) : Append(q, m)[j] = q[j]
          /\ 1 .. Len(q) \subseteq 1 .. Len(q) + 1 /\ Len(q) + 1 \in 1 .. Len(q) + 1
      BY <1>2
    <2> DEFINE a == Append(q, m)
    <2>2. /\ Len(a) \in 1 .. Len(a) /\ a[Len(a)] = m
          /\ \A j \in 1 .. Len(q) : j \in 1 .. Len(a) /\ a[j] = q[j]
      BY <2>1
    <2> HIDE DEF a
    <2>3. KeysOf(q) \subseteq KeysOf(a) /\ (m.type = "signal" => m.sig.key \in KeysOf(a))
      BY <1>1, <2>2
    <2> QED
      BY <2>3 DEF a
  <1> QED
    BY <1>3, <1>4, <1>5

\* A key on its way stays so, reaches the cache, or is lost.
WayKept(d) == OnTheWay(d) \subseteq HeadKeys' \cup lost' \cup OnTheWay(d)'

\* No step loses track of a key on its way.
LEMMA WayStep ==
    ASSUME TypeOK, Wires, [Next]_vars, relayEpoch' = 0, ~dropped', NEW d \in Device
    PROVE  lost \subseteq lost' /\ WayKept(d)
  <1> USE DEF TypeOK, NetTypeOK
  <1>1. ASSUME UNCHANGED <<up, closing, lost>> PROVE lost \subseteq lost' /\ WayKept(d)
    BY <1>1 DEF OnTheWay, WayKept
  <1>2. ASSUME NEW e \in Device,
               \/ \E c \in Content : UserCopy(e, c)
               \/ Poll(e) \/ KeepCopy(e) \/ HearSignal(e) \/ HearInline(e)
               \/ WriteClipboard(e) \/ WriteFails(e) \/ Toggle(e)
        PROVE  UNCHANGED <<up, closing, lost>>
    BY <1>2 DEF UserCopy, Poll, KeepCopy, HearSignal, HearInline, WriteClipboard, WriteFails,
       Toggle, netVars, history
  <1>3. ASSUME NEW e \in Device,
               \/ \E p \in pending[e] : FinishFetch(e, p)
               \/ \E x \in Epoch : AdoptKey(e, x)
               \/ \E id \in grace[e] : Expire(e, id)
        PROVE  UNCHANGED <<up, closing, lost>>
    BY <1>3 DEF FinishFetch, AdoptKey, Expire, netVars, history
  <1>4. CASE RelayRotates \/ UNCHANGED vars
    BY <1>1, <1>4 DEF RelayRotates, vars, netVars, history
  <1>5. ASSUME NEW e \in Device, NEW w \in Wall, PublishCopy(e, w)
        PROVE  lost \subseteq lost' /\ WayKept(d)
    <2> DEFINE m == [type |-> "signal", sig |-> LocalSignal(e, polled[e], w)]
    <2>1. /\ UNCHANGED closing /\ lost \subseteq lost'
          /\ up' = up \/ up' = [up EXCEPT ![e] = Append(@, m)]
      BY <1>5 DEF PublishCopy
    <2>2. m \in ToRelay
      <3>1. polled[e] \in Content /\ lamport[e] < MaxLamport
        BY <1>5 DEF PublishCopy, EmitLocal, ClientTypeOK
      <3>2. LocalSignal(e, polled[e], w) \in Signal
        BY <3>1, LocalSignalType
      <3> QED
        BY <3>2 DEF ToRelay
    <2> HIDE DEF m
    <2>3. KeysOf(up[d]) \subseteq KeysOf(up'[d])
      <3>1. CASE up'[d] = up[d]
        BY <3>1
      <3>2. CASE up'[d] = Append(up[d], m)
        BY <2>2, <3>2, KeysOfParts
      <3> QED
        BY <2>1, <3>1, <3>2
    <2> QED
      BY <2>1, <2>3 DEF OnTheWay, WayKept
  <1>6. ASSUME NEW e \in Device, Sever(e) PROVE lost \subseteq lost' /\ WayKept(d)
    <2>1. PICK n \in 0 .. Len(up[e]) :
            /\ closing' = [closing EXCEPT ![e] = SubSeq(up[e], 1, n)]
            /\ lost' = lost \cup KeysOf(SubSeq(up[e], n + 1, Len(up[e])))
      BY <1>6 DEF Sever
    <2>2. closing[e] = None /\ up' = [up EXCEPT ![e] = <<>>]
      BY <1>6 DEF Sever
    <2>3. CASE d # e
      BY <2>1, <2>2, <2>3 DEF OnTheWay, WayKept
    <2>4. CASE d = e
      <3>1. closing'[d] = SubSeq(up[d], 1, n)
        BY <2>1, <2>4
      <3>2. SubSeq(up[d], 1, n) \in Seq(ToRelay)
        <4>1. Len(up[d]) \in Nat /\ \A i \in 1 .. Len(up[d]) : up[d][i] \in ToRelay
          OBVIOUS
        <4> QED
          BY <2>1, <2>4, <4>1, SubSeqProperties
      <3>3. closing'[d] # None
        BY <3>1, <3>2, NoListAssumption
      <3>4. KeysOf(up[d]) \subseteq KeysOf(closing'[d]) \cup lost'
        BY <2>1, <2>4, <3>1, KeysOfParts
      <3> QED
        BY <2>1, <2>2, <2>4, <3>3, <3>4 DEF OnTheWay, WayKept
    <2> QED
      BY <2>3, <2>4
  <1>7. ASSUME NEW e \in Device, Disconnect(e) PROVE lost \subseteq lost' /\ WayKept(d)
    BY <1>6, <1>7 DEF Disconnect
  <1>8. ASSUME NEW e \in Device, Restart(e) PROVE lost \subseteq lost' /\ WayKept(d)
    BY <1>1, <1>6, <1>8 DEF Restart, netVars
  <1>9. ASSUME NEW e \in Device, Connect(e) PROVE lost \subseteq lost' /\ WayKept(d)
    <2>1. up[e] = <<>>
      BY <1>9 DEF Connect, Wires
    <2>2. UNCHANGED <<closing, lost>> /\ \A x \in Device \ {e} : up'[x] = up[x]
      BY <1>9 DEF Connect, history
    <2>3. KeysOf(<<>>) = {}
      BY DEF KeysOf
    <2>4. KeysOf(up[d]) \subseteq KeysOf(up'[d])
      BY <2>1, <2>2, <2>3
    <2> QED
      BY <2>2, <2>4 DEF OnTheWay, WayKept
  <1>10. ASSUME NEW e \in Device, RelayReads(e) PROVE lost \subseteq lost' /\ WayKept(d)
    <2> DEFINE m == Head(up[e])
    <2>1. /\ UNCHANGED <<closing, lost>> /\ up[e] # <<>> /\ Handle(e, m)
          /\ up' = [up EXCEPT ![e] = Tail(@)] /\ m \in ToRelay
      BY <1>10 DEF RelayReads, history
    <2>2. m.type = "signal" => m.sig.key \in HeadKeys'
      <3>1. m.type = "signal" => InList(head', m.sig)
        BY <2>1, Handled
      <3> QED
        BY <3>1 DEF HeadKeys, InList
    <2>3. KeysOf(up[d]) \subseteq HeadKeys' \cup KeysOf(up'[d])
      <3>1. CASE d # e
        BY <2>1, <3>1
      <3>2. CASE d = e
        <4>1. up'[d] = Tail(up[d]) /\ up[d] # <<>> /\ up[d] \in Seq(ToRelay)
          BY <2>1, <3>2
        <4> QED
          BY <2>2, <3>2, <4>1, KeysOfParts
      <3> QED
        BY <3>1, <3>2
    <2> QED
      BY <2>1, <2>3 DEF OnTheWay, WayKept
  <1>11. ASSUME NEW e \in Device, RelayReadsLate(e) PROVE lost \subseteq lost' /\ WayKept(d)
    <2> DEFINE m == Head(closing[e])
    <2>1. /\ UNCHANGED <<up, lost>> /\ closing[e] # None /\ closing[e] # <<>> /\ Handle(e, m)
          /\ closing' = [closing EXCEPT ![e] = Tail(@)] /\ closing[e] \in Seq(ToRelay)
      BY <1>11 DEF RelayReadsLate, history
    <2>2. m \in ToRelay /\ Tail(closing[e]) \in Seq(ToRelay)
      BY <2>1
    <2>3. m.type = "signal" => m.sig.key \in HeadKeys'
      <3>1. m.type = "signal" => InList(head', m.sig)
        BY <2>1, <2>2, Handled
      <3> QED
        BY <3>1 DEF HeadKeys, InList
    <2>4. CASE d # e
      <3>1. closing'[d] = closing[d]
        BY <2>1, <2>4
      <3> QED
        BY <2>1, <3>1 DEF OnTheWay, WayKept
    <2>5. CASE d = e
      <3>1. closing'[d] = Tail(closing[d]) /\ closing'[d] # None
        BY <2>1, <2>2, <2>5, NoListAssumption
      <3>2. KeysOf(closing[d]) \subseteq HeadKeys' \cup KeysOf(closing'[d])
        BY <2>1, <2>3, <2>5, <3>1, KeysOfParts
      <3> QED
        BY <2>1, <3>1, <3>2 DEF OnTheWay, WayKept
    <2> QED
      BY <2>4, <2>5
  <1>12. ASSUME NEW e \in Device, RelayHangsUp(e) PROVE lost \subseteq lost' /\ WayKept(d)
    <2>1. /\ UNCHANGED <<up, lost>> /\ closing[e] = <<>> /\ closing' = [closing EXCEPT ![e] = None]
      BY <1>12 DEF RelayHangsUp, history
    <2>2. KeysOf(<<>>) = {}
      BY DEF KeysOf
    <2> QED
      BY <2>1, <2>2 DEF OnTheWay, WayKept
  <1> QED
    BY <1>1, <1>2, <1>3, <1>4, <1>5, <1>7, <1>8, <1>9, <1>10, <1>11, <1>12
       DEF Next, DeviceStep, RelayStep

\* What a device comes to hold it has heard, awaited, or just published.
LEMMA HeldMoves ==
    ASSUME TypeOK, [Next]_vars, NEW d \in Device
    PROVE  \/ current'[d] \in {current[d], None}
           \/ HasNext(d) /\ current'[d] = Head(Heard(d)).key
           \/ \E p \in pending[d] : current'[d] = p.key
           \/ \E w \in Wall : PublishCopy(d, w) /\ current'[d] = LocalSignal(d, polled[d], w).key
  <1> USE DEF TypeOK, EngineTypeOK
  <1>1. \/ UNCHANGED <<engineVars, issued>>
        \/ \E e \in Device, w \in Wall : PublishCopy(e, w)
        \/ \E e \in Device : HearSignal(e) \/ HearInline(e)
        \/ \E e \in Device : \E p \in pending[e] : FinishFetch(e, p)
        \/ \E e \in Device : Restart(e)
        \/ UNCHANGED current
    <2>1. ASSUME NEW e \in Device,
                 \/ \E c \in Content : UserCopy(e, c)
                 \/ Poll(e) \/ KeepCopy(e) \/ WriteClipboard(e) \/ WriteFails(e)
                 \/ Disconnect(e) \/ Connect(e) \/ Toggle(e) \/ RelayStep(e)
          PROVE  UNCHANGED current
      BY <2>1 DEF UserCopy, Poll, KeepCopy, KeepLocal, WriteClipboard, WriteFails, Disconnect,
         Connect, Toggle, SetEnabled, RelayStep, RelayReads, RelayReadsLate, RelayHangsUp, engineVars
    <2>2. ASSUME NEW e \in Device, \/ \E x \in Epoch : AdoptKey(e, x)
                                   \/ \E id \in grace[e] : Expire(e, id)
          PROVE  UNCHANGED current
      BY <2>2 DEF AdoptKey, SetGroupKey, Expire, GraceExpires
    <2>3. CASE RelayRotates \/ UNCHANGED vars
      BY <2>3 DEF RelayRotates, vars, engineVars
    <2> QED
      BY <2>1, <2>2, <2>3 DEF Next, DeviceStep
  <1>2. CASE UNCHANGED current
    BY <1>2
  <1>3. ASSUME NEW e \in Device, NEW w \in Wall, PublishCopy(e, w)
        PROVE  \/ current'[d] = current[d]
               \/ PublishCopy(d, w) /\ current'[d] = LocalSignal(d, polled[d], w).key
    BY <1>3 DEF PublishCopy, EmitLocal
  <1>4. ASSUME NEW e \in Device, HearSignal(e) \/ HearInline(e)
        PROVE  \/ current'[d] = current[d]
               \/ HasNext(d) /\ current'[d] = Head(Heard(d)).key
    BY <1>4 DEF HearSignal, HearInline, RejectSignal, SupersededSignal, NeedFetch, ApplyInline,
       Applied, engineVars
  <1>5. ASSUME NEW e \in Device, NEW p \in pending[e], FinishFetch(e, p)
        PROVE  current'[d] = current[d] \/ (e = d /\ current'[d] = p.key)
    BY <1>5 DEF FinishFetch, ApplyFetched, DropFetched, Applied
  <1>6. ASSUME NEW e \in Device, Restart(e) PROVE current'[d] \in {current[d], None}
    BY <1>6 DEF Restart, EngineRestart
  <1> QED
    BY <1>1, <1>2, <1>3, <1>4, <1>5, <1>6 DEF engineVars

\* No key a device holds drops out between the device and the cache.
LEMMA HeldCachedStep ==
    TypeOK /\ Wires /\ HeardCached /\ HeldCached /\ [Next]_vars => HeldCached'
  <1> SUFFICES ASSUME TypeOK, Wires, HeardCached, HeldCached, [Next]_vars,
                      relayEpoch' = 0, ~dropped', NEW d \in Device, current'[d] # None
               PROVE  current'[d] \in HeadKeys' \cup lost' \cup OnTheWay(d)'
    BY DEF HeldCached
  <1>1. relayEpoch = 0 /\ ~dropped /\ HeadKeys \subseteq HeadKeys'
    BY CacheGrows
  <1>2. \A s \in InCache : s.key \in HeadKeys'
    BY <1>1 DEF InCache
  <1>3. lost \subseteq lost' /\ WayKept(d)
    BY WayStep
  <1>4. CASE current'[d] = current[d]
    BY <1>1, <1>3, <1>4 DEF HeldCached, WayKept
  <1>5. CASE HasNext(d) /\ current'[d] = Head(Heard(d)).key
    BY <1>2, <1>5, HeardIsCached
  <1>6. ASSUME NEW p \in pending[d], current'[d] = p.key PROVE current'[d] \in HeadKeys'
    BY <1>2, <1>6 DEF HeardCached
  <1>7. ASSUME NEW w \in Wall, PublishCopy(d, w), current'[d] = LocalSignal(d, polled[d], w).key
        PROVE  current'[d] \in lost' \cup OnTheWay(d)'
    <2> DEFINE s == LocalSignal(d, polled[d], w)
               m == [type |-> "signal", sig |-> s]
    <2>1. polled[d] \in Content /\ lamport[d] < MaxLamport
      BY <1>7 DEF PublishCopy, EmitLocal, TypeOK, ClientTypeOK
    <2>2. s \in Signal
      BY <2>1, LocalSignalType DEF TypeOK
    <2>3. m \in ToRelay /\ m.type = "signal" /\ m.sig.key = s.key
      BY <2>2 DEF ToRelay
    <2>4. s.key \in lost' \/ up'[d] = Append(up[d], m)
      <3>1. lost' = lost \cup {s.key} \/ up' = [up EXCEPT ![d] = Append(up[d], m)]
        BY <1>7 DEF PublishCopy
      <3>2. d \in DOMAIN up
        BY DEF TypeOK, NetTypeOK
      <3> HIDE DEF s, m
      <3> QED
        BY <3>1, <3>2
    <2>5. up[d] \in Seq(ToRelay)
      BY DEF TypeOK, NetTypeOK
    <2>6. up'[d] = Append(up[d], m) => s.key \in KeysOf(up'[d])
      BY <2>3, <2>5, KeysOfParts
    <2> QED
      BY <1>7, <2>4, <2>6 DEF OnTheWay
  <1> QED
    BY <1>4, <1>5, <1>6, <1>7, HeldMoves

\* Only a restart makes a device hold less than it has published.
LEMMA OwnTakenStep ==
    TypeOK /\ TypeOK' /\ LamportDominates /\ OwnTaken /\ [Next]_vars => OwnTaken'
  <1> SUFFICES ASSUME TypeOK, TypeOK', LamportDominates, OwnTaken, [Next]_vars,
                      NEW d \in Device, restarted'[d] = 0, NEW k \in issued', k.origin = d
               PROVE  Taken(current'[d], k)
    BY DEF OwnTaken
  <1>1. k \in Key /\ current[d] \in Key \cup {None} /\ current'[d] \in Key \cup {None}
    BY DEF TypeOK, HistoryTypeOK, EngineTypeOK
  <1>2. restarted[d] = 0 /\ ~Restart(d)
    <2>1. UNCHANGED restarted \/ \E e \in Device : Restart(e)
      BY HistoryMoves
    <2>2. ASSUME NEW e \in Device, Restart(e) PROVE restarted[d] = 0 /\ e # d
      BY <2>2 DEF Restart, TypeOK, HistoryTypeOK
    <2>3. ~Restart(d)
      BY <2>2
    <2> QED
      BY <2>1, <2>2, <2>3
  <1>3. CASE k \in issued
    <2>1. Taken(current[d], k) /\ Moves(d)
      BY <1>2, <1>3, CurrentMoves DEF OwnTaken
    <2> QED
      BY <1>1, <2>1, TakenStays DEF Moves
  <1>4. CASE k \notin issued
    <2>1. PICK e \in Device, w \in Wall :
            PublishCopy(e, w) /\ k = LocalSignal(e, polled[e], w).key
      <3>1. UNCHANGED issued \/ \E e \in Device, w \in Wall : PublishCopy(e, w)
        BY HistoryMoves
      <3>2. PICK e \in Device, w \in Wall : PublishCopy(e, w)
        BY <1>4, <3>1
      <3>3. issued' = issued \cup {LocalSignal(e, polled[e], w).key}
        BY <3>2 DEF PublishCopy
      <3> QED
        BY <1>4, <3>2, <3>3
    <2>2. k.origin = e
      BY <2>1 DEF LocalSignal
    <2>3. current'[d] = k
      BY <2>1, <2>2 DEF PublishCopy, EmitLocal, TypeOK, EngineTypeOK
    <2> QED
      BY <1>1, <2>3, TakenSelf
  <1> QED
    BY <1>3, <1>4

\* Two devices at rest that have taken all of a cache which has what they hold
\* hold the same.
LEMMA RestAgree ==
    TypeOK /\ AllKnown /\ CatchUp /\ HeldCached /\ OwnTaken => AgreeAtRest
  <1> DEFINE Still(d) == AtRest(d) /\ Undisturbed(d) /\ restarted[d] = 0 /\ current[d] \notin lost
  <1> SUFFICES ASSUME TypeOK, AllKnown, CatchUp, HeldCached, OwnTaken, ~dropped,
                      \A i \in 1 .. Len(head) : head[i].content \in Inline,
                      NEW d \in Device, NEW e \in Device, Still(d), Still(e)
               PROVE  current[d] = current[e]
    BY DEF AgreeAtRest
  <1>1. \A i \in DOMAIN head : i \in 1 .. Len(head) /\ head[i] \in Known
    BY DEF AllKnown
  <1>2. ASSUME NEW x \in Device, Still(x), NEW k \in HeadKeys PROVE Taken(current[x], k)
    <2>1. PICK i \in DOMAIN head : k = head[i].key
      BY DEF HeadKeys
    <2>2. k \in issued /\ head[i].content \in Inline
      BY <1>1, <2>1 DEF Known
    <2>3. CASE k.origin = x
      BY <1>2, <2>2, <2>3 DEF OwnTaken
    <2>4. CASE k.origin # x
      BY <1>1, <1>2, <2>1, <2>2, <2>4, RestTaken
    <2> QED
      BY <2>3, <2>4
  <1>3. ASSUME NEW x \in Device, Still(x), current[x] # None PROVE current[x] \in HeadKeys
    <2>1. OnTheWay(x) = {}
      BY <1>3, NothingComes
    <2>2. relayEpoch = 0
      BY <1>3 DEF Undisturbed
    <2> QED
      BY <1>3, <2>1, <2>2 DEF HeldCached
  <1>4. /\ current[d] # None => Taken(current[e], current[d])
        /\ current[e] # None => Taken(current[d], current[e])
    BY <1>2, <1>3
  <1>5. current[d] \in Key \cup {None} /\ current[e] \in Key \cup {None}
    BY DEF TypeOK, EngineTypeOK
  <1>6. CASE current[d] = None \/ current[e] = None
    BY <1>4, <1>6 DEF Taken, WouldApply
  <1>7. CASE current[d] # None /\ current[e] # None
    <2>1. ~KeyLess(current[e], current[d]) /\ ~KeyLess(current[d], current[e])
      BY <1>4, <1>7 DEF Taken, WouldApply
    <2> QED
      BY <1>5, <1>7, <2>1, KeyOrder
  <1> QED
    BY <1>6, <1>7

\* Two connected, idle devices hold the same key, however many others there are
\* and whatever was lost or restarted among those; provided that neither of the
\* two was restarted, switched off or given another group key, that what they hold
\* reached the relay, and that the relay has dropped no signal and caches none that
\* has to be pulled.  It is about keys and not about the clipboards.
THEOREM AgreeAtRestAlways == Spec => []AgreeAtRest
  <1>1. Init => AllKnown /\ HeardCached /\ HeldCached /\ OwnTaken
    <2> SUFFICES ASSUME Init PROVE AllKnown /\ HeardCached /\ HeldCached /\ OwnTaken
      OBVIOUS
    <2>1. AllKnown
      BY DEF Init, EngineInit, AllKnown
    <2>2. HeardCached
      BY DEF Init, EngineInit, HeardCached
    <2>3. HeldCached
      BY DEF Init, EngineInit, HeldCached
    <2>4. OwnTaken
      BY DEF Init, OwnTaken
    <2> QED
      BY <2>1, <2>2, <2>3, <2>4
  <1> QED
    BY <1>1, RestAgree, AllKnownStep, CatchUpInit, WiresStep, CatchUpStep, HeardCachedStep,
       HeldCachedStep, OwnTakenStep, TypeCorrect, TypeStep, LamportDominatesAlways, PTL DEF Spec
=============================================================================
