-------------------------- MODULE MembershipProofs --------------------------
(***************************************************************************)
(* What TLAPS proves of Membership, for every set of devices and           *)
(* invitations, every valid founding log and every bound: its type         *)
(* invariant; that the log of the relay stays valid; who holds which key,  *)
(* what the logs of the devices are made of, that keys are replaced by     *)
(* later ones, and that undisturbed members agree when they come to rest.  *)
(* Who holds which key rests on the order of the queues: an entry that is  *)
(* pushed to a device is news to it, and to the maker of every key that    *)
(* reaches the device before the entry does.  That members agree rests on  *)
(* what is under way making up for all that their logs and keys lack.      *)
(***************************************************************************)
EXTENDS Membership, WsLogProofs

-----------------------------------------------------------------------------
(* Lemmas about messages.                                                  *)

\* What the relay sends is queued as messages.
LEMMA SentType ==
    ASSUME NetTypeOK, NEW to, \A x \in DOMAIN to : to[x] \in S2c
    PROVE  Sent(to) \in [Device -> Seq(S2c)]
  <1>1. ASSUME NEW x \in Device, x \in DOMAIN to PROVE Append(down[x], to[x]) \in Seq(S2c)
    BY <1>1 DEF NetTypeOK
  <1> QED
    BY <1>1 DEF Sent, NetTypeOK

\* What a device sends is queued as messages.
LEMMA ToRelayType ==
    ASSUME NetTypeOK, NEW d \in Device, NEW ms \in Seq(C2s), ToRelay(d, ms)
    PROVE  up' \in [Device -> Seq(C2s)]
  <1>1. up[d] \o ms \in Seq(C2s)
    BY ConcatProperties DEF NetTypeOK
  <1> QED
    BY <1>1 DEF ToRelay, NetTypeOK

\* The message a device hears is one, and the rest are messages.
LEMMA HeardType ==
    ASSUME NetTypeOK, NEW d \in Device, down[d] # <<>>
    PROVE  /\ Head(down[d]) \in S2c
           /\ Consume(d) => down' \in [Device -> Seq(S2c)]
  <1>1. Head(down[d]) \in S2c /\ Tail(down[d]) \in Seq(S2c)
    BY HeadTailProperties DEF NetTypeOK
  <1> QED
    BY <1>1 DEF Consume, NetTypeOK

\* A wrap of an update is one of its wraps, for the device asked for.
LEMMA WrapForType ==
    ASSUME NEW ws \in SUBSET Wrap, NEW x \in {w.to : w \in ws}
    PROVE  WrapFor(ws, x) \in Wrap /\ WrapFor(ws, x).to = x
  BY DEF WrapFor

\* The wraps of a key are wraps.
LEMMA WrapsType ==
    ASSUME NEW d \in Device, NEW S \in SUBSET Device, NEW k \in GroupKey,
           NEW ms \in SUBSET Device
    PROVE  Wraps(d, S, k, ms) \subseteq Wrap
  BY DEF Wraps, Wrap

\* The key a device ends up with is a key, or none.
LEMMA KeyFromType ==
    ASSUME DeviceTypeOK, NEW d \in Device, NEW w \in Wrap \cup {None}, NEW l
    PROVE  KeyFrom(d, w, l) \in GroupKey \cup {None}
  BY DEF KeyFrom, Takes, Wrap, DeviceTypeOK

\* A severed connection leaves well-typed queues.
LEMMA SeverType ==
    ASSUME NetTypeOK, NEW d \in Device, Sever(d)
    PROVE  NetTypeOK' /\ phase'[d] = "off" /\ \A x \in Device \ {d} : phase'[x] = phase[x]
  BY DEF Sever, NetTypeOK, Phase

\* The end of a join keeps the types of the device.
LEMMA JoinedType ==
    ASSUME JoinTypeOK, DeviceTypeOK, NEW d \in Device, Joined(d)
    PROVE  /\ JoinTypeOK' /\ DeviceTypeOK'
           /\ \A x \in Device \ {d} : code'[x] = code[x]
  <1>1. draft' \in [Device -> Log] /\ log' \in [Device -> Log]
    BY EmptySeq DEF Joined, JoinTypeOK, DeviceTypeOK, Log
  <1> QED
    BY <1>1 DEF Joined, JoinTypeOK, DeviceTypeOK

-----------------------------------------------------------------------------
(* The type invariant.                                                     *)

\* The founding log names its creator, and the sponsors of used invitations.
LEMMA FoundingType ==
    ASSUME NEW l \in Limits, NEW first, first = l.first
    PROVE  /\ first \in Log \ {<<>>}
           /\ FirstKey(first) \in GroupKey
           /\ \A g \in Grant : SponsorIn(first, g) \in Device \cup {None}
  <1>1. first \in Log \ {<<>>}
    BY MembershipAssumption DEF FullyValid, Verifies, Log, Limit
  <1>2. Len(first) \in Nat /\ Len(first) >= 1
    BY <1>1, EmptySeq DEF Log
  <1>3. \A i \in 1 .. Len(first) : first[i].body \in Body
    <2>1. \A i \in 1 .. Len(first) : first[i] \in Entry
      BY <1>1, ElementOfSeq DEF Log
    <2> QED
      BY <2>1 DEF Entry
  <1>4. first[1].body.creator \in Device
    <2>1. first[1].body \in Body /\ first[1].body.type = "genesis"
      BY <1>2, <1>3, MembershipAssumption DEF FullyValid, Verifies
    <2> QED
      BY <2>1 DEF Body
  <1>5. FirstKey(first) \in GroupKey
    BY <1>1, <1>4, EpochType, AcceptedFits, <1>2 DEF FirstKey, GroupKey, EpochOf, Log
  <1>6. ASSUME NEW g \in Grant PROVE SponsorIn(first, g) \in Device \cup {None}
    <2>1. CASE g \in GrantsAfter(first, Len(first))
      <3>1. PICK i \in 1 .. Len(first) :
              first[i].body.type = "add" /\ first[i].body.grant = g
        BY <2>1 DEF GrantsAfter
      <3>2. first[i].body.sponsor \in Device
        BY <1>3, <3>1 DEF Body
      <3> QED
        BY <2>1, <3>1, <3>2 DEF SponsorIn
    <2> QED
      BY <2>1 DEF SponsorIn
  <1> QED
    BY <1>1, <1>5, <1>6

LEMMA TypeInit == Init => TypeOK
  <1> SUFFICES ASSUME NEW l \in Limits, limit = l, NEW first, first = l.first, InitFrom(first)
               PROVE  TypeOK
    BY DEF Init
  <1>1. RelayTypeOK
    BY FoundingType DEF InitFrom, RelayTypeOK
  <1>2. NetTypeOK
    BY EmptySeq DEF InitFrom, NetTypeOK, Phase
  <1>3. JoinTypeOK
    BY EmptySeq DEF InitFrom, JoinTypeOK, Log
  <1>4. DeviceTypeOK
    BY FoundingType, EmptySeq DEF InitFrom, DeviceTypeOK, Log
  <1>5. BoundsTypeOK
    BY DEF InitFrom, BoundsTypeOK
  <1> QED
    BY <1>1, <1>2, <1>3, <1>4, <1>5 DEF InitFrom, TypeOK

\* What a step leaves alone keeps its type.
LEMMA Frame ==
    ASSUME TypeOK
    PROVE  /\ UNCHANGED relayVars => RelayTypeOK'
           /\ UNCHANGED netVars => NetTypeOK'
           /\ UNCHANGED joinVars => JoinTypeOK'
           /\ UNCHANGED deviceVars => DeviceTypeOK'
           /\ UNCHANGED bounds => BoundsTypeOK'
           /\ UNCHANGED rejected => rejected' \subseteq Device
  <1>1. UNCHANGED relayVars => RelayTypeOK'
    BY DEF TypeOK, relayVars, RelayTypeOK
  <1>2. UNCHANGED netVars => NetTypeOK'
    BY DEF TypeOK, netVars, NetTypeOK
  <1>3. UNCHANGED joinVars => JoinTypeOK'
    BY DEF TypeOK, joinVars, JoinTypeOK
  <1>4. UNCHANGED deviceVars => DeviceTypeOK'
    BY DEF TypeOK, deviceVars, DeviceTypeOK
  <1>5. UNCHANGED bounds => BoundsTypeOK'
    BY DEF TypeOK, bounds, BoundsTypeOK
  <1> QED
    BY <1>1, <1>2, <1>3, <1>4, <1>5 DEF TypeOK

\* A message handled by the relay keeps the types of its state and the queues.
LEMMA RelayReadsType ==
    ASSUME TypeOK, NEW d \in Device, RelayReads(d)
    PROVE  RelayTypeOK' /\ NetTypeOK' /\ rejected' \subseteq Device
  <1> DEFINE m == Head(up[d])
  <1> USE DEF TypeOK
  <1>1. m \in C2s /\ Tail(up[d]) \in Seq(C2s)
    BY HeadTailProperties DEF RelayReads, NetTypeOK
  <1>2. up' \in [Device -> Seq(C2s)] /\ phase' = phase /\ invites' = invites
    BY <1>1 DEF RelayReads, NetTypeOK
  <1>3. SUFFICES /\ down' \in [Device -> Seq(S2c)]
                 /\ relayLog' \in Log \ {<<>>}
                 /\ mailbox' \in [Device -> Wrap \cup {None}]
                 /\ \A x \in Device : mailbox'[x] # None => mailbox'[x].to = x
                 /\ rejected' \subseteq Device
    BY <1>2 DEF RelayTypeOK, NetTypeOK
  <1>4. CASE m.type = "hello" /\ HandleHello(d, m)
    <2>1. SubSeq(relayLog, m.length + 1, Len(relayLog)) \in Log
      <3>1. m.length \in Nat
        BY <1>1, <1>4 DEF C2s
      <3>2. Len(relayLog) \in Nat /\ \A i \in 1 .. Len(relayLog) : relayLog[i] \in Entry
        BY LenProperties, ElementOfSeq DEF RelayTypeOK, Log
      <3> QED
        BY <3>1, <3>2, SubSeqProperties DEF Log
    <2> DEFINE welcome == [type |-> "welcome",
                           tail |-> SubSeq(relayLog, m.length + 1, Len(relayLog)),
                           wrap |-> mailbox[d]]
    <2>2. welcome \in S2c
      BY <2>1 DEF S2c, RelayTypeOK
    <2> HIDE DEF welcome
    <2>3. Sent([x \in {d} |-> welcome]) \in [Device -> Seq(S2c)]
      BY <2>2, SentType
    <2> QED
      BY <1>4, <2>3 DEF HandleHello, RelayTypeOK, NetTypeOK, welcome
  <1>5. CASE m.type = "getlog" /\ HandleGetLog(d)
    <2>1. [type |-> "log", entries |-> relayLog] \in S2c
      BY DEF S2c, RelayTypeOK
    <2>2. Sent([x \in {d} |-> [type |-> "log", entries |-> relayLog]]) \in [Device -> Seq(S2c)]
      BY <2>1, SentType
    <2> QED
      BY <1>5, <2>2 DEF HandleGetLog, RelayTypeOK
  <1>6. CASE m.type = "append" /\ HandleAppend(d, m.entry)
    <2>1. m.entry \in Entry
      BY <1>1, <1>6 DEF C2s
    <2>2. Append(relayLog, m.entry) \in Log \ {<<>>}
      BY <2>1, AppendProperties DEF Log, RelayTypeOK
    <2>3. /\ [type |-> "appended", entry |-> m.entry] \in S2c
          /\ [type |-> "ack"] \in S2c /\ [type |-> "reject"] \in S2c
      BY <2>1 DEF S2c
    <2>4. CASE MayAppend(d, m.entry)
      <3> DEFINE to == [x \in (Roster(relayLog') \ {d}) \cup Asker(d) |->
                          IF x = d THEN [type |-> "ack"]
                          ELSE [type |-> "appended", entry |-> m.entry]]
      <3>1. \A x \in DOMAIN to : to[x] \in S2c
        BY <2>3
      <3> HIDE DEF to
      <3>2. Sent(to) \in [Device -> Seq(S2c)]
        BY <3>1, SentType
      <3> QED
        BY <1>6, <2>2, <2>4, <3>2 DEF HandleAppend, RelayTypeOK, to
    <2>5. CASE ~MayAppend(d, m.entry)
      <3>1. Sent([x \in Asker(d) |-> [type |-> "reject"]]) \in [Device -> Seq(S2c)]
        BY <2>3, SentType
      <3> QED
        BY <1>6, <2>5, <3>1 DEF HandleAppend, RelayTypeOK
    <2> QED
      BY <2>4, <2>5
  <1>7. CASE m.type = "wraps" /\ HandleKeyUpdate(d, m.wraps)
    <2> DEFINE ws == m.wraps
               to == {w.to : w \in ws}
    <2>1. ws \in SUBSET Wrap
      BY <1>1, <1>7 DEF C2s
    <2>2. \A x \in to : WrapFor(ws, x) \in Wrap /\ WrapFor(ws, x).to = x
      BY <2>1, WrapForType
    <2>3. \A x \in to : [type |-> "wrap", wrap |-> WrapFor(ws, x)] \in S2c
      BY <2>2 DEF S2c
    <2>4. Sent([x \in to |-> [type |-> "wrap", wrap |-> WrapFor(ws, x)]])
            \in [Device -> Seq(S2c)]
      BY <2>3, SentType
    <2>5. CASE Member(d)
      <3>1. /\ down' = Sent([x \in to |-> [type |-> "wrap", wrap |-> WrapFor(ws, x)]])
            /\ mailbox' = [x \in Device |-> IF x \in to /\ phase[x] = "off"
                                            THEN WrapFor(ws, x) ELSE mailbox[x]]
            /\ UNCHANGED <<relayLog, rejected>>
        BY <1>7, <2>5 DEF HandleKeyUpdate
      <3> HIDE DEF to, ws
      <3> QED
        BY <2>2, <2>4, <3>1 DEF RelayTypeOK
    <2>6. CASE ~Member(d)
      BY <1>7, <2>6 DEF HandleKeyUpdate, RelayTypeOK, NetTypeOK
    <2> QED
      BY <2>5, <2>6
  <1> QED
    BY <1>4, <1>5, <1>6, <1>7 DEF RelayReads

\* Every step of a device or of the relay keeps every variable in its type.
LEMMA TypeStep == TypeOK /\ [Next]_vars => TypeOK'
  <1> SUFFICES ASSUME TypeOK, [Next]_vars PROVE TypeOK'
    OBVIOUS
  <1> USE DEF TypeOK
  <1>1. ASSUME NEW d \in Device, Connect(d) PROVE TypeOK'
    <2>1. UNCHANGED <<relayVars, joinVars, deviceVars, bounds, rejected, down>>
      BY <1>1 DEF Connect, history
    <2>2. <<Hello(log[d])>> \in Seq(C2s)
      <3>1. Len(log[d]) \in Nat
        BY LenProperties DEF DeviceTypeOK, Log
      <3>2. Hello(log[d]) \in C2s
        BY <3>1 DEF Hello, C2s
      <3> QED
        BY <3>2
    <2>3. <<[type |-> "getlog"]>> \in Seq(C2s)
      BY DEF C2s
    <2>4. up' \in [Device -> Seq(C2s)]
      BY <1>1, <2>2, <2>3, ToRelayType DEF Connect
    <2>5. /\ phase' \in [Device -> Phase]
          /\ \A x \in Device : phase'[x] = "fetching" => code[x] # None
      BY <1>1 DEF Connect, NetTypeOK, Phase
    <2>6. NetTypeOK' /\ code' = code
      BY <2>1, <2>4, <2>5 DEF NetTypeOK, joinVars
    <2> QED
      BY <2>1, <2>5, <2>6, Frame
  <1>2. ASSUME NEW d \in Device, NEW g \in Grant, Join(d, g) PROVE TypeOK'
    <2>1. UNCHANGED <<relayVars, netVars, deviceVars, bounds, rejected>>
      BY <1>2 DEF Join, history
    <2>2. JoinTypeOK'
      BY <1>2 DEF Join, JoinTypeOK
    <2>3. \A x \in Device : phase'[x] = "fetching" => code'[x] # None
      BY <1>2, <2>1, MembershipAssumption DEF Join, netVars, JoinTypeOK, NetTypeOK
    <2> QED
      BY <2>1, <2>2, <2>3, Frame
  <1>3. ASSUME NEW d \in Device, NEW g \in Grant, Invite(d, g) PROVE TypeOK'
    <2>1. UNCHANGED <<netVars, joinVars, deviceVars, bounds, rejected>>
      BY <1>3 DEF Invite, history
    <2>2. RelayTypeOK'
      BY <1>3 DEF Invite, RelayTypeOK
    <2> QED
      BY <2>1, <2>2, Frame DEF netVars, joinVars
  <1>4. ASSUME NEW d \in Device, GuestGetsLog(d) PROVE TypeOK'
    <2> DEFINE entries == Head(down[d]).entries
               add == BuildOn(entries, AddBody(d, invites[code[d]], code[d]))
    <2>1. UNCHANGED <<relayVars, server, code, deviceVars, bounds, rejected>>
      BY <1>4 DEF GuestGetsLog, history
    <2>2. Head(down[d]) \in S2c /\ down' \in [Device -> Seq(S2c)]
      BY <1>4, HeardType DEF GuestGetsLog, Received
    <2>3. entries \in Log \ {<<>>}
      BY <1>4, <2>2 DEF GuestGetsLog, Received, S2c
    <2>4. code[d] \in Grant /\ invites[code[d]] \in Device
      BY <1>4 DEF GuestGetsLog, JoinTypeOK, RelayTypeOK
    <2>5. add \in Entry
      BY <2>3, <2>4, BodyType, BuildType DEF Log
    <2> HIDE DEF entries, add
    <2>6. draft' = [draft EXCEPT ![d] = Append(entries, add)]
          /\ ToRelay(d, <<[type |-> "append", entry |-> add]>>)
      BY <1>4 DEF GuestGetsLog, entries, add
    <2>7. JoinTypeOK'
      <3>1. Append(entries, add) \in Log
        BY <2>3, <2>5 DEF Log
      <3> QED
        BY <2>1, <2>6, <3>1 DEF JoinTypeOK
    <2>8. NetTypeOK'
      <3>1. <<[type |-> "append", entry |-> add]>> \in Seq(C2s)
        BY <2>5 DEF C2s
      <3>2. up' \in [Device -> Seq(C2s)]
        BY <2>6, <3>1, ToRelayType
      <3> QED
        BY <1>4, <2>2, <3>2 DEF GuestGetsLog, NetTypeOK, Phase
    <2>9. \A x \in Device : phase'[x] = "fetching" => code'[x] # None
      BY <1>4, <2>1 DEF GuestGetsLog, NetTypeOK
    <2> QED
      BY <2>1, <2>7, <2>8, <2>9, Frame
  <1>5. ASSUME NEW d \in Device, GuestGivesUp(d) PROVE TypeOK'
    <2>1. Sever(d) /\ Dropped(d) /\ UNCHANGED <<relayVars, deviceVars, bounds, rejected>>
      BY <1>5 DEF GuestGivesUp, history
    <2>2. JoinTypeOK' /\ \A x \in Device \ {d} : code'[x] = code[x]
      BY <2>1 DEF Dropped, JoinTypeOK
    <2> QED
      BY <2>1, <2>2, SeverType, Frame
  <1>6. ASSUME NEW d \in Device, GuestGetsAnswer(d) PROVE TypeOK'
    <2>1. Joined(d) /\ UNCHANGED <<relayVars, bounds, rejected>>
      BY <1>6 DEF GuestGetsAnswer, history
    <2>2. JoinTypeOK' /\ DeviceTypeOK' /\ \A x \in Device \ {d} : code'[x] = code[x]
      BY <2>1, JoinedType
    <2>3. down' \in [Device -> Seq(S2c)]
      BY <1>6, HeardType DEF GuestGetsAnswer, Received
    <2>4. up' \in [Device -> Seq(C2s)]
      <3>1. Hello(draft[d]) \in C2s
        BY LenProperties DEF Hello, C2s, JoinTypeOK, Log
      <3>2. <<Hello(draft[d])>> \in Seq(C2s)
        BY <3>1
      <3> QED
        BY <1>6, <3>2, ToRelayType DEF GuestGetsAnswer
    <2>5. NetTypeOK' /\ \A x \in Device : phase'[x] = "fetching" => x # d /\ phase[x] = "fetching"
      BY <1>6, <2>3, <2>4 DEF GuestGetsAnswer, NetTypeOK, Phase
    <2> QED
      BY <2>1, <2>2, <2>5, Frame
  <1>7. ASSUME NEW d \in Device, GuestSkips(d) PROVE TypeOK'
    <2>1. UNCHANGED <<relayVars, phase, up, joinVars, deviceVars, bounds, rejected>>
      BY <1>7 DEF GuestSkips, history
    <2>2. NetTypeOK'
      BY <1>7, <2>1, HeardType DEF GuestSkips, NetTypeOK
    <2> QED
      BY <2>1, <2>2, Frame DEF joinVars
  <1>8. ASSUME NEW d \in Device, Break(d) PROVE TypeOK'
    <2>1. Sever(d) /\ UNCHANGED <<relayVars, revokes, restarts, relayRestarts, rejected>>
      BY <1>8 DEF Break, history
    <2>2. BoundsTypeOK'
      BY <1>8, <2>1 DEF Break, BoundsTypeOK
    <2>3. /\ JoinTypeOK' /\ DeviceTypeOK'
          /\ \A x \in Device \ {d} : code'[x] = code[x]
      <3>1. CASE UNCHANGED <<joinVars, deviceVars>>
        BY <3>1, Frame DEF joinVars
      <3>2. CASE Dropped(d) /\ UNCHANGED deviceVars
        BY <3>2, Frame DEF Dropped, JoinTypeOK
      <3>3. CASE Joined(d)
        BY <3>3, JoinedType
      <3> QED
        BY <1>8, <3>1, <3>2, <3>3 DEF Break
    <2> QED
      BY <2>1, <2>2, <2>3, SeverType, Frame
  <1>9. ASSUME NEW d \in Device, HearWelcome(d) PROVE TypeOK'
    <2> DEFINE m == Head(down[d])
               l == IF m.tail = <<>> THEN log[d] ELSE m.tail
    <2>1. UNCHANGED <<relayVars, phase, up, joinVars, revoking, bounds, rejected>>
      BY <1>9 DEF HearWelcome, history
    <2>2. m \in S2c /\ NetTypeOK'
      BY <1>9, <2>1, HeardType DEF HearWelcome, Received, NetTypeOK
    <2>3. m.tail \in Log /\ m.wrap \in Wrap \cup {None}
      BY <1>9, <2>2 DEF HearWelcome, Received, S2c
    <2>4. l \in Log
      BY <2>3 DEF DeviceTypeOK
    <2>5. KeyFrom(d, m.wrap, l) \in GroupKey \cup {None}
      BY <2>3, KeyFromType
    <2>6. /\ log' = [log EXCEPT ![d] = l]
          /\ key' = [key EXCEPT ![d] = KeyFrom(d, m.wrap, l)]
          /\ wid' = [wid EXCEPT ![d] = @ \/ Verifies(l)]
      BY <1>9 DEF HearWelcome
    <2> HIDE DEF m, l
    <2>7. wid' \in [Device -> BOOLEAN]
      BY <2>6 DEF DeviceTypeOK
    <2>8. DeviceTypeOK'
      BY <2>1, <2>4, <2>5, <2>6, <2>7 DEF DeviceTypeOK
    <2> QED
      BY <2>1, <2>2, <2>8, Frame DEF joinVars
  <1>10. ASSUME NEW d \in Device, HearAppended(d) PROVE TypeOK'
    <2> DEFINE e == Head(down[d]).entry
               l == Append(log[d], e)
               ws == Wraps(d, {e.body.subject}, key[d], MembersOf(l))
    <2>1. UNCHANGED <<relayVars, phase, joinVars, wid, key, revoking, bounds, rejected>>
      BY <1>10 DEF HearAppended, history
    <2>2. Head(down[d]) \in S2c /\ down' \in [Device -> Seq(S2c)]
      BY <1>10, HeardType DEF HearAppended, Received
    <2>3. e \in Entry
      BY <1>10, <2>2 DEF HearAppended, Received, S2c
    <2>4. l \in Log
      BY <2>3 DEF DeviceTypeOK, Log
    <2>5. CASE e.body.type = "add" /\ key[d] # None /\ ToRelay(d, <<[type |-> "wraps", wraps |-> ws]>>)
      <3>1. e.body.subject \in Device
        BY <2>3, <2>5 DEF Entry, Body
      <3>2. key[d] \in GroupKey
        BY <2>5 DEF DeviceTypeOK
      <3>3. ws \subseteq Wrap
        BY <3>1, <3>2, WrapsType DEF MembersOf, MembersAfter
      <3> HIDE DEF ws
      <3>4. <<[type |-> "wraps", wraps |-> ws]>> \in Seq(C2s)
        BY <3>3 DEF C2s
      <3>5. up' \in [Device -> Seq(C2s)]
        BY <2>5, <3>4, ToRelayType
      <3> QED
        BY <1>10, <2>1, <2>2, <2>4, <3>5, Frame
           DEF HearAppended, NetTypeOK, DeviceTypeOK, joinVars
    <2>6. CASE UNCHANGED up
      BY <1>10, <2>1, <2>2, <2>4, <2>6, Frame
         DEF HearAppended, NetTypeOK, DeviceTypeOK, joinVars
    <2> QED
      BY <1>10, <2>5, <2>6 DEF HearAppended
  <1>11. ASSUME NEW d \in Device, HearWrap(d) PROVE TypeOK'
    <2>1. UNCHANGED <<relayVars, phase, up, joinVars, log, wid, revoking, bounds, rejected>>
      BY <1>11 DEF HearWrap, history
    <2>2. Head(down[d]) \in S2c /\ NetTypeOK'
      BY <1>11, <2>1, HeardType DEF HearWrap, Received, NetTypeOK
    <2>3. Head(down[d]).wrap \in Wrap
      BY <1>11, <2>2 DEF HearWrap, Received, S2c
    <2>4. key' \in [Device -> GroupKey \cup {None}]
      BY <1>11, <2>3, KeyFromType DEF HearWrap, DeviceTypeOK
    <2>5. DeviceTypeOK'
      BY <2>1, <2>4 DEF DeviceTypeOK
    <2> QED
      BY <2>1, <2>2, <2>5, Frame DEF joinVars
  <1>12. ASSUME NEW d \in Device, NEW t \in Device, RevokeSends(d, t) PROVE TypeOK'
    <2> DEFINE l == log[d]
               remove == BuildOn(l, RemoveBody(d, t))
               l2 == Append(l, remove)
               new == [epoch |-> EpochOf(l) + 1, by |-> d, n |-> revokes[d] + 1]
               rotate == BuildOn(l2, EpochBody(d, EpochOf(l) + 1, MembersOf(l2)))
               wraps == Wraps(d, MembersOf(l2) \ {d}, new, MembersOf(l2))
    <2>1. UNCHANGED <<relayVars, phase, down, joinVars, log, wid, key, breaks, restarts,
                      relayRestarts, limit, rejected>>
      BY <1>12 DEF RevokeSends
    <2>2. l \in Log /\ l # <<>> /\ revokes[d] \in Nat
      BY <1>12 DEF RevokeSends, Verifies, DeviceTypeOK, BoundsTypeOK
    <2>3. remove \in Entry /\ EpochOf(l) \in Nat
      BY <2>2, BodyType, BuildType DEF Log
    <2>4. l2 \in Log /\ l2 # <<>>
      BY <2>2, <2>3, AppendProperties DEF Log
    <2>5. rotate \in Entry /\ MembersOf(l2) \subseteq Device
      <3>1. MembersOf(l2) \in SUBSET Device
        BY DEF MembersOf, MembersAfter
      <3>2. EpochBody(d, EpochOf(l) + 1, MembersOf(l2)) \in Body
        BY <2>3, <3>1, BodyType
      <3> QED
        BY <2>4, <3>1, <3>2, BuildType DEF Log
    <2>6. new \in GroupKey
      BY <2>2, <2>3 DEF GroupKey
    <2>7. wraps \subseteq Wrap
      BY <2>5, <2>6, WrapsType
    <2>8. /\ ToRelay(d, <<[type |-> "append", entry |-> remove],
                          [type |-> "append", entry |-> rotate]>>
                        \o IF wraps = {} THEN <<>> ELSE <<[type |-> "wraps", wraps |-> wraps]>>)
          /\ revoking' = [revoking EXCEPT
                            ![d] = [length |-> Len(l), entries |-> <<remove, rotate>>, key |-> new]]
          /\ revokes' = [revokes EXCEPT ![d] = @ + 1]
      BY <1>12 DEF RevokeSends
    <2> HIDE DEF l, remove, l2, new, rotate, wraps
    <2>9. NetTypeOK'
      <3>1. <<[type |-> "append", entry |-> remove],
              [type |-> "append", entry |-> rotate]>> \in Seq(C2s)
        BY <2>3, <2>5 DEF C2s
      <3>2. (IF wraps = {} THEN <<>> ELSE <<[type |-> "wraps", wraps |-> wraps]>>) \in Seq(C2s)
        <4>1. [type |-> "wraps", wraps |-> wraps] \in C2s
          BY <2>7 DEF C2s
        <4> QED
          BY <4>1, EmptySeq
      <3>3. up' \in [Device -> Seq(C2s)]
        BY <2>8, <3>1, <3>2, ConcatProperties, ToRelayType
      <3> QED
        BY <2>1, <3>3 DEF NetTypeOK
    <2>10. DeviceTypeOK'
      <3>1. Len(l) \in Nat /\ <<remove, rotate>> \in Log
        BY <2>2, <2>3, <2>5, LenProperties DEF Log
      <3>2. [length |-> Len(l), entries |-> <<remove, rotate>>, key |-> new] \in Revocation
        BY <2>6, <3>1 DEF Revocation
      <3> QED
        BY <2>1, <2>8, <3>2 DEF DeviceTypeOK
    <2>11. BoundsTypeOK'
      BY <2>1, <2>8 DEF BoundsTypeOK
    <2> QED
      BY <2>1, <2>9, <2>10, <2>11, Frame DEF joinVars
  <1>13. ASSUME NEW d \in Device, RevokeAdopts(d) PROVE TypeOK'
    <2>1. UNCHANGED <<relayVars, netVars, joinVars, wid, bounds>>
      BY <1>13 DEF RevokeAdopts
    <2>2. revoking[d] \in Revocation /\ log[d] \in Log
      BY <1>13 DEF RevokeAdopts, DeviceTypeOK
    <2>3. log[d] \o revoking[d].entries \in Log /\ revoking[d].key \in GroupKey
      BY <2>2, ConcatProperties DEF Revocation, Log
    <2>4. DeviceTypeOK' /\ rejected' \subseteq Device
      BY <1>13, <2>1, <2>3 DEF RevokeAdopts, DeviceTypeOK
    <2> QED
      BY <2>1, <2>4, Frame DEF netVars, joinVars
  <1>14. ASSUME NEW d \in Device, Restart(d) PROVE TypeOK'
    <2>1. Sever(d) /\ UNCHANGED <<relayVars, server, key, revokes, breaks, relayRestarts, rejected>>
      BY <1>14 DEF Restart, history
    <2>2. JoinTypeOK' /\ \A x \in Device \ {d} : code'[x] = code[x]
      BY <1>14, <2>1, EmptySeq DEF Restart, JoinTypeOK, Log
    <2>3. DeviceTypeOK'
      BY <1>14, <2>1, EmptySeq DEF Restart, DeviceTypeOK, Log
    <2>4. BoundsTypeOK'
      BY <1>14, <2>1 DEF Restart, BoundsTypeOK
    <2> QED
      BY <2>1, <2>2, <2>3, <2>4, SeverType, Frame
  <1>15. ASSUME NEW d \in Device, RelayReads(d) PROVE TypeOK'
    <2>1. UNCHANGED <<phase, joinVars, deviceVars, bounds>>
      BY <1>15 DEF RelayReads
    <2> QED
      BY <1>15, <2>1, RelayReadsType, Frame DEF joinVars
  <1>16. CASE RelayRestart
    <2>1. UNCHANGED <<joinVars, deviceVars, rejected>>
      BY <1>16 DEF RelayRestart, history
    <2>2. RelayTypeOK'
      BY <1>16 DEF RelayRestart, RelayTypeOK
    <2>3. NetTypeOK' /\ \A x \in Device : phase'[x] = "off"
      BY <1>16, EmptySeq DEF RelayRestart, NetTypeOK, Phase
    <2>4. BoundsTypeOK'
      BY <1>16 DEF RelayRestart, BoundsTypeOK
    <2> QED
      BY <2>1, <2>2, <2>3, <2>4, Frame
  <1>17. ASSUME NEW d \in Device, RevokeFails(d) PROVE TypeOK'
    <2>1. UNCHANGED <<relayVars, netVars, joinVars, log, wid, key, bounds>>
      BY <1>17 DEF RevokeFails
    <2>2. DeviceTypeOK' /\ rejected' \subseteq Device
      BY <1>17, <2>1 DEF RevokeFails, DeviceTypeOK
    <2> QED
      BY <2>1, <2>2, Frame DEF netVars, joinVars
  <1>18. CASE UNCHANGED vars
    BY <1>18, Frame DEF vars, history, netVars, joinVars
  <1> QED
    BY <1>1, <1>2, <1>3, <1>4, <1>5, <1>6, <1>7, <1>8, <1>9, <1>10, <1>11, <1>12, <1>13,
       <1>14, <1>15, <1>16, <1>17, <1>18 DEF Next, DeviceStep

\* Every variable keeps its type, messages and history included: what a device
\* or the relay reads is always a message it knows, a guest that waits for the
\* log has an invitation, and the mailbox keeps for a device only its own wraps.
THEOREM MembershipTypeCorrect == Spec => []TypeOK
  BY TypeInit, TypeStep, PTL DEF Spec

-----------------------------------------------------------------------------
(* The log of the relay.                                                   *)

\* Whatever a device sends, the relay appends only what leaves all of its log
\* acceptable.
LEMMA AppendKeepsValid ==
    ASSUME TypeOK, NEW d \in Device, NEW e \in Entry, MayAppend(d, e)
    PROVE  FullyValid(Append(relayLog, e))
  <1> DEFINE l == Append(relayLog, e)
  <1>1. l \in Log /\ l # <<>>
    BY AppendProperties DEF TypeOK, RelayTypeOK, Log
  <1>2. Verifies(l) /\ Accepted(l) = Len(l)
    BY DEF MayAppend
  <1>3. \A i \in 2 .. Accepted(l) : Fits(l, i)
    BY <1>1, AcceptedFits DEF Log
  <1> QED
    BY <1>2, <1>3 DEF FullyValid

LEMMA RelayLogStep == TypeOK /\ RelayLogValid /\ [Next]_vars => RelayLogValid'
  <1> SUFFICES ASSUME TypeOK, RelayLogValid, [Next]_vars PROVE RelayLogValid'
    OBVIOUS
  <1>1. ASSUME UNCHANGED relayLog PROVE RelayLogValid'
    BY <1>1 DEF RelayLogValid
  <1>2. ASSUME NEW d \in Device, RelayReads(d) PROVE RelayLogValid'
    <2> DEFINE m == Head(up[d])
    <2>1. m \in C2s
      BY <1>2, HeadTailProperties DEF RelayReads, TypeOK, NetTypeOK
    <2>2. CASE m.type = "append" /\ HandleAppend(d, m.entry)
      <3>1. m.entry \in Entry
        BY <2>1, <2>2 DEF C2s
      <3>2. CASE MayAppend(d, m.entry)
        BY <2>2, <3>1, <3>2, AppendKeepsValid DEF HandleAppend, RelayLogValid
      <3>3. CASE ~MayAppend(d, m.entry)
        BY <1>1, <2>2, <3>3 DEF HandleAppend
      <3> QED
        BY <3>2, <3>3
    <2>3. CASE HandleHello(d, m) \/ HandleGetLog(d) \/ HandleKeyUpdate(d, m.wraps)
      BY <1>1, <2>3 DEF HandleHello, HandleGetLog, HandleKeyUpdate
    <2> QED
      BY <1>2, <2>2, <2>3 DEF RelayReads
  <1>3. ASSUME NEW d \in Device, DeviceStep(d) PROVE RelayLogValid'
    BY <1>1, <1>3 DEF DeviceStep, relayVars, Connect, Join, Invite, GuestGetsLog,
       GuestGivesUp, GuestGetsAnswer, GuestSkips, Break, HearWelcome, HearAppended,
       HearWrap, RevokeSends, RevokeFails, RevokeAdopts, Restart
  <1>4. CASE RelayRestart
    BY <1>1, <1>4 DEF RelayRestart
  <1>5. CASE UNCHANGED vars
    BY <1>1, <1>5 DEF vars, relayVars
  <1> QED
    BY <1>2, <1>3, <1>4, <1>5 DEF Next

\* Whoever appends what, in whatever order, and however often devices and the
\* relay restart, everyone who verifies the log of the relay accepts all of it.
THEOREM RelayLogAlwaysValid == Spec => []RelayLogValid
  <1>1. Init => RelayLogValid
    BY MembershipAssumption DEF Init, InitFrom, RelayLogValid
  <1> QED
    BY <1>1, RelayLogStep, MembershipTypeCorrect, PTL DEF Spec

-----------------------------------------------------------------------------
(* The inductive invariant.  Its parts are stated of values, so that the   *)
(* lemmas say of a value what a step does to it: R is the set of entries   *)
(* of the relay's log, M the history made, q a queue to a device.          *)

All(l) == Entries(l, Len(l))

OfRelay == All(relayLog)

\* Device d signed entry e, which is no Create entry.
By(d, e) == e.body.type # "genesis" /\ Author(e.body) = d

\* The entries of S come from the relay, or from d.
Traced(R, d, S) == \A e \in S : e \in R \/ By(d, e)

\* The entries pushed behind the first n messages of a queue.
Pushed(q, n) == {q[p].entry : p \in {p \in n + 1 .. Len(q) : q[p].type = "appended"}}

\* The entries in a message.
Carried(m) ==
    CASE m.type = "appended" -> {m.entry}
      [] m.type = "welcome" -> All(m.tail)
      [] m.type = "log" -> All(m.entries)
      [] OTHER -> {}

\* The maker of key k had not seen the entries of S, or signed them.
Fresh(k, S) == \A e \in S : e \in k.seen => By(k.key.by, e)

\* Device d may hold the key k: KeysOnlyToMembers, of one key.
Due(R, k, d) ==
    \/ d \in k.members \cup {k.key.by}
    \/ \E e \in R \ k.seen : Admits(e.body, d)
    \/ ~k.clean

\* The key in wrap w was made, and whoever takes it may hold it: who signed a
\* wrap must be among the members it names, or it is not taken.
Wanted(R, k, w) == k.key = w.key /\ (w.from \in w.members => Due(R, k, w.to))

MadeOK(R, M) == \A k \in M : Traced(R, k.key.by, k.seen)

LogOK(R, d, l, q) == Traced(R, d, All(l)) /\ All(l) \cap Pushed(q, 0) = {}

KeyOK(R, M, d, gk, q) ==
    gk # None => \E k \in M : k.key = gk /\ Due(R, k, d) /\ Fresh(k, Pushed(q, 0))

RevokingOK(R, M, d, r, q) ==
    r # None =>
        /\ \A e \in All(r.entries) : By(d, e)
        /\ \E k \in M : k.key = r.key /\ k.key.by = d /\ Fresh(k, Pushed(q, 0))

Meant(R, M, w) == \E k \in M : Wanted(R, k, w)

MailOK(R, M, w) == w # None => Meant(R, M, w)

AskedOK(R, M, d, u) ==
    \A p \in 1 .. Len(u) :
        /\ u[p].type = "append" => By(d, u[p].entry)
        /\ u[p].type = "wraps" => \A w \in u[p].wraps : Meant(R, M, w)

\* A message to d, with the entries of S pushed behind it.
MessageOK(R, M, d, m, S) ==
    /\ Carried(m) \subseteq R
    /\ Carried(m) \cap S = {}
    /\ m.type = "appended" => ~By(d, m.entry)
    /\ m.type \in {"wrap", "welcome"} /\ m.wrap # None =>
           \E k \in M : Wanted(R, k, m.wrap) /\ Fresh(k, S)

QueueOK(R, M, d, q) == \A p \in 1 .. Len(q) : MessageOK(R, M, d, q[p], Pushed(q, p))

DeviceOK(d) ==
    /\ LogOK(OfRelay, d, log[d], down[d])
    /\ LogOK(OfRelay, d, draft[d], down[d])
    /\ KeyOK(OfRelay, made, d, key[d], down[d])
    /\ RevokingOK(OfRelay, made, d, revoking[d], down[d])
    /\ QueueOK(OfRelay, made, d, down[d])
    /\ AskedOK(OfRelay, made, d, up[d])
    /\ MailOK(OfRelay, made, mailbox[d])

KeyInv == MadeOK(OfRelay, made) /\ \A d \in Device : DeviceOK(d)

-----------------------------------------------------------------------------
(* Lemmas about queues.                                                    *)

\* What is pushed behind the first messages of a shorter queue.
LEMMA PushedShrinks ==
    ASSUME NEW q \in Seq(S2c), q # <<>>, NEW n \in Nat
    PROVE  Pushed(Tail(q), n) = Pushed(q, n + 1)
  <1>1. Len(q) \in Nat /\ Len(q) >= 1 /\ Len(Tail(q)) = Len(q) - 1
    BY EmptySeq, HeadTailProperties
  <1>2. \A p \in 1 .. Len(q) - 1 : Tail(q)[p] = q[p + 1]
    BY <1>1, HeadTailProperties
  <1>3. ASSUME NEW e, e \in Pushed(Tail(q), n) PROVE e \in Pushed(q, n + 1)
    <2>1. PICK p \in n + 1 .. Len(Tail(q)) : Tail(q)[p].type = "appended" /\ e = Tail(q)[p].entry
      BY <1>3 DEF Pushed
    <2>2. p + 1 \in n + 1 + 1 .. Len(q) /\ Tail(q)[p] = q[p + 1]
      BY <1>1, <1>2, <2>1
    <2> QED
      BY <2>1, <2>2 DEF Pushed
  <1>4. ASSUME NEW e, e \in Pushed(q, n + 1) PROVE e \in Pushed(Tail(q), n)
    <2>1. PICK p \in n + 1 + 1 .. Len(q) : q[p].type = "appended" /\ e = q[p].entry
      BY <1>4 DEF Pushed
    <2>2. p - 1 \in n + 1 .. Len(Tail(q)) /\ Tail(q)[p - 1] = q[p]
      BY <1>1, <1>2, <2>1
    <2> QED
      BY <2>1, <2>2 DEF Pushed
  <1> QED
    BY <1>3, <1>4

LEMMA PushedLess ==
    ASSUME NEW q, NEW n \in Nat
    PROVE  /\ Pushed(q, n + 1) \subseteq Pushed(q, n)
           /\ Pushed(<<>>, n) = {}
           /\ Len(q) = n => Pushed(q, n) = {}
  BY DEF Pushed

\* What is pushed behind the first messages of a longer queue.
LEMMA PushedGrows ==
    ASSUME NEW q \in Seq(S2c), NEW m \in S2c, NEW n \in Nat
    PROVE  Pushed(Append(q, m), n)
             \subseteq Pushed(q, n) \cup (IF m.type = "appended" THEN {m.entry} ELSE {})
  <1>1. /\ Len(q) \in Nat /\ Len(Append(q, m)) = Len(q) + 1
        /\ Append(q, m)[Len(q) + 1] = m
        /\ \A p \in 1 .. Len(q) : Append(q, m)[p] = q[p]
    BY AppendProperties
  <1> SUFFICES ASSUME NEW e, e \in Pushed(Append(q, m), n)
               PROVE  e \in Pushed(q, n) \/ (m.type = "appended" /\ e = m.entry)
    OBVIOUS
  <1>2. PICK p \in n + 1 .. Len(q) + 1 :
          Append(q, m)[p].type = "appended" /\ e = Append(q, m)[p].entry
    BY <1>1 DEF Pushed
  <1>3. CASE p = Len(q) + 1
    BY <1>1, <1>2, <1>3
  <1>4. CASE p # Len(q) + 1
    <2>1. p \in n + 1 .. Len(q) /\ Append(q, m)[p] = q[p]
      BY <1>1, <1>2, <1>4
    <2> QED
      BY <1>2, <2>1 DEF Pushed
  <1> QED
    BY <1>3, <1>4

\* Who may hold a key may hold it after any step.
LEMMA DueGrows ==
    ASSUME NEW R, NEW R2, R \subseteq R2, NEW k
    PROVE  /\ \A d : Due(R, k, d) => Due(R2, k, d)
           /\ \A w : Wanted(R, k, w) => Wanted(R2, k, w)
  BY DEF Due, Wanted

LEMMA MailGrows ==
    ASSUME NEW R, NEW R2, R \subseteq R2, NEW M, NEW M2, M \subseteq M2, NEW w
    PROVE  /\ Meant(R, M, w) => Meant(R2, M2, w)
           /\ MailOK(R, M, w) => MailOK(R2, M2, w)
  <1>1. Meant(R, M, w) => Meant(R2, M2, w)
    BY DueGrows DEF Meant
  <1> QED
    BY <1>1 DEF MailOK

LEMMA MessageKept ==
    ASSUME NEW R, NEW R2, R \subseteq R2, NEW M, NEW M2, M \subseteq M2,
           NEW d, NEW m, NEW S, NEW S2, S2 \subseteq S, MessageOK(R, M, d, m, S)
    PROVE  MessageOK(R2, M2, d, m, S2)
  <1>1. Carried(m) \subseteq R2 /\ Carried(m) \cap S2 = {} /\ (m.type = "appended" => ~By(d, m.entry))
    BY DEF MessageOK
  <1>2. ASSUME m.type \in {"wrap", "welcome"}, m.wrap # None
        PROVE  \E k \in M2 : Wanted(R2, k, m.wrap) /\ Fresh(k, S2)
    <2>1. PICK k \in M : Wanted(R, k, m.wrap) /\ Fresh(k, S)
      BY <1>2 DEF MessageOK
    <2>2. Wanted(R2, k, m.wrap) /\ Fresh(k, S2)
      BY <2>1, DueGrows DEF Fresh
    <2> QED
      BY <2>2
  <1> QED
    BY <1>1, <1>2 DEF MessageOK

\* A device loses nothing of this when the log of the relay and the keys made
\* grow, its queue loses its head, or its connection breaks.
LEMMA Kept ==
    ASSUME NEW R, NEW R2, R \subseteq R2, NEW M, NEW M2, M \subseteq M2, NEW d,
           NEW q \in Seq(S2c), NEW q2, q2 = q \/ q2 = <<>> \/ (q # <<>> /\ q2 = Tail(q))
    PROVE  /\ \A l : LogOK(R, d, l, q) => LogOK(R2, d, l, q2)
           /\ \A gk : KeyOK(R, M, d, gk, q) => KeyOK(R2, M2, d, gk, q2)
           /\ \A r : RevokingOK(R, M, d, r, q) => RevokingOK(R2, M2, d, r, q2)
           /\ QueueOK(R, M, d, q) => QueueOK(R2, M2, d, q2)
           /\ \A u : AskedOK(R, M, d, u) => AskedOK(R2, M2, d, u)
           /\ \A w : MailOK(R, M, w) => MailOK(R2, M2, w)
  <1>1. Pushed(q2, 0) \subseteq Pushed(q, 0)
    <2>1. 0 \in Nat /\ Pushed(q, 0 + 1) \subseteq Pushed(q, 0) /\ Pushed(<<>>, 0) = {}
      BY PushedLess
    <2>2. q # <<>> => Pushed(Tail(q), 0) = Pushed(q, 0 + 1)
      BY <2>1, PushedShrinks
    <2> QED
      BY <2>1, <2>2
  <1>2. ASSUME NEW l, LogOK(R, d, l, q) PROVE LogOK(R2, d, l, q2)
    BY <1>1, <1>2 DEF LogOK, Traced
  <1>3. ASSUME NEW gk, KeyOK(R, M, d, gk, q) PROVE KeyOK(R2, M2, d, gk, q2)
    <2> SUFFICES ASSUME gk # None PROVE \E k \in M2 : k.key = gk /\ Due(R2, k, d) /\ Fresh(k, Pushed(q2, 0))
      BY DEF KeyOK
    <2>1. PICK k \in M : k.key = gk /\ Due(R, k, d) /\ Fresh(k, Pushed(q, 0))
      BY <1>3 DEF KeyOK
    <2>2. Due(R2, k, d) /\ Fresh(k, Pushed(q2, 0))
      BY <1>1, <2>1, DueGrows DEF Fresh
    <2> QED
      BY <2>1, <2>2
  <1>4. ASSUME NEW r, RevokingOK(R, M, d, r, q) PROVE RevokingOK(R2, M2, d, r, q2)
    <2>1. \A k : Fresh(k, Pushed(q, 0)) => Fresh(k, Pushed(q2, 0))
      BY <1>1 DEF Fresh
    <2> QED
      BY <1>4, <2>1 DEF RevokingOK
  <1>5. ASSUME QueueOK(R, M, d, q) PROVE QueueOK(R2, M2, d, q2)
    <2>1. CASE q2 = q
      BY <1>5, <2>1, MessageKept DEF QueueOK
    <2>2. CASE q2 = <<>>
      BY <2>2, EmptySeq DEF QueueOK
    <2>3. CASE q # <<>> /\ q2 = Tail(q)
      <3> SUFFICES ASSUME NEW p \in 1 .. Len(q2)
                   PROVE  MessageOK(R2, M2, d, q2[p], Pushed(q2, p))
        BY DEF QueueOK
      <3>1. Len(q) \in Nat /\ Len(q2) = Len(q) - 1 /\ \A i \in 1 .. Len(q) - 1 : Tail(q)[i] = q[i + 1]
        BY <2>3, EmptySeq, HeadTailProperties
      <3>2. p \in 1 .. Len(q) - 1
        BY <3>1
      <3>3. p \in Nat /\ p + 1 \in 1 .. Len(q) /\ q2[p] = q[p + 1]
        <4>1. p \in Nat /\ p + 1 \in 1 .. Len(q)
          BY <3>1, <3>2
        <4>2. Tail(q)[p] = q[p + 1]
          BY <3>1, <3>2
        <4> QED
          BY <2>3, <4>1, <4>2
      <3>4. Pushed(q2, p) = Pushed(q, p + 1)
        BY <2>3, <3>3, PushedShrinks
      <3> QED
        BY <1>5, <3>3, <3>4, MessageKept DEF QueueOK
    <2> QED
      BY <2>1, <2>2, <2>3
  <1>6. ASSUME NEW u, AskedOK(R, M, d, u) PROVE AskedOK(R2, M2, d, u)
    BY <1>6, MailGrows DEF AskedOK
  <1> QED
    BY <1>2, <1>3, <1>4, <1>5, <1>6, MailGrows

\* An entry that is new to the relay's log is news to whoever made a key.
LEMMA NewIsFresh ==
    ASSUME NEW R, NEW M, MadeOK(R, M), NEW k \in M, NEW e, e \notin R, NEW S, Fresh(k, S)
    PROVE  Fresh(k, S \cup {e})
  BY DEF Fresh, MadeOK, Traced

\* A message is queued to d.  An entry it pushes is new to the relay's log and of
\* another device.
LEMMA Queued ==
    ASSUME NEW R, NEW R2, R \subseteq R2, NEW M, MadeOK(R, M), NEW d,
           NEW q \in Seq(S2c), NEW m \in S2c,
           MessageOK(R2, M, d, m, {}),
           m.type = "appended" => m.entry \notin R
    PROVE  /\ \A l : LogOK(R, d, l, q) => LogOK(R2, d, l, Append(q, m))
           /\ \A gk : KeyOK(R, M, d, gk, q) => KeyOK(R2, M, d, gk, Append(q, m))
           /\ \A r : RevokingOK(R, M, d, r, q) => RevokingOK(R2, M, d, r, Append(q, m))
           /\ QueueOK(R, M, d, q) => QueueOK(R2, M, d, Append(q, m))
  <1> DEFINE N == IF m.type = "appended" THEN {m.entry} ELSE {}
             q2 == Append(q, m)
  <1>1. \A n \in Nat : Pushed(q2, n) \subseteq Pushed(q, n) \cup N
    BY PushedGrows
  <1>2. N \cap R = {} /\ \A e \in N : ~By(d, e)
    BY DEF MessageOK
  <1>3. ASSUME NEW k \in M, NEW n \in Nat, Fresh(k, Pushed(q, n)) PROVE Fresh(k, Pushed(q2, n))
    <2>1. Pushed(q2, n) \subseteq Pushed(q, n) \cup N
      BY <1>1
    <2>2. CASE m.type = "appended"
      <3>1. Fresh(k, Pushed(q, n) \cup {m.entry})
        BY <1>3, <2>2, NewIsFresh
      <3> QED
        BY <2>1, <2>2, <3>1 DEF Fresh
    <2>3. CASE m.type # "appended"
      BY <1>3, <2>1, <2>3 DEF Fresh
    <2> QED
      BY <2>2, <2>3
  <1>4. ASSUME NEW l, LogOK(R, d, l, q) PROVE LogOK(R2, d, l, q2)
    <2>1. Pushed(q2, 0) \subseteq Pushed(q, 0) \cup N
      BY <1>1
    <2>2. All(l) \cap N = {}
      BY <1>2, <1>4 DEF LogOK, Traced
    <2> QED
      BY <1>4, <2>1, <2>2 DEF LogOK, Traced
  <1>5. ASSUME NEW gk, KeyOK(R, M, d, gk, q) PROVE KeyOK(R2, M, d, gk, q2)
    <2> SUFFICES ASSUME gk # None PROVE \E k \in M : k.key = gk /\ Due(R2, k, d) /\ Fresh(k, Pushed(q2, 0))
      BY DEF KeyOK
    <2>1. PICK k \in M : k.key = gk /\ Due(R, k, d) /\ Fresh(k, Pushed(q, 0))
      BY <1>5 DEF KeyOK
    <2> QED
      BY <1>3, <2>1, DueGrows
  <1>6. ASSUME NEW r, RevokingOK(R, M, d, r, q) PROVE RevokingOK(R2, M, d, r, q2)
    BY <1>3, <1>6 DEF RevokingOK
  <1>7. ASSUME QueueOK(R, M, d, q) PROVE QueueOK(R2, M, d, q2)
    <2> SUFFICES ASSUME NEW p \in 1 .. Len(q2) PROVE MessageOK(R2, M, d, q2[p], Pushed(q2, p))
      BY DEF QueueOK
    <2>1. /\ Len(q) \in Nat /\ Len(q2) = Len(q) + 1
          /\ q2[Len(q) + 1] = m
          /\ \A i \in 1 .. Len(q) : q2[i] = q[i]
      BY AppendProperties
    <2>2. CASE p = Len(q) + 1
      <3>1. p \in Nat /\ Len(q2) = p
        BY <2>1, <2>2
      <3> HIDE DEF q2
      <3>2. Pushed(q2, p) = {}
        BY <3>1, PushedLess
      <3> QED
        BY <2>1, <2>2, <3>2
    <2>3. CASE p # Len(q) + 1
      <3>1. p \in 1 .. Len(q) /\ p \in Nat /\ q2[p] = q[p]
        BY <2>1, <2>3
      <3> HIDE DEF q2, N
      <3>2. MessageOK(R, M, d, q2[p], Pushed(q, p))
        BY <1>7, <3>1 DEF QueueOK
      <3>3. Pushed(q2, p) \subseteq Pushed(q, p) \cup N
        BY <1>1, <3>1
      <3>4. Carried(q2[p]) \subseteq R2 /\ Carried(q2[p]) \cap Pushed(q2, p) = {}
        BY <1>2, <3>2, <3>3 DEF MessageOK
      <3>5. ASSUME q2[p].type \in {"wrap", "welcome"}, q2[p].wrap # None
            PROVE  \E k \in M : Wanted(R2, k, q2[p].wrap) /\ Fresh(k, Pushed(q2, p))
        <4>1. PICK k \in M : Wanted(R, k, q2[p].wrap) /\ Fresh(k, Pushed(q, p))
          BY <3>2, <3>5 DEF MessageOK
        <4> QED
          BY <1>3, <3>1, <4>1, DueGrows
      <3> QED
        BY <3>2, <3>4, <3>5 DEF MessageOK
    <2> QED
      BY <2>2, <2>3
  <1> QED
    BY <1>4, <1>5, <1>6, <1>7

-----------------------------------------------------------------------------
(* Lemmas about the workspace log.                                         *)

\* In what fits, every entry names one more entry before it than the last, and
\* none but the first is a Create entry.
LEMMA ChainPositions ==
    ASSUME NEW l \in Log, NEW n \in 1 .. Len(l), \A i \in 2 .. n : Fits(l, i)
    PROVE  /\ \A i \in 1 .. n : Len(l[i].prev) = Len(l[1].prev) + (i - 1)
           /\ \A i \in 2 .. n : l[i].body.type # "genesis"
           /\ \A i \in 1 .. n : Len(l[i].prev) \in Nat
  <1> DEFINE Wrong == {i \in 1 .. n : Len(l[i].prev) # Len(l[1].prev) + (i - 1)}
  <1>1. Len(l) \in Nat /\ \A i \in 1 .. n : l[i].prev \in Seq(Body) /\ Len(l[i].prev) \in Nat
    <2>1. \A i \in 1 .. n : l[i] \in Entry
      BY ElementOfSeq, LenProperties DEF Log
    <2> QED
      BY <2>1, LenProperties DEF Entry, Log
  <1>2. ASSUME Wrong # {} PROVE FALSE
    <2>1. Wrong \subseteq Nat
      BY <1>1
    <2>2. PICK m \in Wrong : \A i \in Wrong : m <= i
      BY <1>2, <2>1, LeastOfNats
    <2>3. m \in 2 .. n /\ m - 1 \in 1 .. n /\ m - 1 < m
      BY <1>1, <2>2
    <2>4. Len(l[m - 1].prev) = Len(l[1].prev) + (m - 1 - 1)
      <3>1. m - 1 \notin Wrong
        BY <2>2, <2>3
      <3> QED
        BY <2>3, <3>1
    <2>5. l[m].prev = Append(l[m - 1].prev, l[m - 1].body)
      BY <2>3 DEF Fits, Hash
    <2>6. Len(l[m].prev) = Len(l[m - 1].prev) + 1
      <3>1. l[m - 1].prev \in Seq(Body) /\ l[m - 1].body \in Body
        <4>1. l[m - 1] \in Entry
          BY <1>1, <2>3, ElementOfSeq DEF Log
        <4> QED
          BY <4>1 DEF Entry
      <3> QED
        BY <2>5, <3>1, AppendProperties
    <2> QED
      BY <1>1, <2>2, <2>3, <2>4, <2>6
  <1>3. \A i \in 2 .. n : l[i].body.type # "genesis"
    BY DEF Fits, Allowed
  <1> QED
    BY <1>1, <1>2, <1>3

LEMMA AllAppend ==
    ASSUME NEW l \in Log, NEW e \in Entry
    PROVE  All(Append(l, e)) = All(l) \cup {e}
  <1> DEFINE l2 == Append(l, e)
  <1>1. /\ Len(l) \in Nat /\ Len(l2) = Len(l) + 1
        /\ l2[Len(l) + 1] = e /\ \A i \in 1 .. Len(l) : l2[i] = l[i]
    BY AppendProperties DEF Log
  <1>2. \A i : i \in 1 .. Len(l2) <=> i \in 1 .. Len(l) \/ i = Len(l) + 1
    BY <1>1
  <1> HIDE DEF l2
  <1>3. All(l2) = All(l) \cup {e}
    BY <1>1, <1>2 DEF All, Entries
  <1> QED
    BY <1>3 DEF l2

LEMMA AllConcat ==
    ASSUME NEW l \in Log, NEW m \in Log
    PROVE  All(l \o m) \subseteq All(l) \cup All(m)
  <1> SUFFICES ASSUME NEW i \in 1 .. Len(l \o m) PROVE (l \o m)[i] \in All(l) \cup All(m)
    BY DEF All, Entries
  <1>1. Len(l) \in Nat /\ Len(m) \in Nat /\ Len(l \o m) = Len(l) + Len(m)
    BY ConcatProperties DEF Log
  <1>2. CASE i <= Len(l)
    <2>1. (l \o m)[i] = l[i] /\ i \in 1 .. Len(l)
      BY <1>1, <1>2, ConcatProperties DEF Log
    <2> QED
      BY <2>1 DEF All, Entries
  <1>3. CASE ~(i <= Len(l))
    <2>1. (l \o m)[i] = m[i - Len(l)] /\ i - Len(l) \in 1 .. Len(m)
      BY <1>1, <1>3, ConcatProperties DEF Log
    <2> QED
      BY <2>1 DEF All, Entries
  <1> QED
    BY <1>2, <1>3

\* What a device builds is its own.
LEMMA BuiltByIt ==
    ASSUME NEW d, NEW l
    PROVE  /\ \A s, g : By(d, BuildOn(l, AddBody(d, s, g)))
           /\ \A t : By(d, BuildOn(l, RemoveBody(d, t)))
           /\ \A n, S : By(d, BuildOn(l, EpochBody(d, n, S)))
  <1>1. \A s, g : BuildOn(l, AddBody(d, s, g)).body = AddBody(d, s, g)
        /\ AddBody(d, s, g).type = "add" /\ AddBody(d, s, g).subject = d
    BY DEF BuildOn, AddBody
  <1>2. \A t : BuildOn(l, RemoveBody(d, t)).body = RemoveBody(d, t)
        /\ RemoveBody(d, t).type = "remove" /\ RemoveBody(d, t).by = d
    BY DEF BuildOn, RemoveBody
  <1>3. \A n, S : BuildOn(l, EpochBody(d, n, S)).body = EpochBody(d, n, S)
        /\ EpochBody(d, n, S).type = "epoch" /\ EpochBody(d, n, S).rotator = d
    BY DEF BuildOn, EpochBody
  <1> QED
    BY <1>1, <1>2, <1>3 DEF By, Author

\* What is appended to a valid log is new to it.
LEMMA AppendedIsNew ==
    ASSUME NEW l \in Log, NEW e \in Entry, FullyValid(Append(l, e))
    PROVE  e \notin All(l)
  <1> DEFINE l2 == Append(l, e)
  <1>1. /\ l2 \in Log /\ Len(l) \in Nat /\ Len(l2) = Len(l) + 1
        /\ l2[Len(l) + 1] = e /\ \A i \in 1 .. Len(l) : l2[i] = l[i]
    BY AppendProperties DEF Log
  <1>2. Len(l2) \in 1 .. Len(l2) /\ \A i \in 2 .. Len(l2) : Fits(l2, i)
    BY <1>1 DEF FullyValid
  <1> HIDE DEF l2
  <1>3. \A i \in 1 .. Len(l2) : Len(l2[i].prev) = Len(l2[1].prev) + (i - 1) /\ Len(l2[i].prev) \in Nat
    BY <1>1, <1>2, ChainPositions
  <1>4. ASSUME NEW i \in 1 .. Len(l), l[i] = e PROVE FALSE
    <2>1. i \in 1 .. Len(l2) /\ Len(l) + 1 \in 1 .. Len(l2) /\ l2[i] = l2[Len(l) + 1] /\ 1 \in 1 .. Len(l2)
      BY <1>1, <1>4
    <2>2. Len(l2[1].prev) \in Nat
      BY <1>3, <2>1
    <2>3. Len(l2[1].prev) + (i - 1) = Len(l2[1].prev) + (Len(l) + 1 - 1)
      BY <1>3, <2>1
    <2> QED
      BY <1>1, <2>2, <2>3
  <1> QED
    BY <1>4 DEF All, Entries

\* What a prefix says depends on the prefix only.
Same(l2, l, n) == \A i \in 1 .. n : l2[i] = l[i]

LEMMA SamePrefix ==
    ASSUME NEW l, NEW l2, NEW n \in Nat, Same(l2, l, n)
    PROVE  /\ \A k \in 1 .. n : /\ MembersAfter(l2, k) = MembersAfter(l, k)
                                /\ GrantsAfter(l2, k) = GrantsAfter(l, k)
                                /\ EpochAfter(l2, k) = EpochAfter(l, k)
           /\ \A i \in 2 .. n : Fits(l2, i) <=> Fits(l, i)
  <1>1. ASSUME NEW k \in 1 .. n
        PROVE  /\ MembersAfter(l2, k) = MembersAfter(l, k)
               /\ GrantsAfter(l2, k) = GrantsAfter(l, k)
               /\ EpochAfter(l2, k) = EpochAfter(l, k)
    <2>1. \A i \in 1 .. k : l2[i] = l[i]
      BY DEF Same
    <2>2. MembersAfter(l2, k) = MembersAfter(l, k)
      BY <2>1 DEF MembersAfter
    <2>3. GrantsAfter(l2, k) = GrantsAfter(l, k)
      BY <2>1 DEF GrantsAfter
    <2>4. {j \in 1 .. k : l2[j].body.type = "epoch"} = {j \in 1 .. k : l[j].body.type = "epoch"}
      BY <2>1
    <2> QED
      BY <2>2, <2>3, <2>4 DEF EpochAfter
  <1>2. ASSUME NEW i \in 2 .. n PROVE Fits(l2, i) <=> Fits(l, i)
    <2>1. i \in 1 .. n /\ i - 1 \in 1 .. n
      OBVIOUS
    <2> QED
      BY <1>1, <2>1 DEF Fits, Allowed, Same
  <1> QED
    BY <1>1, <1>2

\* The tail of a log from a length on.
LEMMA TailOfLog ==
    ASSUME NEW l \in Log, NEW n \in Nat
    PROVE  /\ SubSeq(l, n + 1, Len(l)) \in Log
           /\ Len(SubSeq(l, n + 1, Len(l))) = IF n + 1 <= Len(l) THEN Len(l) - n ELSE 0
           /\ \A i \in 1 .. Len(l) - n : SubSeq(l, n + 1, Len(l))[i] = l[i + n]
  <1> DEFINE t == SubSeq(l, n + 1, Len(l))
  <1>1. l \in Seq(Entry) /\ Len(l) \in Nat /\ n + 1 \in Int /\ Len(l) \in Int
    BY LenProperties DEF Log
  <1>2. \A i \in n + 1 .. Len(l) : l[i] \in Entry
    BY <1>1, ElementOfSeq
  <1>3. /\ t \in Seq(Entry)
        /\ Len(t) = IF n + 1 <= Len(l) THEN Len(l) - (n + 1) + 1 ELSE 0
        /\ \A i \in 1 .. Len(l) - (n + 1) + 1 : t[i] = l[n + 1 + i - 1]
    BY <1>1, <1>2, SubSeqProperties
  <1> HIDE DEF t
  <1>4. Len(t) = IF n + 1 <= Len(l) THEN Len(l) - n ELSE 0
    BY <1>1, <1>3
  <1>5. ASSUME NEW i \in 1 .. Len(l) - n PROVE t[i] = l[i + n]
    <2>1. i \in 1 .. Len(l) - (n + 1) + 1 /\ n + 1 + i - 1 = i + n
      BY <1>1
    <2> QED
      BY <1>3, <2>1
  <1> QED
    BY <1>3, <1>4, <1>5 DEF t, Log

\* Log l2 is l after d has removed t.
Removes(l2, l, d, t) == l2 = Append(l, BuildOn(l, RemoveBody(d, t)))

\* Who has verified all of its log and revokes a member finds the others left,
\* unless it is no member itself.
LEMMA RevokedMembers ==
    ASSUME NEW l \in Log, l # <<>>, Accepted(l) = Len(l), NEW d \in Device, NEW t \in Device,
           NEW l2, Removes(l2, l, d, t), d \in MembersOf(l2)
    PROVE  MembersOf(l2) = MembersOf(l) \ {t}
  <1> DEFINE n == Len(l)
             e == BuildOn(l, RemoveBody(d, t))
  <1>1. e \in Entry
    BY BodyType, BuildType DEF Log
  <1>2. n \in Nat /\ n >= 1
    BY EmptySeq DEF Log
  <1>3. l2 \in Log /\ l2 # <<>> /\ Len(l2) = n + 1 /\ l2[n + 1] = e /\ \A i \in 1 .. n : l2[i] = l[i]
    BY <1>1, AppendProperties DEF Log, Removes
  <1>7. Same(l2, l, n)
    BY <1>3 DEF Same
  <1>4. \A i \in 2 .. n : Fits(l2, i)
    <2>1. \A i \in 2 .. n : Fits(l, i)
      BY AcceptedFits DEF Log
    <2> HIDE DEF n
    <2>2. \A i \in 2 .. n : Fits(l2, i) <=> Fits(l, i)
      BY <1>2, <1>7, SamePrefix
    <2> QED
      BY <2>1, <2>2
  <1>5. MembersAfter(l2, n) = MembersOf(l)
    <2> HIDE DEF n
    <2>1. n \in Nat /\ n \in 1 .. n
      BY <1>2
    <2>2. MembersAfter(l2, n) = MembersAfter(l, n)
      BY <1>7, <2>1, SamePrefix
    <2>4. MembersOf(l) = MembersAfter(l, n)
      BY DEF MembersOf, n
    <2> QED
      BY <2>2, <2>4
  <1>6. CASE d \in MembersOf(l)
    <2>1. Fits(l2, n + 1)
      <3>1. l2[n + 1].prev = Hash(l2[n])
        BY <1>2, <1>3 DEF BuildOn, HeadOf
      <3>2. l2[n + 1].body.type = "remove" /\ l2[n + 1].body.by = d
        BY <1>3 DEF BuildOn, RemoveBody
      <3>3. n + 1 - 1 = n
        BY <1>2
      <3> QED
        BY <1>5, <1>6, <3>1, <3>2, <3>3 DEF Fits, Allowed
    <2>2. n + 1 = Accepted(l2)
      <3>1. n + 1 \in 1 .. Len(l2) /\ \A i \in 2 .. n + 1 : Fits(l2, i)
        <4>1. \A i \in 2 .. n + 1 : i \in 2 .. n \/ i = n + 1
          BY <1>2
        <4> QED
          BY <1>2, <1>3, <1>4, <2>1, <4>1
      <3>2. ~(n + 1 < Len(l2))
        BY <1>2, <1>3
      <3> HIDE DEF n, e
      <3> QED
        BY <1>3, <3>1, <3>2, AcceptedUnique DEF Log
    <2>3. MembersAfter(l2, n + 1) = MembersAfter(l2, n) \ {t}
      <3>1. \A x : ~Admits(l2[n + 1].body, x) /\ (Expels(l2[n + 1].body, x) <=> x = t)
        BY <1>3 DEF BuildOn, RemoveBody, Admits, Expels
      <3>2. ASSUME NEW x \in Device
            PROVE  x \in MembersAfter(l2, n + 1) <=> x \in MembersAfter(l2, n) /\ x # t
        <4>1. \A j \in 1 .. n + 1 : j \in 1 .. n \/ j = n + 1
          BY <1>2
        <4>2. \A j \in 1 .. n : \A k \in j + 1 .. n + 1 : k \in j + 1 .. n \/ k = n + 1
          BY <1>2
        <4>3. \A j \in 1 .. n : /\ j \in 1 .. n + 1
                                /\ n + 1 \in j + 1 .. n + 1
                                /\ \A k \in j + 1 .. n : k \in j + 1 .. n + 1
          BY <1>2
        <4>4. ASSUME x \in MembersAfter(l2, n + 1) PROVE x \in MembersAfter(l2, n) /\ x # t
          <5>1. PICK j \in 1 .. n + 1 : /\ Admits(l2[j].body, x)
                                        /\ \A k \in j + 1 .. n + 1 : ~Expels(l2[k].body, x)
            BY <4>4 DEF MembersAfter
          <5> QED
            BY <3>1, <4>1, <4>3, <5>1 DEF MembersAfter
        <4>5. ASSUME x \in MembersAfter(l2, n), x # t PROVE x \in MembersAfter(l2, n + 1)
          <5>1. PICK j \in 1 .. n : /\ Admits(l2[j].body, x)
                                    /\ \A k \in j + 1 .. n : ~Expels(l2[k].body, x)
            BY <4>5 DEF MembersAfter
          <5>2. j \in 1 .. n + 1 /\ \A k \in j + 1 .. n + 1 : ~Expels(l2[k].body, x)
            BY <3>1, <4>2, <4>3, <4>5, <5>1
          <5> QED
            BY <5>1, <5>2 DEF MembersAfter
        <4> QED
          BY <4>4, <4>5
      <3> QED
        BY <3>2 DEF MembersAfter
    <2> QED
      BY <1>5, <2>2, <2>3 DEF MembersOf
  <1>8. CASE d \notin MembersOf(l)
    <2>1. ~Fits(l2, n + 1)
      <3>1. l2[n + 1].body.type = "remove" /\ l2[n + 1].body.by = d
        BY <1>3 DEF BuildOn, RemoveBody
      <3>2. n + 1 - 1 = n
        BY <1>2
      <3> QED
        BY <1>5, <1>8, <3>1, <3>2 DEF Fits, Allowed
    <2>2. n = Accepted(l2)
      <3>1. n \in 1 .. Len(l2)
        BY <1>2, <1>3
      <3> QED
        BY <1>3, <1>4, <2>1, <3>1, AcceptedUnique DEF Log
    <2> QED
      BY <1>5, <1>8, <2>2 DEF MembersOf
  <1> QED
    BY <1>6, <1>8

-----------------------------------------------------------------------------
(* The invariant is inductive.                                             *)

LEMMA KeyInit == Init => KeyInv
  <1> SUFFICES ASSUME NEW l \in Limits, NEW first, first = l.first, InitFrom(first)
               PROVE  KeyInv
    BY DEF Init
  <1> DEFINE k == [key |-> FirstKey(first), members |-> MembersOf(first),
                   seen |-> Entries(first, Len(first)), clean |-> TRUE]
  <1>1. OfRelay = All(first) /\ made = {k}
    BY DEF InitFrom, OfRelay, All
  <1>2. All(<<>>) = {} /\ Pushed(<<>>, 0) = {} /\ Len(<<>>) = 0
    BY EmptySeq DEF All, Entries, Pushed
  <1>3. k.seen = All(first) /\ k.key = FirstKey(first) /\ k.members = MembersOf(first)
    BY DEF All
  <1>4. MadeOK(OfRelay, made)
    BY <1>1, <1>3 DEF MadeOK, Traced
  <1>5. ASSUME NEW d \in Device PROVE DeviceOK(d)
    <2>1. /\ down[d] = <<>> /\ up[d] = <<>> /\ draft[d] = <<>> /\ revoking[d] = None
          /\ mailbox[d] = None /\ log[d] \in {first, <<>>}
          /\ key[d] # None => d \in MembersOf(first) /\ key[d] = FirstKey(first)
      BY <1>5 DEF InitFrom
    <2>2. LogOK(OfRelay, d, log[d], down[d]) /\ LogOK(OfRelay, d, draft[d], down[d])
      BY <1>1, <1>2, <2>1 DEF LogOK, Traced
    <2>3. KeyOK(OfRelay, made, d, key[d], down[d])
      <3>1. Fresh(k, Pushed(down[d], 0))
        BY <1>2, <2>1 DEF Fresh
      <3> HIDE DEF k
      <3> QED
        BY <1>1, <1>3, <2>1, <3>1 DEF KeyOK, Due
    <2>4. QueueOK(OfRelay, made, d, down[d]) /\ AskedOK(OfRelay, made, d, up[d])
      BY <1>2, <2>1 DEF QueueOK, AskedOK
    <2> QED
      BY <2>1, <2>2, <2>3, <2>4 DEF DeviceOK, RevokingOK, MailOK
  <1> QED
    BY <1>4, <1>5 DEF KeyInv

\* What a device keeps when its queue does not grow.
LEMMA DeviceKept ==
    ASSUME TypeOK, KeyInv, OfRelay \subseteq OfRelay', made \subseteq made', NEW x \in Device,
           \/ down'[x] = down[x]
           \/ down'[x] = <<>>
           \/ down[x] # <<>> /\ down'[x] = Tail(down[x])
    PROVE  /\ \A l : l \in {log[x], draft[x]} => LogOK(OfRelay', x, l, down'[x])
           /\ KeyOK(OfRelay', made', x, key[x], down'[x])
           /\ RevokingOK(OfRelay', made', x, revoking[x], down'[x])
           /\ QueueOK(OfRelay', made', x, down'[x])
           /\ AskedOK(OfRelay', made', x, up[x])
           /\ MailOK(OfRelay', made', mailbox[x])
  <1>1. DeviceOK(x) /\ down[x] \in Seq(S2c)
    BY DEF KeyInv, TypeOK, NetTypeOK
  <1> QED
    BY <1>1, Kept DEF DeviceOK

LEMMA Small ==
    ASSUME NEW R, NEW M, NEW d
    PROVE  /\ \A q : LogOK(R, d, <<>>, q)
           /\ \A q : RevokingOK(R, M, d, None, q)
           /\ MailOK(R, M, None)
           /\ AskedOK(R, M, d, <<>>)
           /\ QueueOK(R, M, d, <<>>)
  <1>1. All(<<>>) = {} /\ Len(<<>>) = 0
    BY EmptySeq DEF All, Entries
  <1> QED
    BY <1>1 DEF LogOK, Traced, RevokingOK, MailOK, AskedOK, QueueOK

\* A device asks for more.
LEMMA AskedMore ==
    ASSUME NEW R, NEW M, NEW d, NEW u \in Seq(C2s), NEW v \in Seq(C2s),
           AskedOK(R, M, d, u), AskedOK(R, M, d, v)
    PROVE  AskedOK(R, M, d, u \o v)
  <1> SUFFICES ASSUME NEW p \in 1 .. Len(u \o v)
               PROVE  \/ \E i \in 1 .. Len(u) : (u \o v)[p] = u[i]
                      \/ \E i \in 1 .. Len(v) : (u \o v)[p] = v[i]
    BY DEF AskedOK
  <1>1. Len(u) \in Nat /\ Len(v) \in Nat /\ Len(u \o v) = Len(u) + Len(v)
    BY ConcatProperties
  <1>2. CASE p <= Len(u)
    BY <1>1, <1>2, ConcatProperties
  <1>3. CASE ~(p <= Len(u))
    <2>1. p - Len(u) \in 1 .. Len(v) /\ (u \o v)[p] = v[p - Len(u)]
      BY <1>1, <1>3, ConcatProperties
    <2> QED
      BY <2>1
  <1> QED
    BY <1>2, <1>3

LEMMA AskedLess ==
    ASSUME NEW R, NEW M, NEW d, NEW u \in Seq(C2s), u # <<>>, AskedOK(R, M, d, u)
    PROVE  AskedOK(R, M, d, Tail(u))
  <1>1. Len(u) \in Nat /\ Len(u) >= 1 /\ Len(Tail(u)) = Len(u) - 1
    BY EmptySeq, HeadTailProperties
  <1>2. \A p \in 1 .. Len(u) - 1 : p + 1 \in 1 .. Len(u) /\ Tail(u)[p] = u[p + 1]
    BY <1>1, HeadTailProperties
  <1> QED
    BY <1>1, <1>2 DEF AskedOK

LEMMA AskedOne ==
    ASSUME NEW R, NEW M, NEW d, NEW m \in C2s,
           m.type = "append" => By(d, m.entry),
           m.type = "wraps" => \A w \in m.wraps : Meant(R, M, w)
    PROVE  AskedOK(R, M, d, <<m>>) /\ <<m>> \in Seq(C2s)
  BY DEF AskedOK

\* What is pushed to a device is in the log of the relay and not its own.
LEMMA PushedAre ==
    ASSUME NEW R, NEW M, NEW d, NEW q \in Seq(S2c), QueueOK(R, M, d, q), NEW n \in Nat,
           NEW e \in Pushed(q, n)
    PROVE  e \in R /\ ~By(d, e)
  <1>1. PICK p \in n + 1 .. Len(q) : q[p].type = "appended" /\ e = q[p].entry
    BY DEF Pushed
  <1>2. p \in 1 .. Len(q)
    BY <1>1
  <1>3. MessageOK(R, M, d, q[p], Pushed(q, p))
    BY <1>2 DEF QueueOK
  <1> QED
    BY <1>1, <1>3 DEF MessageOK, Carried

\* The message at the head of the queue to a device.
LEMMA HeadOK ==
    ASSUME NEW R, NEW M, NEW d, NEW q \in Seq(S2c), q # <<>>, QueueOK(R, M, d, q)
    PROVE  MessageOK(R, M, d, Head(q), Pushed(Tail(q), 0))
  <1>1. Len(q) \in Nat /\ Len(q) >= 1 /\ Head(q) = q[1]
    BY EmptySeq, HeadTailProperties
  <1>2. Pushed(Tail(q), 0) = Pushed(q, 0 + 1)
    BY PushedShrinks
  <1> QED
    BY <1>1, <1>2 DEF QueueOK

\* The key a device has after it has tried the wrap that came.
LEMMA KeyTaken ==
    ASSUME TypeOK, KeyInv, NEW d \in Device, down[d] # <<>>, NEW l,
           Head(down[d]).type \in {"wrap", "welcome"}
    PROVE  KeyOK(OfRelay, made, d, KeyFrom(d, Head(down[d]).wrap, l), Tail(down[d]))
  <1> DEFINE w == Head(down[d]).wrap
  <1>1. down[d] \in Seq(S2c) /\ DeviceOK(d)
    BY DEF KeyInv, TypeOK, NetTypeOK
  <1>2. CASE ~Takes(d, w, l)
    <2>1. KeyOK(OfRelay, made, d, key[d], Tail(down[d]))
      BY <1>1, Kept DEF DeviceOK
    <2> QED
      BY <1>2, <2>1 DEF KeyFrom
  <1>3. CASE Takes(d, w, l)
    <2>1. w # None /\ w.to = d /\ w.from \in w.members
      BY <1>3 DEF Takes, WrapFits
    <2>2. PICK k \in made : Wanted(OfRelay, k, w) /\ Fresh(k, Pushed(Tail(down[d]), 0))
      BY <1>1, <2>1, HeadOK DEF DeviceOK, MessageOK
    <2> QED
      BY <1>3, <2>1, <2>2 DEF KeyFrom, KeyOK, Wanted
  <1> QED
    BY <1>2, <1>3

\* A step of a device concerns no other and leaves the relay alone.
LEMMA Aside ==
    ASSUME TypeOK, NEW d \in Device, DeviceStep(d)
    PROVE  /\ relayLog' = relayLog /\ mailbox' = mailbox /\ made \subseteq made'
           /\ \A x \in Device \ {d} : /\ log'[x] = log[x] /\ draft'[x] = draft[x]
                                      /\ key'[x] = key[x] /\ revoking'[x] = revoking[x]
                                      /\ up'[x] = up[x] /\ down'[x] = down[x]
  <1> USE DEF TypeOK, NetTypeOK, JoinTypeOK, DeviceTypeOK
  <1>1. /\ relayLog' = relayLog /\ mailbox' = mailbox /\ made \subseteq made'
    BY DEF DeviceStep, Connect, Join, Invite, GuestGetsLog, GuestGivesUp, GuestGetsAnswer,
       GuestSkips, Break, HearWelcome, HearAppended, HearWrap, RevokeSends, RevokeFails,
       RevokeAdopts, Restart, relayVars, history
  <1>2. \A x \in Device \ {d} : log'[x] = log[x] /\ key'[x] = key[x] /\ revoking'[x] = revoking[x]
    BY DEF DeviceStep, Connect, Join, Invite, GuestGetsLog, GuestGivesUp, GuestGetsAnswer,
       GuestSkips, Break, HearWelcome, HearAppended, HearWrap, RevokeSends, RevokeFails,
       RevokeAdopts, Restart, deviceVars, Joined
  <1>3. \A x \in Device \ {d} : draft'[x] = draft[x]
    BY DEF DeviceStep, Connect, Join, Invite, GuestGetsLog, GuestGivesUp, GuestGetsAnswer,
       GuestSkips, Break, HearWelcome, HearAppended, HearWrap, RevokeSends, RevokeFails,
       RevokeAdopts, Restart, joinVars, Joined, Dropped
  <1>4. \A x \in Device \ {d} : up'[x] = up[x] /\ down'[x] = down[x]
    BY DEF DeviceStep, Connect, Join, Invite, GuestGetsLog, GuestGivesUp, GuestGetsAnswer,
       GuestSkips, Break, HearWelcome, HearAppended, HearWrap, RevokeSends, RevokeFails,
       RevokeAdopts, Restart, netVars, ToRelay, Consume, Sever
  <1> QED
    BY <1>1, <1>2, <1>3, <1>4

\* A step of d that makes no key keeps all if it keeps what is said of d.
LEMMA AllButOne ==
    ASSUME TypeOK, KeyInv, NEW d \in Device, DeviceStep(d),
           MadeOK(OfRelay', made'), DeviceOK(d)'
    PROVE  KeyInv'
  <1>1. OfRelay' = OfRelay /\ made \subseteq made'
    BY Aside DEF OfRelay
  <1>2. ASSUME NEW x \in Device \ {d} PROVE DeviceOK(x)'
    BY <1>1, <1>2, Aside, DeviceKept DEF DeviceOK
  <1> QED
    BY <1>2 DEF KeyInv

\* How what is said of d follows from what has changed of it.
LEMMA StepOf ==
    ASSUME TypeOK, KeyInv, NEW d \in Device, DeviceStep(d), made' = made,
           \/ down'[d] = down[d]
           \/ down'[d] = <<>>
           \/ down[d] # <<>> /\ down'[d] = Tail(down[d]),
           log'[d] \in {log[d], draft[d], <<>>} \/ LogOK(OfRelay, d, log'[d], down'[d]),
           draft'[d] \in {draft[d], <<>>} \/ LogOK(OfRelay, d, draft'[d], down'[d]),
           key'[d] = key[d] \/ KeyOK(OfRelay, made, d, key'[d], down'[d]),
           revoking'[d] \in {revoking[d], None},
           up'[d] \in {up[d], <<>>} \/ AskedOK(OfRelay, made, d, up'[d])
    PROVE  KeyInv'
  <1>1. OfRelay' = OfRelay /\ mailbox' = mailbox
    BY Aside DEF OfRelay
  <1>2. /\ \A l : l \in {log[d], draft[d]} => LogOK(OfRelay', d, l, down'[d])
        /\ KeyOK(OfRelay', made', d, key[d], down'[d])
        /\ RevokingOK(OfRelay', made', d, revoking[d], down'[d])
        /\ QueueOK(OfRelay', made', d, down'[d])
        /\ AskedOK(OfRelay', made', d, up[d])
        /\ MailOK(OfRelay', made', mailbox[d])
    BY <1>1, DeviceKept
  <1>3. LogOK(OfRelay', d, log'[d], down'[d]) /\ LogOK(OfRelay', d, draft'[d], down'[d])
    BY <1>1, <1>2, Small
  <1>4. KeyOK(OfRelay', made', d, key'[d], down'[d])
    BY <1>1, <1>2
  <1>5. RevokingOK(OfRelay', made', d, revoking'[d], down'[d])
    BY <1>2, Small
  <1>6. AskedOK(OfRelay', made', d, up'[d])
    BY <1>1, <1>2, Small
  <1>7. DeviceOK(d)'
    BY <1>1, <1>2, <1>3, <1>4, <1>5, <1>6 DEF DeviceOK
  <1>8. MadeOK(OfRelay', made')
    BY <1>1 DEF KeyInv
  <1> QED
    BY <1>7, <1>8, AllButOne

\* Nothing is sent, or one message that keeps the invariant.
LEMMA AskedNext ==
    ASSUME TypeOK, KeyInv, NEW d \in Device, NEW m \in C2s, ToRelay(d, <<m>>),
           m.type = "append" => By(d, m.entry),
           m.type = "wraps" => \A w \in m.wraps : Meant(OfRelay, made, w)
    PROVE  AskedOK(OfRelay, made, d, up'[d])
  <1>1. up[d] \in Seq(C2s) /\ up'[d] = up[d] \o <<m>> /\ AskedOK(OfRelay, made, d, up[d])
    BY DEF ToRelay, KeyInv, DeviceOK, TypeOK, NetTypeOK
  <1>2. AskedOK(OfRelay, made, d, <<m>>) /\ <<m>> \in Seq(C2s)
    BY AskedOne
  <1> QED
    BY <1>1, <1>2, AskedMore

LEMMA SessionStep ==
    ASSUME TypeOK, KeyInv, NEW d \in Device,
           \/ Connect(d) \/ GuestGetsAnswer(d) \/ GuestGivesUp(d) \/ GuestSkips(d)
           \/ \E g \in Grant : Join(d, g) \/ Invite(d, g)
           \/ Break(d) \/ Restart(d) \/ RevokeFails(d)
    PROVE  KeyInv'
  <1> USE DEF TypeOK, NetTypeOK, JoinTypeOK, DeviceTypeOK
  <1>0. DeviceStep(d)
    BY DEF DeviceStep
  <1>1. CASE Connect(d)
    <2>1. Hello(log[d]) \in C2s /\ [type |-> "getlog"] \in C2s
      BY LenProperties DEF Hello, C2s, Log
    <2>2. AskedOK(OfRelay, made, d, up'[d])
      <3>1. CASE ToRelay(d, <<Hello(log[d])>>)
        BY <2>1, <3>1, AskedNext DEF Hello
      <3>2. CASE ToRelay(d, <<[type |-> "getlog"]>>)
        BY <2>1, <3>2, AskedNext
      <3> QED
        BY <1>1, <3>1, <3>2 DEF Connect
    <2>3. made' = made /\ down'[d] = down[d] /\ log'[d] = log[d] /\ draft'[d] = draft[d]
          /\ key'[d] = key[d] /\ revoking'[d] = revoking[d]
      BY <1>1 DEF Connect, joinVars, deviceVars, history
    <2> QED
      BY <1>0, <2>2, <2>3, StepOf
  <1>2. CASE GuestGetsAnswer(d)
    <2>1. Hello(draft[d]) \in C2s /\ ToRelay(d, <<Hello(draft[d])>>)
      BY <1>2, LenProperties DEF GuestGetsAnswer, Hello, C2s, Log
    <2>2. AskedOK(OfRelay, made, d, up'[d])
      BY <2>1, AskedNext DEF Hello
    <2>3. made' = made /\ log'[d] = draft[d] /\ draft'[d] = <<>> /\ key'[d] = key[d]
          /\ revoking'[d] = revoking[d] /\ down[d] # <<>> /\ down'[d] = Tail(down[d])
      BY <1>2 DEF GuestGetsAnswer, Joined, Consume, Received, history
    <2> QED
      BY <1>0, <2>2, <2>3, StepOf
  <1>3. CASE GuestGivesUp(d)
    <2>1. made' = made /\ log'[d] = log[d] /\ draft'[d] = draft[d] /\ key'[d] = key[d]
          /\ revoking'[d] = revoking[d] /\ down'[d] = <<>> /\ up'[d] = <<>>
      BY <1>3 DEF GuestGivesUp, Sever, Dropped, deviceVars, history
    <2> QED
      BY <1>0, <2>1, StepOf
  <1>4. CASE GuestSkips(d)
    <2>1. made' = made /\ log'[d] = log[d] /\ draft'[d] = draft[d] /\ key'[d] = key[d]
          /\ revoking'[d] = revoking[d] /\ down[d] # <<>> /\ down'[d] = Tail(down[d])
          /\ up'[d] = up[d]
      BY <1>4 DEF GuestSkips, Consume, joinVars, deviceVars, history
    <2> QED
      BY <1>0, <2>1, StepOf
  <1>5. ASSUME NEW g \in Grant, Join(d, g) \/ Invite(d, g) PROVE KeyInv'
    <2>1. made' = made /\ log'[d] = log[d] /\ draft'[d] = draft[d] /\ key'[d] = key[d]
          /\ revoking'[d] = revoking[d] /\ down'[d] = down[d] /\ up'[d] = up[d]
      BY <1>5 DEF Join, Invite, netVars, joinVars, deviceVars, history
    <2> QED
      BY <1>0, <2>1, StepOf
  <1>6. CASE Break(d)
    <2>1. made' = made /\ down'[d] = <<>> /\ up'[d] = <<>> /\ key'[d] = key[d]
          /\ revoking'[d] = revoking[d]
      BY <1>6 DEF Break, Sever, Joined, deviceVars, history
    <2>2. log'[d] \in {log[d], draft[d]} /\ draft'[d] \in {draft[d], <<>>}
      BY <1>6 DEF Break, Joined, Dropped, joinVars, deviceVars
    <2> QED
      BY <1>0, <2>1, <2>2, StepOf
  <1>7. CASE Restart(d)
    <2>1. made' = made /\ log'[d] = <<>> /\ draft'[d] = <<>> /\ key'[d] = key[d]
          /\ revoking'[d] = None /\ down'[d] = <<>> /\ up'[d] = <<>>
      BY <1>7 DEF Restart, Sever, history
    <2> QED
      BY <1>0, <2>1, StepOf
  <1>8. CASE RevokeFails(d)
    <2>1. made' = made /\ log'[d] = log[d] /\ draft'[d] = draft[d] /\ key'[d] = key[d]
          /\ revoking'[d] = None /\ down'[d] = down[d] /\ up'[d] = up[d]
      BY <1>8 DEF RevokeFails, netVars, joinVars
    <2> QED
      BY <1>0, <2>1, StepOf
  <1> QED
    BY <1>1, <1>2, <1>3, <1>4, <1>5, <1>6, <1>7, <1>8

LEMMA GuestGetsLogStep ==
    ASSUME TypeOK, KeyInv, NEW d \in Device, GuestGetsLog(d)
    PROVE  KeyInv'
  <1> DEFINE m == Head(down[d])
             add == BuildOn(m.entries, AddBody(d, invites[code[d]], code[d]))
  <1>1. DeviceStep(d) /\ DeviceOK(d) /\ down[d] # <<>> /\ m.type = "log" /\ m \in S2c
    BY HeardType DEF TypeOK, DeviceStep, KeyInv, GuestGetsLog, Received
  <1>2. m.entries \in Log \ {<<>>} /\ code[d] \in Grant /\ invites[code[d]] \in Device
    BY <1>1 DEF S2c, GuestGetsLog, TypeOK, RelayTypeOK, JoinTypeOK
  <1>3. add \in Entry /\ By(d, add)
    BY <1>2, BodyType, BuildType, BuiltByIt DEF Log
  <1>4. Carried(m) = All(m.entries)
    BY <1>1 DEF Carried
  <1>5. MessageOK(OfRelay, made, d, m, Pushed(Tail(down[d]), 0))
    BY <1>1, HeadOK DEF TypeOK, NetTypeOK, DeviceOK
  <1>6. All(Append(m.entries, add)) = All(m.entries) \cup {add}
    BY <1>2, <1>3, AllAppend
  <1>7. /\ made' = made /\ down'[d] = Tail(down[d]) /\ log'[d] = log[d]
        /\ draft'[d] = Append(m.entries, add) /\ key'[d] = key[d] /\ revoking'[d] = revoking[d]
        /\ ToRelay(d, <<[type |-> "append", entry |-> add]>>)
    BY DEF GuestGetsLog, Consume, deviceVars, history, TypeOK, NetTypeOK, JoinTypeOK, DeviceTypeOK
  <1> HIDE DEF m, add
  <1>8. QueueOK(OfRelay, made, d, Tail(down[d])) /\ Tail(down[d]) \in Seq(S2c)
    BY <1>1, Kept, HeadTailProperties DEF DeviceOK, TypeOK, NetTypeOK
  <1>9. LogOK(OfRelay, d, draft'[d], down'[d])
    <2>1. Traced(OfRelay, d, All(draft'[d]))
      BY <1>3, <1>4, <1>5, <1>6, <1>7 DEF Traced, MessageOK
    <2>2. All(m.entries) \cap Pushed(down'[d], 0) = {}
      BY <1>4, <1>5, <1>7 DEF MessageOK
    <2>3. add \notin Pushed(down'[d], 0)
      BY <1>3, <1>7, <1>8, PushedAre
    <2> QED
      BY <1>6, <1>7, <2>1, <2>2, <2>3 DEF LogOK
  <1>10. AskedOK(OfRelay, made, d, up'[d])
    <2>1. [type |-> "append", entry |-> add] \in C2s
      BY <1>3 DEF C2s
    <2> QED
      BY <1>3, <1>7, <2>1, AskedNext
  <1> QED
    BY <1>1, <1>7, <1>9, <1>10, StepOf

LEMMA HearWelcomeStep ==
    ASSUME TypeOK, KeyInv, NEW d \in Device, HearWelcome(d)
    PROVE  KeyInv'
  <1> DEFINE m == Head(down[d])
             l == IF m.tail = <<>> THEN log[d] ELSE m.tail
  <1>1. DeviceStep(d) /\ DeviceOK(d) /\ down[d] # <<>> /\ m.type = "welcome"
    BY DEF DeviceStep, KeyInv, HearWelcome, Received
  <1>2. /\ made' = made /\ down'[d] = Tail(down[d]) /\ log'[d] = l
        /\ draft'[d] = draft[d] /\ key'[d] = KeyFrom(d, m.wrap, l) /\ revoking'[d] = revoking[d]
        /\ up'[d] = up[d]
    BY DEF HearWelcome, Consume, joinVars, history, TypeOK, NetTypeOK, JoinTypeOK, DeviceTypeOK
  <1>3. MessageOK(OfRelay, made, d, m, Pushed(Tail(down[d]), 0)) /\ Carried(m) = All(m.tail)
    BY <1>1, HeadOK DEF TypeOK, NetTypeOK, DeviceOK, Carried
  <1>4. KeyOK(OfRelay, made, d, KeyFrom(d, m.wrap, l), Tail(down[d]))
    BY <1>1, KeyTaken
  <1> HIDE DEF m
  <1>5. CASE m.tail = <<>>
    BY <1>1, <1>2, <1>4, <1>5, StepOf
  <1>6. CASE m.tail # <<>>
    <2>1. LogOK(OfRelay, d, m.tail, Tail(down[d]))
      BY <1>3 DEF LogOK, Traced, MessageOK
    <2> QED
      BY <1>1, <1>2, <1>4, <1>6, <2>1, StepOf
  <1> QED
    BY <1>5, <1>6

LEMMA HearWrapStep ==
    ASSUME TypeOK, KeyInv, NEW d \in Device, HearWrap(d)
    PROVE  KeyInv'
  <1>1. DeviceStep(d) /\ down[d] # <<>> /\ Head(down[d]).type = "wrap"
    BY DEF DeviceStep, HearWrap, Received
  <1>2. /\ made' = made /\ down'[d] = Tail(down[d]) /\ log'[d] = log[d]
        /\ draft'[d] = draft[d] /\ key'[d] = KeyFrom(d, Head(down[d]).wrap, log[d])
        /\ revoking'[d] = revoking[d] /\ up'[d] = up[d]
    BY DEF HearWrap, Consume, joinVars, history, TypeOK, NetTypeOK, JoinTypeOK, DeviceTypeOK
  <1>3. KeyOK(OfRelay, made, d, KeyFrom(d, Head(down[d]).wrap, log[d]), Tail(down[d]))
    BY <1>1, KeyTaken
  <1> QED
    BY <1>1, <1>2, <1>3, StepOf

LEMMA HearAppendedStep ==
    ASSUME TypeOK, KeyInv, NEW d \in Device, HearAppended(d)
    PROVE  KeyInv'
  <1> DEFINE e == Head(down[d]).entry
             l == Append(log[d], e)
             ws == Wraps(d, {e.body.subject}, key[d], MembersOf(l))
  <1>1. DeviceStep(d) /\ DeviceOK(d) /\ down[d] # <<>> /\ Head(down[d]).type = "appended"
    BY DEF DeviceStep, KeyInv, HearAppended, Received
  <1>2. e \in Entry
    BY <1>1, HeardType DEF S2c, TypeOK
  <1>3. /\ made' = made /\ down'[d] = Tail(down[d]) /\ log'[d] = l
        /\ draft'[d] = draft[d] /\ key'[d] = key[d] /\ revoking'[d] = revoking[d]
        /\ \/ up'[d] = up[d]
           \/ /\ e.body.type = "add" /\ key[d] # None
              /\ ToRelay(d, <<[type |-> "wraps", wraps |-> ws]>>)
    BY DEF HearAppended, Consume, joinVars, history, TypeOK, NetTypeOK, JoinTypeOK, DeviceTypeOK
  <1>4. MessageOK(OfRelay, made, d, Head(down[d]), Pushed(Tail(down[d]), 0))
        /\ Carried(Head(down[d])) = {e}
    BY <1>1, HeadOK DEF TypeOK, NetTypeOK, DeviceOK, Carried
  <1>5. e \in OfRelay /\ e \in Pushed(down[d], 0) /\ e \notin Pushed(Tail(down[d]), 0)
    <2>1. Len(down[d]) \in Nat /\ Len(down[d]) >= 1 /\ Head(down[d]) = down[d][1]
      BY <1>1, EmptySeq, HeadTailProperties DEF TypeOK, NetTypeOK
    <2>2. e \in Pushed(down[d], 0)
      BY <1>1, <2>1 DEF Pushed
    <2> QED
      BY <1>4, <2>2 DEF MessageOK
  <1>6. All(l) = All(log[d]) \cup {e}
    BY <1>2, AllAppend DEF TypeOK, DeviceTypeOK
  <1> HIDE DEF e, l
  <1>7. LogOK(OfRelay, d, log'[d], down'[d])
    <2>1. LogOK(OfRelay, d, log[d], Tail(down[d]))
      BY <1>1, Kept DEF DeviceOK, TypeOK, NetTypeOK
    <2> QED
      BY <1>3, <1>5, <1>6, <2>1 DEF LogOK, Traced
  <1>8. ASSUME e.body.type = "add", key[d] # None, ToRelay(d, <<[type |-> "wraps", wraps |-> ws]>>)
        PROVE  AskedOK(OfRelay, made, d, up'[d])
    <2>1. PICK k \in made : k.key = key[d] /\ Fresh(k, Pushed(down[d], 0))
      BY <1>1, <1>8 DEF DeviceOK, KeyOK
    <2>2. Due(OfRelay, k, e.body.subject)
      <3>1. Admits(e.body, e.body.subject) /\ Author(e.body) = e.body.subject
        BY <1>8 DEF Admits, Author
      <3>2. e \in k.seen => e.body.subject = k.key.by
        BY <1>5, <2>1, <3>1 DEF Fresh, By
      <3> QED
        BY <1>5, <3>1, <3>2 DEF Due
    <2>3. \A w \in ws : Meant(OfRelay, made, w)
      BY <2>1, <2>2 DEF Wraps, Meant, Wanted
    <2>4. [type |-> "wraps", wraps |-> ws] \in C2s
      <3>1. e.body.subject \in Device /\ key[d] \in GroupKey
        BY <1>2, <1>8 DEF Entry, Body, TypeOK, DeviceTypeOK
      <3>2. ws \subseteq Wrap
        BY <3>1, WrapsType DEF MembersOf, MembersAfter
      <3> QED
        BY <3>2 DEF C2s
    <2> HIDE DEF ws
    <2> QED
      BY <1>8, <2>3, <2>4, AskedNext
  <1> QED
    BY <1>1, <1>3, <1>7, <1>8, StepOf

LEMMA RevokeAdoptsStep ==
    ASSUME TypeOK, KeyInv, NEW d \in Device, RevokeAdopts(d)
    PROVE  KeyInv'
  <1> DEFINE r == revoking[d]
  <1>1. DeviceStep(d) /\ DeviceOK(d) /\ r # None /\ r \in Revocation /\ log[d] \in Log
    BY DEF DeviceStep, KeyInv, RevokeAdopts, TypeOK, DeviceTypeOK
  <1>2. /\ made' = made /\ down'[d] = down[d] /\ draft'[d] = draft[d] /\ up'[d] = up[d]
        /\ revoking'[d] = None
        /\ \/ log'[d] = log[d] \o r.entries /\ key'[d] = r.key
           \/ log'[d] = log[d] /\ key'[d] = key[d]
    BY DEF RevokeAdopts, netVars, joinVars, TypeOK, DeviceTypeOK
  <1>3. PICK k \in made : k.key = r.key /\ k.key.by = d /\ Fresh(k, Pushed(down[d], 0))
    BY <1>1 DEF DeviceOK, RevokingOK
  <1>4. KeyOK(OfRelay, made, d, r.key, down[d])
    BY <1>3 DEF KeyOK, Due
  <1>5. \A e \in All(r.entries) : By(d, e)
    BY <1>1 DEF DeviceOK, RevokingOK
  <1>6. All(log[d] \o r.entries) \subseteq All(log[d]) \cup All(r.entries)
    <2>1. r.entries \in Log
      BY <1>1 DEF Revocation
    <2> QED
      BY <1>1, <2>1, AllConcat
  <1>7. LogOK(OfRelay, d, log[d] \o r.entries, down[d])
    <2>1. LogOK(OfRelay, d, log[d], down[d]) /\ QueueOK(OfRelay, made, d, down[d])
          /\ down[d] \in Seq(S2c)
      BY <1>1 DEF DeviceOK, TypeOK, NetTypeOK
    <2>2. \A e \in Pushed(down[d], 0) : ~By(d, e)
      BY <2>1, PushedAre
    <2> QED
      BY <1>5, <1>6, <2>1, <2>2 DEF LogOK, Traced
  <1> HIDE DEF r
  <1> QED
    BY <1>1, <1>2, <1>4, <1>7, StepOf

\* The key is made for those who remain, and sent in order behind the entries; its
\* maker has seen nothing that is still on the way to it.
LEMMA RevokeSendsStep ==
    ASSUME TypeOK, KeyInv, NEW d \in Device, NEW t \in Device, RevokeSends(d, t)
    PROVE  KeyInv'
  <1> DEFINE l == log[d]
             remove == BuildOn(l, RemoveBody(d, t))
             l2 == Append(l, remove)
             new == [epoch |-> EpochOf(l) + 1, by |-> d, n |-> revokes[d] + 1]
             rotate == BuildOn(l2, EpochBody(d, EpochOf(l) + 1, MembersOf(l2)))
             wraps == Wraps(d, MembersOf(l2) \ {d}, new, MembersOf(l2))
             k == [key |-> new, members |-> MembersOf(l) \ {t}, seen |-> Entries(l, Accepted(l)),
                   clean |-> Accepted(l) = Len(l)]
             asks == <<[type |-> "append", entry |-> remove], [type |-> "append", entry |-> rotate]>>
             rest == IF wraps = {} THEN <<>> ELSE <<[type |-> "wraps", wraps |-> wraps]>>
  <1>1. DeviceStep(d) /\ DeviceOK(d) /\ OfRelay' = OfRelay
    BY Aside DEF DeviceStep, KeyInv, OfRelay
  <1>2. l \in Log /\ l # <<>> /\ revokes[d] \in Nat
    BY DEF RevokeSends, Verifies, TypeOK, DeviceTypeOK, BoundsTypeOK
  <1>3. remove \in Entry /\ EpochOf(l) \in Nat /\ By(d, remove)
    BY <1>2, BodyType, BuildType, BuiltByIt DEF Log
  <1>4. l2 \in Log /\ l2 # <<>> /\ MembersOf(l2) \in SUBSET Device
    BY <1>2, <1>3, AppendProperties DEF Log, MembersOf, MembersAfter
  <1>5. rotate \in Entry /\ By(d, rotate)
    <2>1. EpochBody(d, EpochOf(l) + 1, MembersOf(l2)) \in Body
      BY <1>3, <1>4, BodyType
    <2>2. rotate \in Entry
      BY <1>4, <2>1, BuildType DEF Log
    <2> QED
      BY <2>2, BuiltByIt
  <1>6. new \in GroupKey /\ wraps \subseteq Wrap /\ new.by = d
    <2>1. new \in GroupKey
      BY <1>2, <1>3 DEF GroupKey
    <2> HIDE DEF new
    <2>2. wraps \subseteq Wrap
      BY <1>4, <2>1, WrapsType
    <2> QED
      BY <2>1, <2>2 DEF new
  <1>7. /\ made' = made \cup {k} /\ down'[d] = down[d] /\ log'[d] = log[d]
        /\ draft'[d] = draft[d] /\ key'[d] = key[d]
        /\ revoking'[d] = [length |-> Len(l), entries |-> <<remove, rotate>>, key |-> new]
        /\ up'[d] = up[d] \o (asks \o rest)
    BY DEF RevokeSends, ToRelay, joinVars, TypeOK, NetTypeOK, JoinTypeOK, DeviceTypeOK
  <1> HIDE DEF l, remove, new
  <1>8. k.seen \subseteq All(l) /\ k.key = new /\ k.key.by = d
        /\ k.members = MembersOf(l) \ {t} /\ (k.clean <=> Accepted(l) = Len(l))
    <2>1. Accepted(l) \in 1 .. Len(l) /\ Len(l) \in Nat
      BY <1>2, AcceptedFits, EmptySeq DEF Log
    <2>2. \A i \in 1 .. Accepted(l) : i \in 1 .. Len(l)
      BY <2>1
    <2>3. Entries(l, Accepted(l)) \subseteq All(l)
      BY <2>2 DEF All, Entries
    <2> QED
      BY <1>6, <2>3
  <1>9. \A w \in wraps : Wanted(OfRelay, k, w)
    <2>0. Removes(l2, l, d, t)
      BY DEF remove, Removes
    <2> HIDE DEF k, l2
    <2>1. ASSUME k.clean, d \in MembersOf(l2) PROVE MembersOf(l2) = MembersOf(l) \ {t}
      <3>1. Accepted(l) = Len(l)
        BY <1>8, <2>1
      <3>2. l \in Log /\ l # <<>> /\ d \in MembersOf(l2)
        BY <1>2, <2>1
      <3> QED
        BY <2>0, <3>1, <3>2, RevokedMembers
    <2>2. ASSUME NEW x \in MembersOf(l2), d \in MembersOf(l2) PROVE Due(OfRelay, k, x)
      <3>1. CASE k.clean
        <4>2. MembersOf(l2) = MembersOf(l) \ {t}
          BY <2>1, <2>2, <3>1
        <4>3. k.members = MembersOf(l) \ {t}
          BY <1>8
        <4>1. x \in k.members
          BY <2>2, <4>2, <4>3
        <4> QED
          BY <4>1 DEF Due
      <3>2. CASE ~k.clean
        BY <3>2 DEF Due
      <3> QED
        BY <3>1, <3>2
    <2>3. \A w \in wraps : /\ w.key = new /\ w.to \in MembersOf(l2)
                           /\ w.from = d /\ w.members = MembersOf(l2)
      BY DEF Wraps
    <2> QED
      BY <1>8, <2>2, <2>3 DEF Wanted
  <1>10. DOMAIN asks = {1, 2} /\ Len(asks) = 2 /\ asks[1] = [type |-> "append", entry |-> remove]
         /\ asks[2] = [type |-> "append", entry |-> rotate] /\ asks \in Seq(C2s)
    BY <1>3, <1>5 DEF C2s
  <1>11. All(<<remove, rotate>>) = {remove, rotate}
    <2>1. Len(<<remove, rotate>>) = 2 /\ <<remove, rotate>>[1] = remove /\ <<remove, rotate>>[2] = rotate
      OBVIOUS
    <2>2. 1 .. 2 = {1, 2}
      OBVIOUS
    <2> HIDE DEF remove, rotate
    <2> QED
      BY <2>1, <2>2 DEF All, Entries
  <1> HIDE DEF l2, rotate, wraps, k, asks
  <1>12. rest \in Seq(C2s)
    <2>1. [type |-> "wraps", wraps |-> wraps] \in C2s
      BY <1>6 DEF C2s
    <2> QED
      BY <2>1, EmptySeq
  <1>13. /\ \A x : x \in {log[d], draft[d]} => LogOK(OfRelay', d, x, down'[d])
         /\ KeyOK(OfRelay', made', d, key[d], down'[d])
         /\ QueueOK(OfRelay', made', d, down'[d])
         /\ AskedOK(OfRelay', made', d, up[d])
         /\ MailOK(OfRelay', made', mailbox[d])
    BY <1>1, <1>7, DeviceKept
  <1>14. Traced(OfRelay, d, All(l)) /\ All(l) \cap Pushed(down[d], 0) = {}
    BY <1>1 DEF DeviceOK, LogOK, l
  <1>15. MadeOK(OfRelay', made')
    BY <1>1, <1>7, <1>8, <1>14 DEF KeyInv, MadeOK, Traced
  <1>16. RevokingOK(OfRelay', made', d, revoking'[d], down'[d])
    <2>1. Fresh(k, Pushed(down[d], 0))
      BY <1>8, <1>14 DEF Fresh
    <2>2. \A e \in All(revoking'[d].entries) : By(d, e)
      BY <1>3, <1>5, <1>7, <1>11
    <2> QED
      BY <1>7, <1>8, <2>1, <2>2 DEF RevokingOK
  <1>17. AskedOK(OfRelay', made', d, up'[d])
    <2>1. \A w \in wraps : Meant(OfRelay', made', w)
      BY <1>1, <1>7, <1>9 DEF Meant
    <2>2. AskedOK(OfRelay', made', d, asks)
      <3>1. \A p \in 1 .. Len(asks) : asks[p].type = "append" /\ By(d, asks[p].entry)
        BY <1>3, <1>5, <1>10
      <3> QED
        BY <3>1 DEF AskedOK
    <2>3. AskedOK(OfRelay', made', d, rest)
      <3>1. CASE wraps = {}
        BY <3>1, Small
      <3>2. CASE wraps # {}
        <4>1. [type |-> "wraps", wraps |-> wraps] \in C2s
          BY <1>6 DEF C2s
        <4> QED
          BY <2>1, <3>2, <4>1, AskedOne
      <3> QED
        BY <3>1, <3>2
    <2> HIDE DEF rest
    <2>4. AskedOK(OfRelay', made', d, asks \o rest) /\ asks \o rest \in Seq(C2s)
      BY <1>10, <1>12, <2>2, <2>3, AskedMore, ConcatProperties
    <2>5. up[d] \in Seq(C2s)
      BY DEF TypeOK, NetTypeOK
    <2> QED
      BY <1>7, <1>13, <2>4, <2>5, AskedMore
  <1>18. DeviceOK(d)'
    <2>1. log'[d] = log[d] /\ draft'[d] = draft[d] /\ key'[d] = key[d] /\ mailbox' = mailbox
      BY <1>1, <1>7, Aside
    <2> QED
      BY <1>13, <1>16, <1>17, <2>1 DEF DeviceOK
  <1> QED
    BY <1>1, <1>15, <1>18, AllButOne

\* What the relay sends keeps the invariant at every device, if every message does.
LEMMA SentOK ==
    ASSUME TypeOK, KeyInv, OfRelay \subseteq OfRelay', UNCHANGED <<deviceVars, draft, made>>,
           NEW to, down' = Sent(to),
           \A x \in Device \cap DOMAIN to :
               /\ to[x] \in S2c
               /\ MessageOK(OfRelay', made, x, to[x], {})
               /\ to[x].type = "appended" => to[x].entry \notin OfRelay
    PROVE  \A x \in Device :
               /\ LogOK(OfRelay', x, log'[x], down'[x])
               /\ LogOK(OfRelay', x, draft'[x], down'[x])
               /\ KeyOK(OfRelay', made', x, key'[x], down'[x])
               /\ RevokingOK(OfRelay', made', x, revoking'[x], down'[x])
               /\ QueueOK(OfRelay', made', x, down'[x])
  <1>0. log' = log /\ draft' = draft /\ key' = key /\ revoking' = revoking /\ made' = made
    BY DEF deviceVars
  <1> SUFFICES ASSUME NEW x \in Device
               PROVE  /\ LogOK(OfRelay', x, log[x], down'[x])
                      /\ LogOK(OfRelay', x, draft[x], down'[x])
                      /\ KeyOK(OfRelay', made, x, key[x], down'[x])
                      /\ RevokingOK(OfRelay', made, x, revoking[x], down'[x])
                      /\ QueueOK(OfRelay', made, x, down'[x])
    BY <1>0
  <1>1. DeviceOK(x) /\ down[x] \in Seq(S2c) /\ MadeOK(OfRelay, made)
    BY DEF KeyInv, TypeOK, NetTypeOK
  <1>2. \/ down'[x] = down[x]
        \/ x \in DOMAIN to /\ down'[x] = Append(down[x], to[x])
    BY DEF Sent
  <1>3. CASE down'[x] = down[x]
    BY <1>0, <1>3, DeviceKept
  <1>4. CASE x \in DOMAIN to /\ down'[x] = Append(down[x], to[x])
    <2>1. to[x] \in S2c /\ MessageOK(OfRelay', made, x, to[x], {})
          /\ (to[x].type = "appended" => to[x].entry \notin OfRelay)
      BY <1>4
    <2> QED
      BY <1>1, <1>4, <2>1, Queued DEF DeviceOK
  <1> QED
    BY <1>2, <1>3, <1>4

LEMMA RelayRestartStep ==
    ASSUME TypeOK, KeyInv, RelayRestart
    PROVE  KeyInv'
  <1>1. OfRelay' = OfRelay /\ made' = made
    BY DEF RelayRestart, OfRelay, history
  <1>2. ASSUME NEW x \in Device PROVE DeviceOK(x)'
    <2>1. /\ down'[x] = <<>> /\ up'[x] = <<>> /\ mailbox'[x] = None
          /\ log' = log /\ draft' = draft /\ key' = key /\ revoking' = revoking
      BY DEF RelayRestart, joinVars, deviceVars
    <2> QED
      BY <1>1, <2>1, DeviceKept, Small DEF DeviceOK
  <1> QED
    BY <1>1, <1>2 DEF KeyInv

LEMMA RelayReadsStep ==
    ASSUME TypeOK, KeyInv, NEW d \in Device, RelayReads(d)
    PROVE  KeyInv'
  <1> DEFINE m == Head(up[d])
  <1>1. /\ m \in C2s /\ m = up[d][1] /\ 1 \in 1 .. Len(up[d]) /\ up[d] \in Seq(C2s) /\ up[d] # <<>>
    BY EmptySeq, HeadTailProperties DEF RelayReads, TypeOK, NetTypeOK
  <1>2. /\ up'[d] = Tail(up[d]) /\ \A x \in Device \ {d} : up'[x] = up[x]
        /\ UNCHANGED <<deviceVars, draft, made>>
    BY DEF RelayReads, joinVars, TypeOK, NetTypeOK
  <1>3. \A x \in Device : DeviceOK(x)
    BY DEF KeyInv
  <1>4. MadeOK(OfRelay, made)
    BY DEF KeyInv
  <1>5. /\ m.type = "append" => By(d, m.entry)
        /\ m.type = "wraps" => \A w \in m.wraps : Meant(OfRelay, made, w)
    BY <1>1, <1>3 DEF DeviceOK, AskedOK
  \* What remains to be shown of a message: that the relay's log grows, and that
  \* what is sent and kept is in order.
  <1>6. ASSUME OfRelay \subseteq OfRelay', NEW to, down' = Sent(to),
               \A x \in Device \cap DOMAIN to :
                   /\ to[x] \in S2c
                   /\ MessageOK(OfRelay', made, x, to[x], {})
                   /\ to[x].type = "appended" => to[x].entry \notin OfRelay,
               \A x \in Device : mailbox'[x] \in {mailbox[x], None} \/ MailOK(OfRelay', made, mailbox'[x])
        PROVE  KeyInv'
    <2>1. \A x \in Device :
               /\ LogOK(OfRelay', x, log'[x], down'[x])
               /\ LogOK(OfRelay', x, draft'[x], down'[x])
               /\ KeyOK(OfRelay', made', x, key'[x], down'[x])
               /\ RevokingOK(OfRelay', made', x, revoking'[x], down'[x])
               /\ QueueOK(OfRelay', made', x, down'[x])
      BY <1>2, <1>6, SentOK
    <2>2. ASSUME NEW x \in Device PROVE MailOK(OfRelay', made', mailbox'[x])
      <3>1. MailOK(OfRelay, made, mailbox[x])
        BY <1>3 DEF DeviceOK
      <3> QED
        BY <1>2, <1>6, <3>1, MailGrows, Small
    <2>3. ASSUME NEW x \in Device PROVE AskedOK(OfRelay', made', x, up'[x])
      <3>1. AskedOK(OfRelay, made, x, up[x])
        BY <1>3 DEF DeviceOK
      <3>2. AskedOK(OfRelay', made', x, up[x])
        BY <1>2, <1>6, <3>1, MailGrows DEF AskedOK
      <3> QED
        BY <1>1, <1>2, <3>2, AskedLess
    <2>4. MadeOK(OfRelay', made')
      BY <1>2, <1>4, <1>6 DEF MadeOK, Traced
    <2> QED
      BY <2>1, <2>2, <2>3, <2>4 DEF KeyInv, DeviceOK
  <1>7. ASSUME relayLog' = relayLog, mailbox' = mailbox, down' = down PROVE KeyInv'
    <2>1. Sent([x \in {} |-> 0]) = down
      BY DEF Sent, TypeOK, NetTypeOK
    <2> QED
      BY <1>6, <1>7, <2>1 DEF OfRelay
  <1>8. CASE m.type = "hello" /\ HandleHello(d, m)
    <2>1. CASE ~Member(d)
      BY <1>7, <1>8, <2>1 DEF HandleHello
    <2>2. CASE Member(d)
      <3> DEFINE tail == SubSeq(relayLog, m.length + 1, Len(relayLog))
                 welcome == [type |-> "welcome", tail |-> tail, wrap |-> mailbox[d]]
      <3>1. /\ down' = Sent([x \in {d} |-> welcome])
            /\ mailbox' = [mailbox EXCEPT ![d] = None]
            /\ relayLog' = relayLog
        BY <1>8, <2>2 DEF HandleHello
      <3>2. m.length \in Nat /\ Len(relayLog) \in Nat /\ relayLog \in Log
        BY <1>1, <1>8, LenProperties DEF C2s, TypeOK, RelayTypeOK, Log
      <3>3. /\ tail \in Log
            /\ Len(tail) = IF m.length + 1 <= Len(relayLog) THEN Len(relayLog) - m.length ELSE 0
            /\ \A i \in 1 .. Len(relayLog) - m.length : tail[i] = relayLog[i + m.length]
        <4> HIDE DEF m
        <4> QED
          BY <3>2, TailOfLog
      <3> HIDE DEF tail, m
      <3>5. All(tail) \subseteq OfRelay
        <4>1. ASSUME NEW i \in 1 .. Len(tail) PROVE tail[i] \in OfRelay
          <5>1. i \in 1 .. Len(relayLog) - m.length /\ i + m.length \in 1 .. Len(relayLog)
            BY <3>2, <3>3
          <5> QED
            BY <3>3, <5>1 DEF OfRelay, All, Entries
        <4> QED
          BY <4>1 DEF All, Entries
      <3>6. welcome \in S2c /\ welcome.type = "welcome" /\ Carried(welcome) = All(tail)
            /\ welcome.wrap = mailbox[d]
        BY <3>3 DEF S2c, Carried, TypeOK, RelayTypeOK
      <3> HIDE DEF welcome
      <3>7. MessageOK(OfRelay', made, d, welcome, {})
        <4>1. MailOK(OfRelay, made, mailbox[d])
          BY <1>3 DEF DeviceOK
        <4>2. OfRelay' = OfRelay
          BY <3>1 DEF OfRelay
        <4> QED
          BY <3>5, <3>6, <4>1, <4>2 DEF MessageOK, MailOK, Meant, Fresh
      <3>8. OfRelay \subseteq OfRelay'
        BY <3>1 DEF OfRelay
      <3>9. \A x \in Device : mailbox'[x] \in {mailbox[x], None}
        BY <3>1 DEF TypeOK, RelayTypeOK
      <3> QED
        BY <1>6, <3>1, <3>6, <3>7, <3>8, <3>9
    <2> QED
      BY <2>1, <2>2
  <1>9. CASE m.type = "getlog" /\ HandleGetLog(d)
    <2> DEFINE reply == [type |-> "log", entries |-> relayLog]
    <2>1. down' = Sent([x \in {d} |-> reply]) /\ mailbox' = mailbox /\ relayLog' = relayLog
      BY <1>9 DEF HandleGetLog
    <2>2. reply \in S2c /\ reply.type = "log" /\ Carried(reply) = OfRelay
      BY DEF S2c, Carried, TypeOK, RelayTypeOK, OfRelay
    <2> HIDE DEF reply
    <2>3. OfRelay' = OfRelay
      BY <2>1 DEF OfRelay
    <2>4. MessageOK(OfRelay', made, d, reply, {})
      BY <2>2, <2>3 DEF MessageOK
    <2> QED
      BY <1>6, <2>1, <2>2, <2>3, <2>4
  <1>10. CASE m.type = "append" /\ HandleAppend(d, m.entry)
    <2> DEFINE e == m.entry
    <2>1. e \in Entry /\ By(d, e)
      BY <1>1, <1>5, <1>10 DEF C2s
    <2>2. CASE ~MayAppend(d, e)
      <3> DEFINE reject == [type |-> "reject"]
      <3>1. down' = Sent([x \in Asker(d) |-> reject]) /\ mailbox' = mailbox /\ relayLog' = relayLog
        BY <1>10, <2>2 DEF HandleAppend
      <3>2. reject \in S2c /\ reject.type = "reject" /\ Carried(reject) = {}
        BY DEF S2c, Carried
      <3> HIDE DEF reject
      <3>3. OfRelay' = OfRelay /\ \A x : MessageOK(OfRelay', made, x, reject, {})
        BY <3>1, <3>2 DEF OfRelay, MessageOK
      <3> QED
        BY <1>6, <3>1, <3>2, <3>3
    <2>3. CASE MayAppend(d, e)
      <3> DEFINE ack == [type |-> "ack"]
                 news == [type |-> "appended", entry |-> e]
                 to == [x \in (Roster(relayLog') \ {d}) \cup Asker(d) |-> IF x = d THEN ack ELSE news]
      <3>1. down' = Sent(to) /\ mailbox' = mailbox /\ relayLog' = Append(relayLog, e)
        BY <1>10, <2>3 DEF HandleAppend
      <3>2. relayLog \in Log /\ FullyValid(Append(relayLog, e))
        BY <2>1, <2>3, AppendKeepsValid DEF TypeOK, RelayTypeOK
      <3>3. OfRelay' = OfRelay \cup {e} /\ e \notin OfRelay
        BY <2>1, <3>1, <3>2, AppendedIsNew, AllAppend DEF OfRelay
      <3>4. /\ ack \in S2c /\ ack.type = "ack" /\ Carried(ack) = {}
            /\ news \in S2c /\ news.type = "appended" /\ news.entry = e /\ Carried(news) = {e}
        BY <2>1 DEF S2c, Carried
      <3>5. \A x \in DOMAIN to : to[x] = IF x = d THEN ack ELSE news
        OBVIOUS
      <3> HIDE DEF ack, news, e, to, m
      <3>6. \A x : MessageOK(OfRelay', made, x, ack, {})
        BY <3>4 DEF MessageOK
      <3>7. ASSUME NEW x, x # d PROVE MessageOK(OfRelay', made, x, news, {})
        BY <2>1, <3>3, <3>4, <3>7 DEF MessageOK, By
      <3> QED
        BY <1>6, <3>1, <3>3, <3>4, <3>5, <3>6, <3>7
    <2> QED
      BY <2>2, <2>3
  <1>11. CASE m.type = "wraps" /\ HandleKeyUpdate(d, m.wraps)
    <2>1. CASE ~Member(d)
      BY <1>7, <1>11, <2>1 DEF HandleKeyUpdate
    <2>2. CASE Member(d)
      <3> DEFINE ws == m.wraps
                 push(x) == [type |-> "wrap", wrap |-> WrapFor(ws, x)]
                 to == [x \in {w.to : w \in ws} |-> push(x)]
      <3>1. /\ down' = Sent(to) /\ relayLog' = relayLog
            /\ mailbox' = [x \in Device |-> IF x \in {w.to : w \in ws} /\ phase[x] = "off"
                                            THEN WrapFor(ws, x) ELSE mailbox[x]]
        BY <1>11, <2>2 DEF HandleKeyUpdate
      <3>2. ws \in SUBSET Wrap /\ \A w \in ws : Meant(OfRelay, made, w)
        BY <1>1, <1>5, <1>11 DEF C2s
      <3>3. \A x \in DOMAIN to : /\ WrapFor(ws, x) \in ws /\ WrapFor(ws, x).to = x
                                 /\ to[x].type = "wrap" /\ to[x].wrap = WrapFor(ws, x)
                                 /\ to[x] \in S2c /\ Carried(to[x]) = {}
        <4>1. \A x \in DOMAIN to : WrapFor(ws, x) \in ws /\ WrapFor(ws, x).to = x
          BY DEF WrapFor
        <4>2. \A w \in Wrap : LET p == [type |-> "wrap", wrap |-> w]
                              IN  p \in S2c /\ Carried(p) = {}
          BY DEF S2c, Carried
        <4>3. \A x \in DOMAIN to : to[x] = [type |-> "wrap", wrap |-> WrapFor(ws, x)]
          OBVIOUS
        <4> HIDE DEF to, ws
        <4> QED
          BY <3>2, <4>1, <4>2, <4>3
      <3>4. OfRelay' = OfRelay
        BY <3>1 DEF OfRelay
      <3>5. DOMAIN to = {w.to : w \in ws}
        OBVIOUS
      <3> HIDE DEF to, ws, push
      <3>6. \A x \in DOMAIN to : MessageOK(OfRelay', made, x, to[x], {})
        BY <3>2, <3>3, <3>4 DEF MessageOK, Meant, Fresh
      <3>7. \A x \in Device : mailbox'[x] = mailbox[x] \/ MailOK(OfRelay', made, mailbox'[x])
        BY <3>1, <3>2, <3>3, <3>4, <3>5 DEF MailOK
      <3> QED
        BY <1>6, <3>1, <3>3, <3>4, <3>6, <3>7
    <2> QED
      BY <2>1, <2>2
  <1> QED
    BY <1>8, <1>9, <1>10, <1>11 DEF RelayReads

LEMMA KeyStep == TypeOK /\ KeyInv /\ [Next]_vars => KeyInv'
  <1> SUFFICES ASSUME TypeOK, KeyInv, [Next]_vars PROVE KeyInv'
    OBVIOUS
  <1>1. ASSUME NEW d \in Device, DeviceStep(d) PROVE KeyInv'
    BY <1>1, SessionStep, GuestGetsLogStep, HearWelcomeStep, HearAppendedStep, HearWrapStep,
       RevokeSendsStep, RevokeAdoptsStep DEF DeviceStep
  <1>2. CASE UNCHANGED vars
    <2>1. OfRelay' = OfRelay
      BY <1>2 DEF vars, relayVars, OfRelay
    <2> QED
      BY <1>2, <2>1 DEF vars, relayVars, netVars, joinVars, deviceVars, history, KeyInv, DeviceOK
  <1> QED
    BY <1>1, <1>2, RelayReadsStep, RelayRestartStep DEF Next

LEMMA KeyInvAlways == Spec => []KeyInv
  BY KeyInit, KeyStep, MembershipTypeCorrect, PTL DEF Spec

-----------------------------------------------------------------------------
(* Who holds which key.                                                    *)

\* A device that was removed never gets a group key made without it, however
\* revocations, joins, breaks and restarts fall together: whoever holds a key was
\* there when it was made, or was admitted by an entry the maker had not seen.
THEOREM KeysAlwaysToMembers == Spec => []KeysOnlyToMembers
  <1>1. KeyInv => KeysOnlyToMembers
    <2> SUFFICES ASSUME KeyInv, NEW d \in Device, key[d] # None
                 PROVE  \E m \in made : m.key = key[d] /\ (Entitled(d, m) \/ ~m.clean)
      BY DEF KeysOnlyToMembers
    <2>1. PICK k \in made : k.key = key[d] /\ Due(OfRelay, k, d)
      BY DEF KeyInv, DeviceOK, KeyOK
    <2>2. Entitled(d, k) \/ ~k.clean
      BY <2>1 DEF Due, Entitled, OfRelay, All
    <2> QED
      BY <2>1, <2>2
  <1> QED
    BY <1>1, KeyInvAlways, PTL

\* A device that has verified its log has the Create entry of the relay's.
LEMMA FirstEntry ==
    ASSUME TypeOK, RelayLogValid, KeyInv, NEW d \in Device, Verifies(log[d])
    PROVE  log[d] \in Log /\ log[d] # <<>> /\ log[d][1] = relayLog[1]
  <1> DEFINE l == log[d]
             R == relayLog
  <1>1. l \in Log /\ l # <<>> /\ R \in Log /\ R # <<>>
    BY DEF TypeOK, DeviceTypeOK, RelayTypeOK, Verifies
  <1>2. Len(l) \in Nat /\ Len(R) \in Nat /\ 1 \in 1 .. Len(R) /\ 1 \in 1 .. Len(l)
    BY <1>1, EmptySeq DEF Log
  <1>3. \A j \in 2 .. Len(R) : R[j].body.type # "genesis"
    <2>1. Len(R) \in 1 .. Len(R) /\ \A j \in 2 .. Len(R) : Fits(R, j)
      BY <1>2 DEF RelayLogValid, FullyValid
    <2> QED
      BY <1>1, <2>1, ChainPositions
  <1>4. \A j \in 1 .. Len(l) : By(d, l[j]) \/ \E p \in 1 .. Len(R) : R[p] = l[j]
    BY DEF KeyInv, DeviceOK, LogOK, Traced, OfRelay, All, Entries
  <1>5. l[1].body.type = "genesis"
    BY DEF Verifies
  <1> HIDE DEF l, R
  <1>6. PICK p \in 1 .. Len(R) : R[p] = l[1]
    BY <1>2, <1>4, <1>5 DEF By
  <1>7. p = 1
    BY <1>2, <1>3, <1>5, <1>6
  <1> QED
    BY <1>1, <1>6, <1>7 DEF l, R

\* No device is led astray by another: what it has verified departs from the log
\* of the relay only at an entry it built itself.
THEOREM ForksAlwaysOwn == Spec => []OnlyOwnForks
  <1>1. TypeOK /\ RelayLogValid /\ KeyInv => OnlyOwnForks
    <2> SUFFICES ASSUME TypeOK, RelayLogValid, KeyInv, NEW d \in Device, Verifies(log[d]),
                        NEW i \in 1 .. Accepted(log[d]),
                        ~(i <= Len(relayLog) /\ log[d][i] = relayLog[i])
                 PROVE  \E j \in 1 .. i : /\ Author(log[d][j].body) = d
                                          /\ j <= Len(relayLog) => log[d][j] # relayLog[j]
      BY DEF OnlyOwnForks
    <2> DEFINE l == log[d]
               R == relayLog
    <2>1. l \in Log /\ l # <<>> /\ R \in Log /\ R # <<>>
      BY DEF TypeOK, DeviceTypeOK, RelayTypeOK, Verifies
    <2>2. Len(l) \in Nat /\ Len(R) \in Nat /\ 1 \in 1 .. Len(R)
          /\ Accepted(l) \in 1 .. Len(l) /\ \A j \in 2 .. Accepted(l) : Fits(l, j)
      BY <2>1, AcceptedFits, EmptySeq DEF Log
    <2>3. i \in 1 .. Len(l) /\ i \in 1 .. i /\ 1 \in 1 .. Accepted(l) /\ 1 \in 1 .. Len(l)
      BY <2>2
    <2>4. \A j \in 1 .. Accepted(l) : Len(l[j].prev) = Len(l[1].prev) + (j - 1)
      BY <2>1, <2>2, ChainPositions
    <2>5. /\ \A j \in 1 .. Len(R) : Len(R[j].prev) = Len(R[1].prev) + (j - 1)
          /\ \A j \in 2 .. Len(R) : R[j].body.type # "genesis"
          /\ \A j \in 1 .. Len(R) : Len(R[j].prev) \in Nat
      <3>1. Len(R) \in 1 .. Len(R) /\ \A j \in 2 .. Len(R) : Fits(R, j)
        BY <2>2 DEF RelayLogValid, FullyValid
      <3> QED
        BY <2>1, <3>1, ChainPositions
    <2>6. \A j \in 1 .. Len(l) : By(d, l[j]) \/ \E p \in 1 .. Len(R) : R[p] = l[j]
      BY DEF KeyInv, DeviceOK, LogOK, Traced, OfRelay, All, Entries
    <2>7. l[1].body.type = "genesis"
      BY DEF Verifies
    <2> HIDE DEF l, R
    <2>8. R[1] = l[1]
      BY FirstEntry DEF l, R
    <2>9. By(d, l[i])
      <3> SUFFICES ASSUME NEW p \in 1 .. Len(R), R[p] = l[i] PROVE FALSE
        BY <2>3, <2>6
      <3>1. Len(R[1].prev) + (p - 1) = Len(R[1].prev) + (i - 1)
        BY <2>4, <2>5, <2>8 DEF l
      <3>2. p = i
        BY <2>2, <2>3, <2>5, <3>1
      <3> QED
        BY <2>2, <3>2 DEF l, R
    <2> QED
      BY <2>3, <2>9 DEF By, l, R
  <1> QED
    BY <1>1, KeyInvAlways, MembershipTypeCorrect, RelayLogAlwaysValid, PTL
-----------------------------------------------------------------------------
(* Greetings: the Hello of a session and the Welcome it is answered with.  *)
(* A device that knows its workspace says how long its log is, so that the *)
(* Welcome holds no log to begin with: no Welcome takes it back to an      *)
(* earlier epoch.                                                          *)

\* Messages that are no Hello, and those in which a device that knows its
\* workspace says how long its log is.
Plain == {m \in C2s : m.type # "hello"}
Long == {m \in C2s : m.type = "hello" => m.length # 0}

\* Messages that are no Welcome, and those with which no log can begin.
Quiet == {m \in S2c : m.type # "welcome"}
Stale == {m \in S2c : m.type = "welcome" => ~Verifies(m.tail)}

\* At most one message of queue q is not in T.
OneBut(q, T) == \A i, j \in 1 .. Len(q) : q[i] \notin T /\ q[j] \notin T => i = j

\* A session has at most one greeting under way, and a device that knows its
\* workspace is never handed another log to begin with.
Greeted(p, k, l, c, u, q) ==
    /\ p = "off" => u = <<>> /\ q = <<>>
    /\ p # "online" => u \in Seq(Plain) /\ q \in Seq(Quiet)
    /\ p = "adding" => c # <<>>
    /\ OneBut(u, Plain) /\ OneBut(q, Quiet)
    /\ u \in Seq(Plain) \/ q \in Seq(Quiet)
    /\ k => l # <<>> /\ u \in Seq(Long) /\ q \in Seq(Stale)

\* The log on which rotation r of revoke_member is built, of a relay whose log
\* begins with entry e.
RotationOf(r, l, e) ==
    /\ Verifies(l) /\ l[1] = e /\ HeadOf(l) = r.entries[1].prev
    /\ r.entries # <<>> /\ r.key.epoch = EpochOf(l) + 1

Rotates(r, e) == r # None => \E l \in Log : RotationOf(r, l, e)

GreetOK(d) == Greeted(phase[d], wid[d], log[d], draft[d], up[d], down[d])

GreetInv == \A d \in Device : GreetOK(d) /\ Rotates(revoking[d], relayLog[1])

\* Queues without greetings.
LEMMA NoGreeting ==
    /\ Plain \subseteq Long /\ Long \subseteq C2s /\ Quiet \subseteq Stale /\ Stale \subseteq S2c
    /\ \A T : <<>> \in Seq(T) /\ OneBut(<<>>, T)
    /\ \A T : \A q \in Seq(T) : OneBut(q, T)
  <1>1. Plain \subseteq Long /\ Long \subseteq C2s /\ Quiet \subseteq Stale /\ Stale \subseteq S2c
    BY DEF Plain, Long, Quiet, Stale
  <1>2. ASSUME NEW T, NEW q \in Seq(T) PROVE OneBut(q, T)
    BY <1>2, ElementOfSeq DEF OneBut
  <1>3. \A T : <<>> \in Seq(T)
    OBVIOUS
  <1> QED
    BY <1>1, <1>2, <1>3

LEMMA Widen ==
    ASSUME NEW S, NEW T, S \subseteq T, NEW q \in Seq(S)
    PROVE  q \in Seq(T)
  <1>1. \A i \in 1 .. Len(q) : q[i] \in T
    BY ElementOfSeq
  <1> QED
    BY <1>1

\* A queue that grows by one message.
LEMMA GrowsByOne ==
    ASSUME NEW S, NEW T, T \subseteq S, NEW q \in Seq(S), NEW m \in S
    PROVE  /\ q \in Seq(T) /\ m \in T => Append(q, m) \in Seq(T)
           /\ q \in Seq(T) => OneBut(Append(q, m), T)
           /\ OneBut(q, T) /\ m \in T => OneBut(Append(q, m), T)
  <1> DEFINE r == Append(q, m)
  <1>1. /\ Len(q) \in Nat /\ Len(r) = Len(q) + 1 /\ r[Len(q) + 1] = m
        /\ \A i \in 1 .. Len(q) : r[i] = q[i]
    BY AppendProperties, LenProperties
  <1>2. \A i \in 1 .. Len(r) : i \in 1 .. Len(q) \/ i = Len(q) + 1
    BY <1>1
  <1>3. q \in Seq(T) /\ m \in T => r \in Seq(T)
    BY AppendProperties
  <1> HIDE DEF r
  <1>4. ASSUME q \in Seq(T) PROVE OneBut(r, T)
    <2>1. \A i \in 1 .. Len(q) : r[i] \in T
      BY <1>1, <1>4, ElementOfSeq
    <2> QED
      BY <1>2, <2>1 DEF OneBut
  <1>5. ASSUME OneBut(q, T), m \in T PROVE OneBut(r, T)
    BY <1>1, <1>2, <1>5 DEF OneBut
  <1> QED
    BY <1>3, <1>4, <1>5 DEF r

\* A queue of which the first message is taken.
LEMMA ShrinksByOne ==
    ASSUME NEW S, NEW T, NEW q \in Seq(S), q # <<>>
    PROVE  /\ Head(q) \in S /\ Tail(q) \in Seq(S)
           /\ q \in Seq(T) => Head(q) \in T /\ Tail(q) \in Seq(T)
           /\ OneBut(q, T) => OneBut(Tail(q), T)
           /\ OneBut(q, T) /\ Head(q) \notin T => Tail(q) \in Seq(T)
  <1> DEFINE r == Tail(q)
  <1>1. /\ Len(q) \in Nat /\ Len(q) >= 1 /\ Len(r) = Len(q) - 1 /\ Head(q) = q[1]
        /\ Head(q) \in S /\ r \in Seq(S)
        /\ \A i \in 1 .. Len(r) : r[i] = q[i + 1]
    BY HeadTailProperties, LenProperties, EmptySeq, ElementOfSeq
  <1>2. q \in Seq(T) => Head(q) \in T /\ r \in Seq(T)
    BY HeadTailProperties
  <1> HIDE DEF r
  <1>3. \A i \in 1 .. Len(r) : i + 1 \in 1 .. Len(q) /\ i + 1 # 1
    BY <1>1
  <1>4. ASSUME OneBut(q, T) PROVE OneBut(r, T)
    <2> SUFFICES ASSUME NEW i \in 1 .. Len(r), NEW j \in 1 .. Len(r), r[i] \notin T, r[j] \notin T
                 PROVE  i = j
      BY DEF OneBut
    <2>1. i + 1 = j + 1
      BY <1>1, <1>3, <1>4 DEF OneBut
    <2> QED
      BY <2>1
  <1>5. ASSUME OneBut(q, T), Head(q) \notin T PROVE r \in Seq(T)
    <2>1. ASSUME NEW i \in 1 .. Len(r) PROVE r[i] \in T
      <3>1. 1 \in 1 .. Len(q)
        BY <1>1
      <3> QED
        BY <1>1, <1>3, <1>5, <3>1 DEF OneBut
    <2> QED
      BY <1>1, <2>1
  <1> QED
    BY <1>1, <1>2, <1>4, <1>5 DEF r

\* A queue that grows by messages of a kind.
LEMMA GrowsBy ==
    ASSUME NEW S, NEW T, T \subseteq S, NEW q \in Seq(S), NEW ms \in Seq(T)
    PROVE  /\ q \in Seq(T) => q \o ms \in Seq(T)
           /\ OneBut(q, T) => OneBut(q \o ms, T)
  <1> DEFINE r == q \o ms
  <1>1. ms \in Seq(S)
    BY Widen
  <1>2. /\ Len(q) \in Nat /\ Len(ms) \in Nat /\ Len(r) = Len(q) + Len(ms)
        /\ \A i \in 1 .. Len(q) + Len(ms) : r[i] = IF i <= Len(q) THEN q[i] ELSE ms[i - Len(q)]
    BY <1>1, ConcatProperties, LenProperties
  <1>3. q \in Seq(T) => r \in Seq(T)
    BY ConcatProperties
  <1> HIDE DEF r
  <1>4. ASSUME NEW i \in 1 .. Len(r) PROVE r[i] \in T \/ (i \in 1 .. Len(q) /\ r[i] = q[i])
    <2>1. CASE i <= Len(q)
      BY <1>2, <2>1
    <2>2. CASE ~(i <= Len(q))
      <3>1. i - Len(q) \in 1 .. Len(ms) /\ r[i] = ms[i - Len(q)]
        BY <1>2, <2>2
      <3> QED
        BY <3>1, ElementOfSeq
    <2> QED
      BY <2>1, <2>2
  <1>5. ASSUME OneBut(q, T) PROVE OneBut(r, T)
    BY <1>4, <1>5 DEF OneBut
  <1> QED
    BY <1>3, <1>5 DEF r

\* Without a session or greetings, all is well.
LEMMA GreetedNone ==
    ASSUME NEW p, NEW k \in BOOLEAN, NEW l, NEW c, k => l # <<>>, p # "adding"
    PROVE  Greeted(p, k, l, c, <<>>, <<>>)
  BY NoGreeting DEF Greeted

\* What the steps of a session do to its queues.
LEMMA GreetPushed ==
    ASSUME NEW p, NEW k, NEW l, NEW c, NEW u, NEW q \in Seq(S2c), NEW m \in Quiet, p # "off",
           Greeted(p, k, l, c, u, q)
    PROVE  Greeted(p, k, l, c, u, Append(q, m))
  <1>1. m \in S2c /\ m \in Stale /\ Quiet \subseteq S2c /\ Stale \subseteq S2c
    BY NoGreeting
  <1>2. q \in Seq(Quiet) => Append(q, m) \in Seq(Quiet)
    BY <1>1, GrowsByOne
  <1>3. OneBut(q, Quiet) => OneBut(Append(q, m), Quiet)
    BY <1>1, GrowsByOne
  <1>4. q \in Seq(Stale) => Append(q, m) \in Seq(Stale)
    BY <1>1, GrowsByOne
  <1> QED
    BY <1>2, <1>3, <1>4 DEF Greeted

LEMMA GreetSends ==
    ASSUME NEW p, NEW k, NEW l, NEW c, NEW u \in Seq(C2s), NEW q, NEW ms \in Seq(Plain), p # "off",
           Greeted(p, k, l, c, u, q)
    PROVE  Greeted(p, k, l, c, u \o ms, q)
  <1>1. ms \in Seq(Long) /\ Plain \subseteq C2s /\ Long \subseteq C2s
    BY NoGreeting, Widen
  <1>2. u \in Seq(Plain) => u \o ms \in Seq(Plain)
    BY <1>1, GrowsBy
  <1>3. OneBut(u, Plain) => OneBut(u \o ms, Plain)
    BY <1>1, GrowsBy
  <1>4. u \in Seq(Long) => u \o ms \in Seq(Long)
    BY <1>1, GrowsBy
  <1> QED
    BY <1>2, <1>3, <1>4 DEF Greeted

LEMMA GreetHears ==
    ASSUME NEW p, NEW k, NEW l, NEW c, NEW u, NEW q \in Seq(S2c), q # <<>>,
           Greeted(p, k, l, c, u, q)
    PROVE  Greeted(p, k, l, c, u, Tail(q))
  <1>1. q \in Seq(Quiet) => Tail(q) \in Seq(Quiet)
    BY ShrinksByOne
  <1>2. OneBut(q, Quiet) => OneBut(Tail(q), Quiet)
    BY ShrinksByOne
  <1>3. q \in Seq(Stale) => Tail(q) \in Seq(Stale)
    BY ShrinksByOne
  <1> QED
    BY <1>1, <1>2, <1>3 DEF Greeted

LEMMA GreetReads ==
    ASSUME NEW p, NEW k, NEW l, NEW c, NEW u \in Seq(C2s), NEW q, u # <<>>,
           Greeted(p, k, l, c, u, q)
    PROVE  Greeted(p, k, l, c, Tail(u), q)
  <1>1. u \in Seq(Plain) => Tail(u) \in Seq(Plain)
    BY ShrinksByOne
  <1>2. OneBut(u, Plain) => OneBut(Tail(u), Plain)
    BY ShrinksByOne
  <1>3. u \in Seq(Long) => Tail(u) \in Seq(Long)
    BY ShrinksByOne
  <1> QED
    BY <1>1, <1>2, <1>3 DEF Greeted

LEMMA GreetLog ==
    ASSUME NEW p, NEW k, NEW l, NEW l2, NEW c, NEW u, NEW q, k => l2 # <<>>,
           Greeted(p, k, l, c, u, q)
    PROVE  Greeted(p, k, l2, c, u, q)
  BY DEF Greeted

\* The Hello of a session comes first.
LEMMA GreetHello ==
    ASSUME NEW k, NEW l \in Log, NEW c, NEW u \in Seq(Plain), NEW q \in Seq(Quiet), k => l # <<>>
    PROVE  Greeted("online", k, l, c, u \o <<Hello(l)>>, q)
  <1> DEFINE m == Hello(l)
             r == u \o <<m>>
  <1>1. m \in C2s /\ (l # <<>> => m \in Long)
    BY LenProperties, EmptySeq DEF Hello, C2s, Long, Log
  <1>2. u \in Seq(C2s) /\ u \in Seq(Long) /\ q \in Seq(Stale) /\ OneBut(q, Quiet)
    BY NoGreeting, Widen
  <1>3. r = Append(u, m)
    <2> HIDE DEF m
    <2> QED
      BY <1>1, <1>2, AppendIsConcat
  <1> HIDE DEF m, r
  <1>4. OneBut(r, Plain)
    BY <1>1, <1>2, <1>3, NoGreeting, GrowsByOne
  <1>5. l # <<>> => r \in Seq(Long)
    BY <1>1, <1>2, <1>3, NoGreeting, GrowsByOne
  <1> QED
    BY <1>2, <1>4, <1>5 DEF Greeted, r, m

\* A Hello is answered, to the one who said it.
LEMMA GreetAnswer ==
    ASSUME NEW p, NEW k, NEW l, NEW c, NEW u \in Seq(C2s), NEW q \in Seq(S2c), NEW m \in S2c,
           u # <<>>, Head(u).type = "hello",
           k /\ Head(u).length # 0 => m \in Stale,
           Greeted(p, k, l, c, u, q)
    PROVE  Greeted(p, k, l, c, Tail(u), Append(q, m))
  <1>1. Head(u) \in C2s /\ Head(u) \notin Plain /\ Plain \subseteq C2s
    BY ShrinksByOne DEF Plain
  <1>2. u \notin Seq(Plain)
    BY <1>1, ShrinksByOne
  <1>3. q \in Seq(Quiet) /\ p \notin {"off", "fetching", "adding"} /\ p = "online"
    BY <1>2 DEF Greeted
  <1>4. Tail(u) \in Seq(Plain) /\ OneBut(Tail(u), Plain)
    BY <1>1, ShrinksByOne DEF Greeted
  <1>5. OneBut(Append(q, m), Quiet)
    BY <1>3, NoGreeting, GrowsByOne
  <1>6. k => Head(u).length # 0
    <2>1. k => Head(u) \in Long
      BY ShrinksByOne DEF Greeted
    <2> QED
      BY <2>1 DEF Long
  <1>7. k => Append(q, m) \in Seq(Stale) /\ Tail(u) \in Seq(Long) /\ l # <<>>
    <2>1. k => q \in Seq(Stale) /\ m \in Stale /\ u \in Seq(Long) /\ l # <<>>
      BY <1>6 DEF Greeted
    <2>2. q \in Seq(Stale) /\ m \in Stale => Append(q, m) \in Seq(Stale)
      BY NoGreeting, GrowsByOne
    <2>3. u \in Seq(Long) => Tail(u) \in Seq(Long)
      BY ShrinksByOne
    <2> QED
      BY <2>1, <2>2, <2>3
  <1> QED
    BY <1>3, <1>4, <1>5, <1>7 DEF Greeted

\* After the Welcome nothing is left of the greeting.
LEMMA GreetWelcome ==
    ASSUME NEW p, NEW k, NEW k2, NEW l, NEW l2, NEW c, NEW u \in Seq(C2s), NEW q \in Seq(S2c),
           q # <<>>, Head(q).type = "welcome", k2 => l2 # <<>>,
           Greeted(p, k, l, c, u, q)
    PROVE  Greeted(p, k2, l2, c, u, Tail(q))
  <1>1. Head(q) \in S2c /\ Head(q) \notin Quiet
    BY ShrinksByOne DEF Quiet
  <1>2. q \notin Seq(Quiet)
    BY <1>1, ShrinksByOne
  <1>3. u \in Seq(Plain) /\ p = "online"
    BY <1>2 DEF Greeted
  <1>4. Tail(q) \in Seq(Quiet)
    BY <1>1, ShrinksByOne DEF Greeted
  <1>5. u \in Seq(Long) /\ Tail(q) \in Seq(Stale) /\ OneBut(u, Plain) /\ OneBut(Tail(q), Quiet)
    BY <1>3, <1>4, NoGreeting, Widen
  <1> QED
    BY <1>3, <1>4, <1>5 DEF Greeted

-----------------------------------------------------------------------------
(* The greetings of every step.                                            *)

\* Nothing is under way at the start.
LEMMA GreetInit == Init => GreetInv
  <1> SUFFICES ASSUME Init, NEW b \in Limits, NEW first, first = b.first, InitFrom(first),
                      NEW d \in Device
               PROVE  GreetOK(d) /\ Rotates(revoking[d], relayLog[1])
    BY DEF Init, GreetInv
  <1>1. first # <<>>
    BY FoundingType
  <1>2. /\ up[d] = <<>> /\ down[d] = <<>> /\ revoking[d] = None /\ phase[d] # "adding"
        /\ wid[d] \in BOOLEAN /\ (wid[d] => log[d] # <<>>)
    <2>1. up[d] = <<>> /\ down[d] = <<>> /\ revoking[d] = None
      BY DEF InitFrom
    <2>2. phase[d] # "adding"
      BY DEF InitFrom
    <2>3. wid[d] <=> d \in MembersOf(first)
      BY DEF InitFrom
    <2>4. d \in MembersOf(first) => log[d] = first
      BY DEF InitFrom
    <2>5. wid[d] \in BOOLEAN
      BY TypeInit DEF TypeOK, DeviceTypeOK
    <2> QED
      BY <1>1, <2>1, <2>2, <2>3, <2>4, <2>5
  <1>3. Greeted(phase[d], wid[d], log[d], draft[d], <<>>, <<>>)
    BY <1>2, GreetedNone
  <1> QED
    BY <1>2, <1>3 DEF GreetOK, Rotates

\* What the relay sends other than a Welcome.
LEMMA SentQuiet ==
    ASSUME TypeOK, NEW to, \A x \in DOMAIN to : to[x] \in Quiet, down' = Sent(to), NEW x \in Device
    PROVE  \/ down'[x] = down[x]
           \/ phase[x] # "off" /\ \E m \in Quiet : down'[x] = Append(down[x], m)
  BY DEF Sent

\* A message handled by the relay leaves every greeting as it was, or answers it.
LEMMA GreetRelay ==
    ASSUME TypeOK, RelayLogValid, GreetInv, NEW d \in Device, RelayReads(d)
    PROVE  GreetInv'
  <1> DEFINE m == Head(up[d])
  <1>1. /\ up \in [Device -> Seq(C2s)] /\ down \in [Device -> Seq(S2c)]
        /\ relayLog \in Log /\ relayLog # <<>>
    BY DEF TypeOK, NetTypeOK, RelayTypeOK
  <1>2. /\ up[d] # <<>> /\ up'[d] = Tail(up[d]) /\ \A x \in Device \ {d} : up'[x] = up[x]
        /\ UNCHANGED <<phase, wid, log, draft, revoking>>
    BY <1>1 DEF RelayReads, joinVars, deviceVars
  <1>3. m \in C2s
    BY <1>1, <1>2, ShrinksByOne
  <1>4. relayLog'[1] = relayLog[1]
    <2>1. relayLog' = relayLog \/ \E e \in Entry : relayLog' = Append(relayLog, e)
      BY <1>3 DEF RelayReads, HandleHello, HandleGetLog, HandleAppend, HandleKeyUpdate, C2s
    <2>2. 1 \in 1 .. Len(relayLog)
      BY <1>1, EmptySeq DEF Log
    <2>3. ASSUME NEW e \in Entry PROVE Append(relayLog, e)[1] = relayLog[1]
      BY <1>1, <2>2, AppendProperties DEF Log
    <2> QED
      BY <2>1, <2>3
  <1>5. CASE m.type # "hello"
    <2>1. ASSUME NEW x \in Device
          PROVE  \/ down'[x] = down[x]
                 \/ phase[x] # "off" /\ \E a \in Quiet : down'[x] = Append(down[x], a)
      <3>1. CASE m.type = "getlog" /\ HandleGetLog(d)
        <4> DEFINE a == [type |-> "log", entries |-> relayLog]
        <4>1. a \in Quiet
          BY <1>1 DEF Quiet, S2c
        <4> HIDE DEF a
        <4>2. down' = Sent([y \in {d} |-> a])
          BY <3>1 DEF HandleGetLog, a
        <4> DEFINE to == [y \in {d} |-> a]
        <4>3. \A y \in DOMAIN to : to[y] \in Quiet
          BY <4>1
        <4> HIDE DEF to
        <4> QED
          BY <4>2, <4>3, SentQuiet DEF to
      <3>2. CASE m.type = "append" /\ HandleAppend(d, m.entry)
        <4>1. m.entry \in Entry
          BY <1>3, <3>2 DEF C2s
        <4>2. CASE MayAppend(d, m.entry)
          <5> DEFINE to == [y \in (Roster(relayLog') \ {d}) \cup Asker(d) |->
                             IF y = d THEN [type |-> "ack"]
                             ELSE [type |-> "appended", entry |-> m.entry]]
          <5>1. [type |-> "ack"] \in Quiet /\ [type |-> "appended", entry |-> m.entry] \in Quiet
            BY <4>1 DEF Quiet, S2c
          <5>2. \A y \in DOMAIN to : to[y] \in Quiet
            BY <5>1
          <5>3. down' = Sent(to)
            BY <3>2, <4>2 DEF HandleAppend
          <5> HIDE DEF to
          <5> QED
            BY <5>2, <5>3, SentQuiet
        <4>3. CASE ~MayAppend(d, m.entry)
          <5> DEFINE to == [y \in Asker(d) |-> [type |-> "reject"]]
          <5>1. [type |-> "reject"] \in Quiet
            BY DEF Quiet, S2c
          <5>2. \A y \in DOMAIN to : to[y] \in Quiet
            BY <5>1
          <5>3. down' = Sent(to)
            BY <3>2, <4>3 DEF HandleAppend
          <5> HIDE DEF to
          <5> QED
            BY <5>2, <5>3, SentQuiet
        <4> QED
          BY <4>2, <4>3
      <3>3. CASE m.type = "wraps" /\ HandleKeyUpdate(d, m.wraps)
        <4>1. m.wraps \in SUBSET Wrap
          BY <1>3, <3>3 DEF C2s
        <4>2. CASE Member(d)
          <5> DEFINE ws == m.wraps
                     to == [y \in {w.to : w \in ws} |-> [type |-> "wrap", wrap |-> WrapFor(ws, y)]]
          <5>1. down' = Sent(to)
            BY <3>3, <4>2 DEF HandleKeyUpdate
          <5> HIDE DEF m
          <5>2. \A y \in {w.to : w \in ws} : WrapFor(ws, y) \in Wrap
            BY <4>1, WrapForType
          <5>3. \A y \in DOMAIN to : to[y] \in Quiet
            BY <5>2 DEF Quiet, S2c
          <5> HIDE DEF to
          <5> QED
            BY <5>1, <5>3, SentQuiet
        <4>3. CASE ~Member(d)
          BY <3>3, <4>3 DEF HandleKeyUpdate
        <4> QED
          BY <4>2, <4>3
      <3> QED
        BY <1>5, <3>1, <3>2, <3>3 DEF RelayReads
    <2>2. ASSUME NEW x \in Device, NEW u, u = up'[x] PROVE Greeted(phase[x], wid[x], log[x], draft[x], u, down'[x])
      <3>1. Greeted(phase[x], wid[x], log[x], draft[x], up[x], down[x])
        BY DEF GreetInv, GreetOK
      <3>2. Greeted(phase[x], wid[x], log[x], draft[x], u, down[x])
        BY <1>1, <1>2, <2>2, <3>1, GreetReads
      <3>3. down[x] \in Seq(S2c)
        BY <1>1
      <3> QED
        BY <2>1, <3>2, <3>3, GreetPushed
    <2> QED
      BY <1>2, <1>4, <2>2 DEF GreetInv, GreetOK
  <1>6. CASE m.type = "hello"
    <2>1. HandleHello(d, m) /\ m.length \in Nat
      BY <1>3, <1>6 DEF RelayReads, C2s
    <2>2. CASE Member(d)
      <3> DEFINE t == SubSeq(relayLog, m.length + 1, Len(relayLog))
                 a == [type |-> "welcome", tail |-> t, wrap |-> mailbox[d]]
                 to == [x \in {d} |-> a]
      <3>1. down' = Sent(to)
        BY <2>1, <2>2 DEF HandleHello
      <3>2. t \in Log
        BY <1>1, <2>1, TailOfLog
      <3>3. a \in S2c
        <4>1. mailbox[d] \in Wrap \cup {None}
          BY DEF TypeOK, RelayTypeOK
        <4> QED
          BY <3>2, <4>1 DEF S2c
      <3>4. m.length # 0 => a \in Stale
        <4> SUFFICES ASSUME m.length # 0, Verifies(t) PROVE FALSE
          BY <3>3 DEF Stale
        <4>1. /\ Len(t) = IF m.length + 1 <= Len(relayLog) THEN Len(relayLog) - m.length ELSE 0
              /\ \A i \in 1 .. Len(relayLog) - m.length : t[i] = relayLog[i + m.length]
          BY <1>1, <2>1, TailOfLog
        <4>2. Len(relayLog) \in Nat /\ Len(t) \in Nat /\ Len(t) >= 1
          BY <1>1, <3>2, EmptySeq DEF Log, Verifies
        <4> HIDE DEF t, m
        <4>3. 1 \in 1 .. Len(relayLog) - m.length /\ 1 + m.length \in 2 .. Len(relayLog)
          BY <2>1, <4>1, <4>2
        <4>4. \A j \in 2 .. Len(relayLog) : relayLog[j].body.type # "genesis"
          <5>1. Len(relayLog) \in 1 .. Len(relayLog) /\ \A j \in 2 .. Len(relayLog) : Fits(relayLog, j)
            BY <4>2, <4>3 DEF RelayLogValid, FullyValid
          <5> QED
            BY <1>1, <5>1, ChainPositions
        <4> QED
          BY <4>1, <4>3, <4>4 DEF Verifies
      <3>5. phase[d] # "off"
        BY <1>2 DEF GreetInv, GreetOK, Greeted
      <3> HIDE DEF a
      <3>6. down'[d] = Append(down[d], a) /\ \A x \in Device \ {d} : down'[x] = down[x]
        BY <3>1, <3>5 DEF Sent
      <3>7. GreetOK(d)'
        <4>1. Greeted(phase[d], wid[d], log[d], draft[d], up[d], down[d])
          BY DEF GreetInv, GreetOK
        <4>2. Greeted(phase[d], wid[d], log[d], draft[d], Tail(up[d]), Append(down[d], a))
          BY <1>1, <1>2, <1>6, <3>3, <3>4, <4>1, GreetAnswer
        <4> QED
          BY <1>2, <3>6, <4>2 DEF GreetOK
      <3> QED
        BY <1>2, <1>4, <3>6, <3>7 DEF GreetInv, GreetOK
    <2>3. CASE ~Member(d)
      <3>1. down' = down
        BY <2>1, <2>3 DEF HandleHello
      <3>2. GreetOK(d)'
        <4>1. Greeted(phase[d], wid[d], log[d], draft[d], up[d], down[d])
          BY DEF GreetInv, GreetOK
        <4>2. Greeted(phase[d], wid[d], log[d], draft[d], Tail(up[d]), down[d])
          BY <1>1, <1>2, <4>1, GreetReads
        <4> QED
          BY <1>2, <3>1, <4>2 DEF GreetOK
      <3> QED
        BY <1>2, <1>4, <3>1, <3>2 DEF GreetInv, GreetOK
    <2> QED
      BY <2>2, <2>3
  <1> QED
    BY <1>5, <1>6

\* A step of a device leaves the sessions of the others alone.
LEMMA AsideSession ==
    ASSUME TypeOK, NEW d \in Device, DeviceStep(d)
    PROVE  \A x \in Device \ {d} : phase'[x] = phase[x] /\ wid'[x] = wid[x]
  <1> USE DEF TypeOK, NetTypeOK, DeviceTypeOK
  <1>1. \A x \in Device \ {d} : phase'[x] = phase[x]
    BY DEF DeviceStep, Connect, Join, Invite, GuestGetsLog, GuestGivesUp, GuestGetsAnswer,
       GuestSkips, Break, HearWelcome, HearAppended, HearWrap, RevokeSends, RevokeFails,
       RevokeAdopts, Restart, netVars, Sever
  <1>2. \A x \in Device \ {d} : wid'[x] = wid[x]
    BY DEF DeviceStep, Connect, Join, Invite, GuestGetsLog, GuestGivesUp, GuestGetsAnswer,
       GuestSkips, Break, HearWelcome, HearAppended, HearWrap, RevokeSends, RevokeFails,
       RevokeAdopts, Restart, deviceVars, Joined
  <1> QED
    BY <1>1, <1>2

\* A step of d keeps all if it keeps what is said of d.
LEMMA GreetOne ==
    ASSUME TypeOK, GreetInv, NEW d \in Device, DeviceStep(d), GreetOK(d)',
           revoking'[d] \in {revoking[d], None} \/ Rotates(revoking'[d], relayLog[1])
    PROVE  GreetInv'
  <1>1. relayLog' = relayLog
    BY Aside
  <1>2. Rotates(revoking'[d], relayLog[1])
    BY DEF GreetInv, Rotates
  <1>3. ASSUME NEW x \in Device \ {d} PROVE GreetOK(x)' /\ Rotates(revoking'[x], relayLog[1])
    BY <1>3, Aside, AsideSession DEF GreetInv, GreetOK
  <1> QED
    BY <1>1, <1>2, <1>3 DEF GreetInv

\* The first steps of a session.
LEMMA GreetSession ==
    ASSUME TypeOK, GreetInv, NEW d \in Device,
           Connect(d) \/ GuestGetsLog(d) \/ GuestGetsAnswer(d)
    PROVE  GreetInv'
  <1>0. DeviceStep(d) /\ Greeted(phase[d], wid[d], log[d], draft[d], up[d], down[d])
    BY DEF DeviceStep, GreetInv, GreetOK
  <1>1. /\ up[d] \in Seq(C2s) /\ down[d] \in Seq(S2c) /\ log[d] \in Log /\ draft[d] \in Log
        /\ wid[d] \in BOOLEAN
    BY DEF TypeOK, NetTypeOK, JoinTypeOK, DeviceTypeOK
  <1>2. CASE Connect(d)
    <2>1. /\ phase[d] = "off" /\ up[d] = <<>> /\ down[d] = <<>> /\ (wid[d] => log[d] # <<>>)
      BY <1>0, <1>2 DEF Connect, Greeted
    <2>2. /\ down'[d] = down[d] /\ wid'[d] = wid[d] /\ log'[d] = log[d] /\ draft'[d] = draft[d]
          /\ revoking'[d] = revoking[d]
      BY <1>2 DEF Connect, joinVars, deviceVars
    <2>3. CASE code[d] = None
      <3>1. phase'[d] = "online" /\ up'[d] = up[d] \o <<Hello(log[d])>>
        BY <1>2, <2>3 DEF Connect, ToRelay, TypeOK, NetTypeOK
      <3>2. up[d] \in Seq(Plain) /\ down[d] \in Seq(Quiet)
        BY <2>1, NoGreeting
      <3>3. Greeted("online", wid[d], log[d], draft[d], up[d] \o <<Hello(log[d])>>, down[d])
        BY <1>1, <2>1, <3>2, GreetHello
      <3> QED
        BY <1>0, <2>2, <3>1, <3>3, GreetOne DEF GreetOK
    <2>4. CASE code[d] # None
      <3> DEFINE m == [type |-> "getlog"]
      <3>1. phase'[d] = "fetching" /\ up'[d] = up[d] \o <<m>>
        BY <1>2, <2>4 DEF Connect, ToRelay, TypeOK, NetTypeOK
      <3>2. m \in Plain
        BY DEF Plain, C2s
      <3> HIDE DEF m
      <3>3. <<m>> \in Seq(Plain)
        BY <3>2
      <3>4. Greeted("fetching", wid[d], log[d], draft[d], up[d], down[d])
        BY <1>1, <2>1, GreetedNone
      <3>5. Greeted("fetching", wid[d], log[d], draft[d], up[d] \o <<m>>, down[d])
        BY <1>1, <3>3, <3>4, GreetSends
      <3> QED
        BY <1>0, <2>2, <3>1, <3>5, GreetOne DEF GreetOK
    <2> QED
      BY <2>3, <2>4
  <1>3. CASE GuestGetsLog(d)
    <2> DEFINE entries == Head(down[d]).entries
               add == BuildOn(entries, AddBody(d, invites[code[d]], code[d]))
               m == [type |-> "append", entry |-> add]
    <2>1. /\ phase[d] = "fetching" /\ down[d] # <<>> /\ down'[d] = Tail(down[d])
          /\ wid'[d] = wid[d] /\ log'[d] = log[d] /\ phase'[d] = "adding"
          /\ revoking'[d] = revoking[d] /\ draft'[d] = Append(entries, add)
          /\ up'[d] = up[d] \o <<m>> /\ invites[code[d]] # None /\ Head(down[d]).type = "log"
      BY <1>3 DEF GuestGetsLog, Received, Consume, ToRelay, deviceVars, TypeOK, NetTypeOK, JoinTypeOK
    <2>2. entries \in Log /\ entries # <<>>
      <3>1. Head(down[d]) \in S2c
        BY <1>1, <2>1, ShrinksByOne
      <3> QED
        BY <2>1, <3>1 DEF S2c
    <2>3. add \in Entry
      <3>1. code[d] \in Grant /\ invites[code[d]] \in Device
        BY <1>3, <2>1 DEF TypeOK, JoinTypeOK, RelayTypeOK
      <3>2. AddBody(d, invites[code[d]], code[d]) \in Body
        BY <3>1, BodyType
      <3> QED
        BY <2>2, <3>2, BuildType DEF Log
    <2> HIDE DEF add
    <2>4. m \in Plain /\ Append(entries, add) # <<>>
      BY <2>2, <2>3, AppendProperties, EmptySeq DEF Plain, C2s, Log
    <2> HIDE DEF m, entries
    <2>5. <<m>> \in Seq(Plain)
      BY <2>4
    <2>6. Greeted(phase[d], wid[d], log[d], draft[d], up[d], Tail(down[d]))
      BY <1>0, <1>1, <2>1, GreetHears
    <2>7. Greeted(phase[d], wid[d], log[d], draft[d], up[d] \o <<m>>, Tail(down[d]))
      BY <1>1, <2>1, <2>5, <2>6, GreetSends
    <2>8. Greeted("adding", wid[d], log[d], Append(entries, add), up[d] \o <<m>>, Tail(down[d]))
      BY <2>1, <2>4, <2>7 DEF Greeted
    <2> QED
      BY <1>0, <2>1, <2>8, GreetOne DEF GreetOK
  <1>4. CASE GuestGetsAnswer(d)
    <2>1. /\ phase[d] = "adding" /\ down[d] # <<>> /\ down'[d] = Tail(down[d])
          /\ wid'[d] = TRUE /\ log'[d] = draft[d] /\ phase'[d] = "online"
          /\ revoking'[d] = revoking[d] /\ up'[d] = up[d] \o <<Hello(draft[d])>>
      BY <1>4 DEF GuestGetsAnswer, Received, Consume, ToRelay, Joined, TypeOK, NetTypeOK, DeviceTypeOK
    <2>2. draft[d] # <<>> /\ up[d] \in Seq(Plain) /\ down[d] \in Seq(Quiet)
      BY <1>0, <2>1 DEF Greeted
    <2>3. Tail(down[d]) \in Seq(Quiet)
      BY <1>1, <2>1, <2>2, ShrinksByOne
    <2>4. Greeted("online", TRUE, draft[d], draft'[d], up[d] \o <<Hello(draft[d])>>, Tail(down[d]))
      BY <1>1, <2>2, <2>3, GreetHello
    <2> QED
      BY <1>0, <2>1, <2>4, GreetOne DEF GreetOK
  <1> QED
    BY <1>2, <1>3, <1>4

\* The ends of a session, and the steps that say nothing.
LEMMA GreetEnds ==
    ASSUME TypeOK, GreetInv, NEW d \in Device,
           \/ GuestGivesUp(d) \/ Break(d) \/ Restart(d) \/ RevokeFails(d)
           \/ \E g \in Grant : Join(d, g) \/ Invite(d, g)
    PROVE  GreetInv'
  <1>0. DeviceStep(d) /\ Greeted(phase[d], wid[d], log[d], draft[d], up[d], down[d])
    BY DEF DeviceStep, GreetInv, GreetOK
  <1>1. wid[d] \in BOOLEAN /\ (wid[d] => log[d] # <<>>)
    BY <1>0 DEF TypeOK, DeviceTypeOK, Greeted
  <1>2. CASE GuestGivesUp(d)
    <2>1. /\ phase'[d] = "off" /\ up'[d] = <<>> /\ down'[d] = <<>>
          /\ wid'[d] = wid[d] /\ log'[d] = log[d] /\ revoking'[d] = revoking[d]
      BY <1>2 DEF GuestGivesUp, Sever, deviceVars, TypeOK, NetTypeOK
    <2>2. Greeted("off", wid[d], log[d], draft'[d], <<>>, <<>>)
      BY <1>1, GreetedNone
    <2> QED
      BY <1>0, <2>1, <2>2, GreetOne DEF GreetOK
  <1>3. CASE Break(d)
    <2>1. phase'[d] = "off" /\ up'[d] = <<>> /\ down'[d] = <<>> /\ revoking'[d] = revoking[d]
      BY <1>3 DEF Break, Sever, Joined, deviceVars, TypeOK, NetTypeOK
    <2>2. \/ wid'[d] = wid[d] /\ log'[d] = log[d]
          \/ wid'[d] = TRUE /\ log'[d] = draft[d] /\ draft[d] # <<>>
      BY <1>0, <1>3 DEF Break, Joined, deviceVars, Greeted, TypeOK, DeviceTypeOK
    <2>3. Greeted("off", wid'[d], log'[d], draft'[d], <<>>, <<>>)
      BY <1>1, <2>2, GreetedNone
    <2> QED
      BY <1>0, <2>1, <2>3, GreetOne DEF GreetOK
  <1>4. CASE Restart(d)
    <2>1. /\ phase'[d] = "off" /\ up'[d] = <<>> /\ down'[d] = <<>>
          /\ wid'[d] = FALSE /\ revoking'[d] = None
      BY <1>4 DEF Restart, Sever, TypeOK, NetTypeOK, DeviceTypeOK
    <2>2. Greeted("off", FALSE, log'[d], draft'[d], <<>>, <<>>)
      BY GreetedNone
    <2> QED
      BY <1>0, <2>1, <2>2, GreetOne DEF GreetOK
  <1>5. CASE RevokeFails(d)
    <2>1. /\ phase'[d] = phase[d] /\ up'[d] = up[d] /\ down'[d] = down[d] /\ draft'[d] = draft[d]
          /\ wid'[d] = wid[d] /\ log'[d] = log[d] /\ revoking'[d] = None
      BY <1>5 DEF RevokeFails, netVars, joinVars, TypeOK, DeviceTypeOK
    <2> QED
      BY <1>0, <2>1, GreetOne DEF GreetOK
  <1>6. ASSUME NEW g \in Grant, Join(d, g) \/ Invite(d, g) PROVE GreetInv'
    <2>1. /\ phase'[d] = phase[d] /\ up'[d] = up[d] /\ down'[d] = down[d] /\ draft'[d] = draft[d]
          /\ wid'[d] = wid[d] /\ log'[d] = log[d] /\ revoking'[d] = revoking[d]
      BY <1>6 DEF Join, Invite, netVars, joinVars, deviceVars
    <2> QED
      BY <1>0, <2>1, GreetOne DEF GreetOK
  <1> QED
    BY <1>2, <1>3, <1>4, <1>5, <1>6

\* What a device hears in a session.
LEMMA GreetHearing ==
    ASSUME TypeOK, GreetInv, NEW d \in Device,
           GuestSkips(d) \/ HearWrap(d) \/ HearWelcome(d) \/ HearAppended(d)
    PROVE  GreetInv'
  <1>0. DeviceStep(d) /\ Greeted(phase[d], wid[d], log[d], draft[d], up[d], down[d])
    BY DEF DeviceStep, GreetInv, GreetOK
  <1>1. /\ up[d] \in Seq(C2s) /\ down[d] \in Seq(S2c) /\ log[d] \in Log /\ draft[d] \in Log
        /\ wid[d] \in BOOLEAN
    BY DEF TypeOK, NetTypeOK, JoinTypeOK, DeviceTypeOK
  <1>2. down[d] # <<>> /\ down'[d] = Tail(down[d]) /\ Head(down[d]) \in S2c
    <2>1. down[d] # <<>> /\ down'[d] = Tail(down[d])
      BY DEF GuestSkips, HearWrap, HearWelcome, HearAppended, Received, Consume, TypeOK, NetTypeOK
    <2> QED
      BY <1>1, <2>1, ShrinksByOne
  <1>3. Greeted(phase[d], wid[d], log[d], draft[d], up[d], Tail(down[d]))
    BY <1>0, <1>1, <1>2, GreetHears
  <1>4. CASE GuestSkips(d) \/ HearWrap(d)
    <2>1. /\ phase'[d] = phase[d] /\ up'[d] = up[d] /\ draft'[d] = draft[d]
          /\ wid'[d] = wid[d] /\ log'[d] = log[d] /\ revoking'[d] = revoking[d]
      BY <1>4 DEF GuestSkips, HearWrap, joinVars, deviceVars
    <2> QED
      BY <1>0, <1>2, <1>3, <2>1, GreetOne DEF GreetOK
  <1>5. CASE HearWelcome(d)
    <2> DEFINE m == Head(down[d])
               l == IF m.tail = <<>> THEN log[d] ELSE m.tail
    <2>1. /\ phase'[d] = phase[d] /\ up'[d] = up[d] /\ draft'[d] = draft[d] /\ log'[d] = l
          /\ revoking'[d] = revoking[d] /\ m.type = "welcome"
      BY <1>5 DEF HearWelcome, Received, joinVars, TypeOK, DeviceTypeOK
    <2>2. wid'[d] = (wid[d] \/ Verifies(l))
      BY <1>5 DEF HearWelcome, TypeOK, DeviceTypeOK
    <2>3. wid'[d] => l # <<>>
      BY <1>0, <2>2 DEF Greeted, Verifies
    <2> HIDE DEF l, m
    <2>4. Greeted(phase[d], wid'[d], l, draft[d], up[d], Tail(down[d]))
      BY <1>0, <1>1, <1>2, <2>1, <2>3, GreetWelcome DEF m
    <2> QED
      BY <1>0, <1>2, <2>1, <2>4, GreetOne DEF GreetOK
  <1>6. CASE HearAppended(d)
    <2> DEFINE e == Head(down[d]).entry
               l == Append(log[d], e)
               ws == Wraps(d, {e.body.subject}, key[d], MembersOf(l))
               m == [type |-> "wraps", wraps |-> ws]
    <2>1. /\ phase'[d] = phase[d] /\ draft'[d] = draft[d] /\ log'[d] = l /\ wid'[d] = wid[d]
          /\ revoking'[d] = revoking[d] /\ Head(down[d]).type = "appended"
          /\ \/ up'[d] = up[d]
             \/ up'[d] = up[d] \o <<m>> /\ key[d] # None /\ e.body.type = "add"
      BY <1>6 DEF HearAppended, Received, ToRelay, joinVars, TypeOK, NetTypeOK, DeviceTypeOK
    <2>2. e \in Entry /\ phase[d] # "off"
      BY <1>2, <1>6, <2>1 DEF S2c, HearAppended
    <2>3. l \in Log /\ l # <<>>
      <3> HIDE DEF e
      <3>1. l \in Log /\ Len(l) = Len(log[d]) + 1 /\ Len(log[d]) \in Nat
        BY <1>1, <2>2, AppendProperties, LenProperties DEF Log
      <3> HIDE DEF l
      <3> QED
        BY <3>1, EmptySeq DEF Log
    <2>4. key[d] # None /\ e.body.type = "add" => m \in Plain
      <3> SUFFICES ASSUME key[d] # None, e.body.type = "add" PROVE ws \subseteq Wrap
        BY DEF Plain, C2s
      <3> HIDE DEF l
      <3>1. MembersOf(l) \in SUBSET Device /\ key[d] \in GroupKey
        BY DEF MembersOf, MembersAfter, TypeOK, DeviceTypeOK
      <3>2. e.body.subject \in Device
        BY <2>2 DEF Entry, Body
      <3> QED
        BY <3>1, <3>2, WrapsType
    <2> HIDE DEF l, m, e
    <2>5. Greeted(phase[d], wid[d], l, draft[d], up[d], Tail(down[d]))
      BY <1>3, <2>3, GreetLog
    <2>6. Greeted(phase[d], wid[d], l, draft[d], up'[d], Tail(down[d]))
      <3>1. CASE up'[d] = up[d]
        BY <2>5, <3>1
      <3>2. CASE up'[d] = up[d] \o <<m>> /\ m \in Plain
        <4>1. <<m>> \in Seq(Plain)
          BY <3>2
        <4> QED
          BY <1>1, <2>2, <2>5, <3>2, <4>1, GreetSends
      <3> QED
        BY <2>1, <2>4, <3>1, <3>2
    <2> QED
      BY <1>0, <1>2, <2>1, <2>6, GreetOne DEF GreetOK
  <1> QED
    BY <1>4, <1>5, <1>6

\* A rotation is built on the log its device has, which begins as the relay's.
LEMMA GreetRevokeSends ==
    ASSUME TypeOK, RelayLogValid, KeyInv, GreetInv, NEW d \in Device, NEW t \in Device,
           RevokeSends(d, t)
    PROVE  GreetInv'
  <1> DEFINE l == log[d]
             remove == BuildOn(l, RemoveBody(d, t))
             l2 == Append(l, remove)
             new == [epoch |-> EpochOf(l) + 1, by |-> d, n |-> revokes[d] + 1]
             rotate == BuildOn(l2, EpochBody(d, EpochOf(l) + 1, MembersOf(l2)))
             wraps == Wraps(d, MembersOf(l2) \ {d}, new, MembersOf(l2))
             asks == <<[type |-> "append", entry |-> remove], [type |-> "append", entry |-> rotate]>>
             rest == IF wraps = {} THEN <<>> ELSE <<[type |-> "wraps", wraps |-> wraps]>>
  <1>1. DeviceStep(d) /\ Greeted(phase[d], wid[d], log[d], draft[d], up[d], down[d])
    BY DEF DeviceStep, GreetInv, GreetOK
  <1>2. l \in Log /\ l # <<>> /\ revokes[d] \in Nat /\ up[d] \in Seq(C2s) /\ Verifies(l)
        /\ phase[d] # "off"
    BY DEF RevokeSends, Verifies, TypeOK, NetTypeOK, DeviceTypeOK, BoundsTypeOK
  <1>3. remove \in Entry /\ EpochOf(l) \in Nat
    BY <1>2, BodyType, BuildType DEF Log
  <1>4. l2 \in Log /\ l2 # <<>> /\ MembersOf(l2) \in SUBSET Device
    BY <1>2, <1>3, AppendProperties DEF Log, MembersOf, MembersAfter
  <1>5. rotate \in Entry
    <2>1. EpochBody(d, EpochOf(l) + 1, MembersOf(l2)) \in Body
      BY <1>3, <1>4, BodyType
    <2> QED
      BY <1>4, <2>1, BuildType DEF Log
  <1>6. wraps \subseteq Wrap
    <2>1. new \in GroupKey
      BY <1>2, <1>3 DEF GroupKey
    <2> HIDE DEF new
    <2> QED
      BY <1>4, <2>1, WrapsType
  <1>7. /\ phase'[d] = phase[d] /\ down'[d] = down[d] /\ log'[d] = log[d]
        /\ draft'[d] = draft[d] /\ wid'[d] = wid[d]
        /\ revoking'[d] = [length |-> Len(l), entries |-> <<remove, rotate>>, key |-> new]
        /\ up'[d] = up[d] \o (asks \o rest)
    BY DEF RevokeSends, ToRelay, joinVars, TypeOK, NetTypeOK, JoinTypeOK, DeviceTypeOK
  <1>8. asks \o rest \in Seq(Plain)
    <2> HIDE DEF wraps, remove, rotate
    <2>1. /\ [type |-> "append", entry |-> remove] \in Plain
          /\ [type |-> "append", entry |-> rotate] \in Plain
          /\ [type |-> "wraps", wraps |-> wraps] \in Plain
      BY <1>3, <1>5, <1>6 DEF Plain, C2s
    <2>2. asks \in Seq(Plain)
      BY <2>1
    <2>3. rest \in Seq(Plain)
      BY <2>1
    <2> QED
      BY <2>2, <2>3, ConcatProperties
  <1>9. Rotates(revoking'[d], relayLog[1])
    <2>1. l[1] = relayLog[1]
      BY <1>2, FirstEntry
    <2>2. HeadOf(l) = remove.prev
      BY DEF BuildOn
    <2> DEFINE r == [length |-> Len(l), entries |-> <<remove, rotate>>, key |-> new]
    <2>3. r.entries # <<>> /\ r.entries[1] = remove /\ r.key.epoch = EpochOf(l) + 1
      OBVIOUS
    <2> HIDE DEF r, l, remove
    <2>4. RotationOf(r, l, relayLog[1])
      BY <1>2, <2>1, <2>2, <2>3 DEF RotationOf
    <2> QED
      BY <1>2, <1>7, <2>4 DEF Rotates, r
  <1> HIDE DEF asks, rest
  <1>10. Greeted(phase[d], wid[d], log[d], draft[d], up[d] \o (asks \o rest), down[d])
    BY <1>1, <1>2, <1>8, GreetSends
  <1> QED
    BY <1>1, <1>7, <1>9, <1>10, GreetOne DEF GreetOK

LEMMA GreetRevokeAdopts ==
    ASSUME TypeOK, GreetInv, NEW d \in Device, RevokeAdopts(d)
    PROVE  GreetInv'
  <1> DEFINE r == revoking[d]
  <1>1. DeviceStep(d) /\ Greeted(phase[d], wid[d], log[d], draft[d], up[d], down[d])
    BY DEF DeviceStep, GreetInv, GreetOK
  <1>2. /\ phase'[d] = phase[d] /\ up'[d] = up[d] /\ down'[d] = down[d] /\ draft'[d] = draft[d]
        /\ wid'[d] = wid[d] /\ revoking'[d] = None
        /\ \/ log'[d] = log[d]
           \/ log'[d] = log[d] \o r.entries
    BY DEF RevokeAdopts, netVars, joinVars, TypeOK, DeviceTypeOK
  <1>3. log[d] \in Log /\ r.entries \in Log
    <2>1. r \in Revocation
      BY DEF RevokeAdopts, TypeOK, DeviceTypeOK
    <2> QED
      BY <2>1 DEF Revocation, TypeOK, DeviceTypeOK
  <1>4. wid[d] => log'[d] # <<>>
    <2>1. wid[d] => log[d] # <<>>
      BY <1>1 DEF Greeted
    <2>2. log[d] # <<>> => log[d] \o r.entries # <<>>
      <3>1. Len(log[d] \o r.entries) = Len(log[d]) + Len(r.entries)
        BY <1>3, ConcatProperties DEF Log
      <3>2. Len(log[d]) \in Nat /\ Len(r.entries) \in Nat
        BY <1>3, LenProperties DEF Log
      <3>3. log[d] # <<>> => Len(log[d]) # 0
        BY <1>3, EmptySeq DEF Log
      <3>4. log[d] \o r.entries = <<>> => Len(log[d] \o r.entries) = 0
        BY EmptySeq
      <3> QED
        BY <3>1, <3>2, <3>3, <3>4
    <2> QED
      BY <1>2, <2>1, <2>2
  <1>5. Greeted(phase[d], wid[d], log'[d], draft[d], up[d], down[d])
    BY <1>1, <1>4, GreetLog
  <1> QED
    BY <1>1, <1>2, <1>5, GreetOne DEF GreetOK

LEMMA GreetRelayRestart ==
    ASSUME TypeOK, GreetInv, RelayRestart
    PROVE  GreetInv'
  <1>1. relayLog' = relayLog /\ UNCHANGED <<wid, log, revoking>>
    BY DEF RelayRestart, deviceVars
  <1>2. ASSUME NEW x \in Device PROVE GreetOK(x)'
    <2>1. wid[x] \in BOOLEAN /\ (wid[x] => log[x] # <<>>)
      BY DEF GreetInv, GreetOK, Greeted, TypeOK, DeviceTypeOK
    <2>2. Greeted("off", wid[x], log[x], draft'[x], <<>>, <<>>)
      BY <2>1, GreetedNone
    <2>3. phase'[x] = "off" /\ up'[x] = <<>> /\ down'[x] = <<>>
      BY DEF RelayRestart
    <2> QED
      BY <1>1, <2>2, <2>3 DEF GreetOK
  <1> QED
    BY <1>1, <1>2 DEF GreetInv

LEMMA GreetStep ==
    TypeOK /\ RelayLogValid /\ KeyInv /\ GreetInv /\ [Next]_vars => GreetInv'
  <1> SUFFICES ASSUME TypeOK, RelayLogValid, KeyInv, GreetInv, [Next]_vars PROVE GreetInv'
    OBVIOUS
  <1>1. ASSUME NEW d \in Device, DeviceStep(d) PROVE GreetInv'
    BY <1>1, GreetSession, GreetEnds, GreetHearing, GreetRevokeSends, GreetRevokeAdopts
       DEF DeviceStep
  <1>2. CASE UNCHANGED vars
    BY <1>2 DEF vars, relayVars, netVars, joinVars, deviceVars, GreetInv, GreetOK
  <1> QED
    BY <1>1, <1>2, GreetRelay, GreetRelayRestart DEF Next

LEMMA GreetInvAlways == Spec => []GreetInv
  BY GreetInit, GreetStep, MembershipTypeCorrect, RelayLogAlwaysValid, KeyInvAlways, PTL DEF Spec

-----------------------------------------------------------------------------
(* The keys of a device.                                                   *)

\* An entry is known by its hash, which tells the hash of the entry before it.
LEMMA HashTells ==
    ASSUME NEW e \in Entry, NEW f \in Entry
    PROVE  /\ Len(Hash(e)) = Len(e.prev) + 1
           /\ Hash(e) = Hash(f) => e = f
  <1>1. /\ e.prev \in Seq(Body) /\ e.body \in Body /\ f.prev \in Seq(Body) /\ f.body \in Body
        /\ e = [prev |-> e.prev, body |-> e.body] /\ f = [prev |-> f.prev, body |-> f.body]
    BY DEF Entry
  <1>2. ASSUME NEW p, NEW b, NEW q, NEW c,
               p \in Seq(Body), b \in Body, q \in Seq(Body), c \in Body, Append(p, b) = Append(q, c)
        PROVE  p = q /\ b = c
    <2>1. /\ Len(p) \in Nat /\ Len(Append(p, b)) = Len(p) + 1 /\ Append(p, b)[Len(p) + 1] = b
          /\ \A i \in 1 .. Len(p) : Append(p, b)[i] = p[i]
      BY <1>2, AppendProperties
    <2>2. /\ Len(q) \in Nat /\ Len(Append(q, c)) = Len(q) + 1 /\ Append(q, c)[Len(q) + 1] = c
          /\ \A i \in 1 .. Len(q) : Append(q, c)[i] = q[i]
      BY <1>2, AppendProperties
    <2>3. Len(p) = Len(q)
      BY <1>2, <2>1, <2>2
    <2>4. b = c /\ \A i \in 1 .. Len(p) : p[i] = q[i]
      BY <1>2, <2>1, <2>2, <2>3
    <2> QED
      BY <1>2, <2>3, <2>4, SeqEqual
  <1>3. Len(Hash(e)) = Len(e.prev) + 1
    BY <1>1, AppendProperties DEF Hash
  <1>4. ASSUME Hash(e) = Hash(f) PROVE e = f
    <2>1. e.prev = f.prev /\ e.body = f.body
      BY <1>1, <1>2, <1>4 DEF Hash
    <2> QED
      BY <1>1, <2>1
  <1> QED
    BY <1>3, <1>4

\* The head decides: two verifiers whose logs begin with the same Create entry and
\* who find the same head (VerifiedLog.head) have accepted the same entries, and
\* so agree on the members and the epoch.
THEOREM HeadDecides ==
    ASSUME NEW l \in Log, NEW m \in Log, l # <<>>, m # <<>>, l[1] = m[1], HeadOf(l) = HeadOf(m)
    PROVE  /\ Accepted(l) = Accepted(m) /\ Same(l, m, Accepted(l))
           /\ MembersOf(l) = MembersOf(m) /\ EpochOf(l) = EpochOf(m)
  <1> DEFINE L == Accepted(l)
             K == Accepted(m)
             c == Len(l[1].prev)
  <1>1. /\ L \in 1 .. Len(l) /\ \A i \in 2 .. L : Fits(l, i)
        /\ K \in 1 .. Len(m) /\ \A i \in 2 .. K : Fits(m, i)
    BY AcceptedFits DEF Log
  <1>2. Len(l) \in Nat /\ Len(m) \in Nat
    BY LenProperties DEF Log
  <1>3. /\ \A i \in 1 .. Len(l) : l[i] \in Entry
        /\ \A i \in 1 .. Len(m) : m[i] \in Entry
    BY ElementOfSeq DEF Log
  <1>4. Hash(l[L]) = Hash(m[K])
    BY DEF HeadOf
  <1> HIDE DEF L, K
  <1>5. /\ \A i \in 1 .. L : Len(l[i].prev) = Len(l[1].prev) + (i - 1)
        /\ \A i \in 1 .. L : Len(l[i].prev) \in Nat
    BY <1>1, ChainPositions
  <1>6. /\ \A i \in 1 .. K : Len(m[i].prev) = Len(m[1].prev) + (i - 1)
        /\ \A i \in 1 .. K : Len(m[i].prev) \in Nat
    BY <1>1, ChainPositions
  <1>7. L = K
    <2>1. l[L] \in Entry /\ m[K] \in Entry
      BY <1>1, <1>3
    <2>2. Len(l[L].prev) + 1 = Len(m[K].prev) + 1
      BY <1>4, <2>1, HashTells
    <2>3. L \in 1 .. L /\ K \in 1 .. K /\ 1 \in 1 .. L
      BY <1>1, <1>2
    <2>4. Len(l[L].prev) = c + (L - 1) /\ Len(m[K].prev) = c + (K - 1) /\ c \in Nat
      BY <1>5, <1>6, <2>3
    <2> HIDE DEF c
    <2> QED
      BY <1>1, <1>2, <2>2, <2>4
  <1>8. \A i \in 1 .. L : i \in 1 .. Len(l) /\ i \in 1 .. Len(m) /\ l[i] \in Entry /\ m[i] \in Entry
    BY <1>1, <1>2, <1>3, <1>7
  <1> DEFINE Apart == {n \in Nat : n < L /\ l[L - n] # m[L - n]}
  <1>9. Apart = {}
    <2> SUFFICES ASSUME Apart # {} PROVE FALSE
      OBVIOUS
    <2>1. PICK n \in Apart : \A k \in Apart : n <= k
      BY LeastOfNats
    <2>2. n \in Nat /\ n < L /\ l[L - n] # m[L - n]
      BY <2>1
    <2>3. L \in Nat /\ L \in 1 .. L
      BY <1>1, <1>2
    <2>4. l[L] = m[L]
      BY <1>4, <1>7, <1>8, <2>3, HashTells
    <2>5. n # 0
      BY <2>2, <2>3, <2>4
    <2>6. n - 1 \in Nat /\ n - 1 < L /\ L - (n - 1) = (L - n) + 1 /\ ~(n <= n - 1)
      BY <2>2, <2>3, <2>5
    <2>7. l[(L - n) + 1] = m[(L - n) + 1]
      BY <2>1, <2>6
    <2>8. /\ L - n \in 1 .. L /\ (L - n) + 1 \in 2 .. L /\ ((L - n) + 1) - 1 = L - n
      BY <2>2, <2>3, <2>5
    <2>9. Hash(l[L - n]) = Hash(m[L - n])
      BY <1>1, <1>7, <2>7, <2>8 DEF Fits
    <2> QED
      BY <1>8, <2>2, <2>8, <2>9, HashTells
  <1>10. Same(l, m, L)
    <2> SUFFICES ASSUME NEW i \in 1 .. L PROVE l[i] = m[i]
      BY DEF Same
    <2>1. L - i \in Nat /\ L - i < L /\ L - (L - i) = i
      BY <1>1, <1>2
    <2> QED
      BY <1>9, <2>1
  <1>11. L \in Nat /\ L \in 1 .. L
    BY <1>1, <1>2
  <1>12. MembersAfter(l, L) = MembersAfter(m, L) /\ EpochAfter(l, L) = EpochAfter(m, L)
    BY <1>10, <1>11, SamePrefix
  <1> QED
    BY <1>7, <1>10, <1>12 DEF MembersOf, EpochOf, L, K

\* A wrap that is taken holds a key of the epoch of the log it is verified with.
LEMMA KeyFromGrows ==
    ASSUME TypeOK, NEW d \in Device, key[d] # None, NEW w \in Wrap \cup {None}, NEW l \in Log
    PROVE  LET k == KeyFrom(d, w, l)
           IN  /\ k # None /\ k \in GroupKey
               /\ k = key[d] \/ (Verifies(l) /\ k.epoch = EpochOf(l) /\ wid[d])
  <1>1. key[d] \in GroupKey
    BY DEF TypeOK, DeviceTypeOK
  <1>2. CASE Takes(d, w, l)
    <2>1. w \in Wrap /\ wid[d] /\ Verifies(l) /\ w.key.epoch = EpochOf(l)
      BY <1>2 DEF Takes, WrapFits
    <2>2. w.key \in GroupKey /\ w.key # None
      BY <2>1, MembershipAssumption DEF Wrap
    <2> QED
      BY <1>2, <2>1, <2>2 DEF KeyFrom
  <1>3. CASE ~Takes(d, w, l)
    BY <1>1, <1>3 DEF KeyFrom
  <1> QED
    BY <1>2, <1>3

\* Of two epochs one is not the smaller.
LEMMA EpochsCompare ==
    ASSUME NEW l \in Log, Verifies(l), NEW k \in GroupKey
    PROVE  EpochOf(l) \in Nat /\ (EpochOf(l) >= k.epoch \/ EpochOf(l) < k.epoch)
  <1>1. EpochOf(l) \in Nat
    <2>1. Accepted(l) \in 1 .. Len(l) /\ Len(l) \in Nat
      BY AcceptedFits, LenProperties DEF Log, Verifies
    <2>2. Accepted(l) \in Nat
      BY <2>1
    <2> QED
      BY <2>2, EpochType DEF EpochOf
  <1>2. k.epoch \in Nat
    BY DEF GroupKey
  <1> QED
    BY <1>1, <1>2

\* A step of the device whose key it is.
LEMMA KeyEpochsStep ==
    ASSUME TypeOK, RelayLogValid, KeyInv, GreetInv, NEW d \in Device, DeviceStep(d), key[d] # None
    PROVE  /\ key'[d] # None
           /\ \/ key'[d].epoch >= key[d].epoch
              \/ Verifies(log[d]) /\ EpochOf(log[d]) < key[d].epoch
              \/ RevokeAdopts(d) /\ ~BuiltOnLog(d)
  <1>1. key[d] \in GroupKey /\ key[d].epoch \in Nat /\ key \in [Device -> GroupKey \cup {None}]
        /\ log[d] \in Log /\ down[d] \in Seq(S2c)
    BY DEF TypeOK, NetTypeOK, DeviceTypeOK, GroupKey
  <1>2. CASE key'[d] = key[d]
    BY <1>1, <1>2
  <1>3. CASE HearWrap(d)
    <2> DEFINE w == Head(down[d]).wrap
               k == KeyFrom(d, w, log[d])
    <2>1. down[d] # <<>> /\ Head(down[d]).type = "wrap" /\ key'[d] = k
      BY <1>1, <1>3 DEF HearWrap, Received
    <2>2. w \in Wrap \cup {None}
      BY <1>1, <2>1, ShrinksByOne DEF S2c
    <2> HIDE DEF w
    <2>3. k # None /\ (k = key[d] \/ (Verifies(log[d]) /\ k.epoch = EpochOf(log[d])))
      BY <1>1, <2>2, KeyFromGrows
    <2> HIDE DEF k
    <2> QED
      BY <1>1, <1>2, <2>1, <2>3, EpochsCompare
  <1>4. CASE HearWelcome(d)
    <2> DEFINE m == Head(down[d])
               l == IF m.tail = <<>> THEN log[d] ELSE m.tail
               k == KeyFrom(d, m.wrap, l)
    <2>1. down[d] # <<>> /\ m.type = "welcome" /\ key'[d] = k
      BY <1>1, <1>4 DEF HearWelcome, Received
    <2>2. m \in S2c
      BY <1>1, <2>1, ShrinksByOne
    <2>3. m.wrap \in Wrap \cup {None} /\ m.tail \in Log /\ l \in Log
      BY <1>1, <2>1, <2>2 DEF S2c
    <2>4. wid[d] => ~Verifies(m.tail)
      <3>1. wid[d] => m \in Stale
        BY <1>1, <2>1, ShrinksByOne DEF GreetInv, GreetOK, Greeted
      <3> QED
        BY <2>1, <3>1 DEF Stale
    <2> HIDE DEF m
    <2>5. k # None /\ (k = key[d] \/ (Verifies(l) /\ k.epoch = EpochOf(l) /\ wid[d]))
      BY <1>1, <2>3, KeyFromGrows
    <2>6. k = key[d] \/ (Verifies(log[d]) /\ k.epoch = EpochOf(log[d]))
      BY <2>4, <2>5
    <2> HIDE DEF k, l
    <2> QED
      BY <1>1, <1>2, <2>1, <2>5, <2>6, EpochsCompare
  <1>5. CASE RevokeAdopts(d)
    <2> DEFINE r == revoking[d]
    <2>1. r # None /\ (key'[d] = key[d] \/ key'[d] = r.key)
      BY <1>1, <1>5 DEF RevokeAdopts
    <2>2. r.key \in GroupKey /\ r.key # None
      <3>1. r \in Revocation
        BY <2>1 DEF TypeOK, DeviceTypeOK
      <3> QED
        BY <3>1, MembershipAssumption DEF Revocation
    <2>3. ASSUME BuiltOnLog(d) PROVE Verifies(log[d]) /\ r.key.epoch = EpochOf(log[d]) + 1
      <3>1. PICK l \in Log : RotationOf(r, l, relayLog[1])
        BY <2>1 DEF GreetInv, Rotates
      <3>2. Verifies(log[d]) /\ r.entries[1].prev = HeadOf(log[d])
        BY <2>3 DEF BuiltOnLog
      <3>3. l # <<>> /\ l[1] = relayLog[1] /\ HeadOf(l) = r.entries[1].prev
            /\ r.key.epoch = EpochOf(l) + 1
        BY <3>1 DEF RotationOf, Verifies
      <3>4. log[d] # <<>> /\ log[d][1] = relayLog[1]
        BY <3>2, FirstEntry
      <3>5. EpochOf(l) = EpochOf(log[d])
        BY <1>1, <3>2, <3>3, <3>4, HeadDecides
      <3> QED
        BY <3>2, <3>3, <3>5
    <2> HIDE DEF r
    <2>4. CASE key'[d] = r.key /\ BuiltOnLog(d)
      <3> DEFINE n == EpochOf(log[d])
      <3>1. n \in Nat /\ key'[d].epoch = n + 1 /\ Verifies(log[d])
        BY <1>1, <2>3, <2>4, EpochsCompare
      <3> HIDE DEF n
      <3>2. key'[d].epoch >= key[d].epoch \/ n < key[d].epoch
        BY <1>1, <3>1
      <3> QED
        BY <2>2, <2>4, <3>1, <3>2 DEF n
    <2> QED
      BY <1>2, <1>5, <2>1, <2>2, <2>4
  <1>6. \/ key'[d] = key[d]
        \/ HearWrap(d) \/ HearWelcome(d) \/ RevokeAdopts(d)
    BY DEF DeviceStep, Connect, Join, Invite, GuestGetsLog, GuestGivesUp, GuestGetsAnswer,
       GuestSkips, Break, HearAppended, RevokeSends, RevokeFails, Restart, deviceVars, Joined
  <1> QED
    BY <1>2, <1>3, <1>4, <1>5, <1>6

\* A key is never lost, nor replaced by one of an earlier epoch, in whatever order
\* pushes, mailbox and own rotations come, with the two exceptions named: the
\* verified log never reached the key's epoch, or revoke_member, which compares
\* lengths only, adopts a rotation on a log it was not built on.
THEOREM KeyEpochsAlwaysGrow == Spec => KeyEpochsGrow
  <1> DEFINE Grows(d) ==
                 key[d] # None =>
                     /\ key'[d] # None
                     /\ \/ key'[d].epoch >= key[d].epoch
                        \/ Verifies(log[d]) /\ EpochOf(log[d]) < key[d].epoch
                        \/ RevokeAdopts(d) /\ ~BuiltOnLog(d)
  <1>1. ASSUME TypeOK, RelayLogValid, KeyInv, GreetInv, Next, NEW d \in Device
        PROVE  Grows(d)
    <2>1. key[d] # None => key[d].epoch \in Nat
      BY <1>1 DEF TypeOK, DeviceTypeOK, GroupKey
    <2>2. CASE key'[d] = key[d]
      BY <2>1, <2>2
    <2>3. CASE DeviceStep(d)
      BY <1>1, <2>3, KeyEpochsStep
    <2>4. ASSUME NEW x \in Device, DeviceStep(x), x # d PROVE key'[d] = key[d]
      BY <1>1, <2>4, Aside
    <2>5. ASSUME NEW x \in Device, RelayReads(x) PROVE key'[d] = key[d]
      BY <2>5 DEF RelayReads, deviceVars
    <2>6. CASE RelayRestart
      BY <2>2, <2>6 DEF RelayRestart, deviceVars
    <2> QED
      BY <1>1, <2>2, <2>3, <2>4, <2>5, <2>6 DEF Next
  <1>2. TypeOK /\ RelayLogValid /\ KeyInv /\ GreetInv /\ [Next]_vars
          => [\A d \in Device : Grows(d)]_vars
    BY <1>1
  <1> QED
    BY <1>2, MembershipTypeCorrect, RelayLogAlwaysValid, KeyInvAlways, GreetInvAlways, PTL
       DEF Spec, KeyEpochsGrow

-----------------------------------------------------------------------------
(* While nothing goes wrong.  A founder, a member at the start, keeps one  *)
(* session until something goes wrong; what it has and what the relay has  *)
(* differ by what is under way between them, or the founder is bound to    *)
(* have an entry turned down.  R is the relay's log, l, r, gk, u and q are *)
(* a device's log, rotation, key and queues, F are the founders.           *)

Founders == MembersOf(limit.first)

\* The part of Undisturbed that, once lost, stays lost.
Calm ==
    /\ rejected = {}
    /\ relayRestarts = 0
    /\ \A d \in Device : breaks[d] + restarts[d] = 0

\* What a founder sends and hears.
Sends == {m \in C2s : m.type = "wraps" \/ (m.type = "append" /\ m.entry.body.type # "add")}
Hears == {m \in S2c : m.type \in {"appended", "wrap"}}

Steady(p, k, u, q) == p = "online" /\ k /\ u \in Seq(Sends) /\ q \in Seq(Hears)

\* An Add entry pushed to a device is that of no founder.
NewsOK(q, F) ==
    \A i \in 1 .. Len(q) :
        q[i].type = "appended" /\ q[i].entry.body.type = "add" => q[i].entry.body.subject \notin F

Is(m, type) == m.type = "append" /\ m.entry.body.type = type

ForAny(m, F) == m.type = "wraps" /\ \E w \in m.wraps : w.to \in F

\* The wraps that go with the Epoch entry of body b and its key k.
WrapsOf(b, k) == [type |-> "wraps", wraps |-> Wraps(b.rotator, b.members \ {b.rotator}, k, b.members)]

\* Message i of queue u is the Epoch entry of y for key k, and the wraps are next.
Rotating(u, y, i, k) ==
    LET b == u[i].entry.body
    IN  /\ b.rotator = y /\ k.epoch = b.number
        /\ b.members \ {y} # {} => i + 1 <= Len(u) /\ u[i + 1] = WrapsOf(b, k)

\* What y sends of a revocation is one behind the other: Remove, Epoch, wraps.
InOrder(u, y, F, i) ==
    /\ Is(u[i], "remove") =>
           i + 1 <= Len(u) /\ Is(u[i + 1], "epoch") /\ u[i].entry.body.target # y
    /\ Is(u[i], "epoch") => \E k \in GroupKey : Rotating(u, y, i, k)
    /\ i > 1 /\ ForAny(u[i], F) =>
           Is(u[i - 1], "epoch") /\ u[i - 1].entry.body.members \ {y} # {}

Ordered(u, y, F) == \A i \in 1 .. Len(u) : InOrder(u, y, F, i)

\* The messages of a revocation with entries remove and rotate and key k.
Revocations(ms, remove, rotate, k) ==
    LET others == rotate.body.members \ {rotate.body.rotator}
    IN  /\ ms \in Seq(C2s) /\ Len(ms) = (IF others = {} THEN 2 ELSE 3)
        /\ ms[1].type = "append" /\ ms[1].entry = remove
        /\ ms[2].type = "append" /\ ms[2].entry = rotate
        /\ others # {} => ms[3] = WrapsOf(rotate.body, k)

\* No message of queue q has the type.
Silent(q, type) == \A i \in 1 .. Len(q) : q[i].type # type

Rising(l) == \A i, j \in 1 .. Len(l) : i < j => Len(l[i].prev) < Len(l[j].prev)

\* The entries of a type of message come in the order of a log.
InSequence(q, type) ==
    \A i, j \in 1 .. Len(q) :
        i < j /\ q[i].type = type /\ q[j].type = type => Len(q[i].entry.prev) < Len(q[j].entry.prev)

\* The messages of a type in queue q carry the entries of log l behind the first n,
\* in their order.
Tells(q, type, l, n) ==
    /\ \A j \in 1 .. Len(l) : j > n => \E i \in 1 .. Len(q) : q[i].type = type /\ q[i].entry = l[j]
    /\ \A i \in 1 .. Len(q) : q[i].type = type => \E j \in 1 .. Len(l) : j > n /\ q[i].entry = l[j]
    /\ InSequence(q, type)

\* Log m and the relay's differ by what is under way.
Level(R, m, u, q) ==
    /\ FullyValid(m)
    /\ \A j \in 1 .. Len(R) : j <= Len(m) => R[j] = m[j]
    /\ Tells(q, "appended", R, Len(m))
    /\ Tells(u, "append", m, Len(R))

\* What a device has, with its own rotation under way.
Mine(l, r) == IF r = None THEN l ELSE l \o r.entries

HeldKey(gk, r) == IF r = None THEN gk ELSE r.key

\* The relay will turn an entry down, or the device will give its rotation up.
Late(R, u) ==
    \E i \in 1 .. Len(u) : u[i].type = "append" /\ Len(u[i].entry.prev) < Len(R[1].prev) + Len(R)

Doomed(R, l, r, u) == (r # None /\ Len(l) > r.length) \/ Late(R, u)

Follows(x, R, l, r, u, q) ==
    \/ Doomed(R, l, r, u)
    \/ /\ Level(R, Mine(l, r), u, q)
       /\ Len(Mine(l, r)) >= Len(R) => x \in MembersAfter(Mine(l, r), Len(Mine(l, r)))
       /\ r # None => Len(l) = r.length

-----------------------------------------------------------------------------
(* Lemmas about queues of revocations and of entries.                      *)

\* A queue without its first message.
LEMMA WithoutHead ==
    ASSUME NEW S, NEW q \in Seq(S), q # <<>>
    PROVE  /\ Len(q) \in Nat /\ Len(q) >= 1 /\ Len(Tail(q)) = Len(q) - 1 /\ Head(q) = q[1]
           /\ Head(q) \in S /\ Tail(q) \in Seq(S)
           /\ \A i \in 1 .. Len(Tail(q)) : Tail(q)[i] = q[i + 1] /\ i + 1 \in 1 .. Len(q)
           /\ \A i \in 1 .. Len(q) : i # 1 => i - 1 \in 1 .. Len(Tail(q)) /\ Tail(q)[i - 1] = q[i]
  <1> DEFINE r == Tail(q)
  <1>1. /\ Len(q) \in Nat /\ Len(q) >= 1 /\ Len(r) = Len(q) - 1 /\ Head(q) = q[1]
        /\ Head(q) \in S /\ r \in Seq(S)
        /\ \A i \in 1 .. Len(r) : r[i] = q[i + 1]
    BY HeadTailProperties, LenProperties, EmptySeq, ElementOfSeq
  <1> HIDE DEF r
  <1>2. ASSUME NEW i \in 1 .. Len(q), i # 1 PROVE i - 1 \in 1 .. Len(r) /\ i - 1 + 1 = i
    BY <1>1, <1>2
  <1>3. \A i \in 1 .. Len(r) : i + 1 \in 1 .. Len(q)
    BY <1>1
  <1>4. \A i \in 1 .. Len(q) : i # 1 => i - 1 \in 1 .. Len(r) /\ r[i - 1] = q[i]
    BY <1>1, <1>2
  <1> QED
    BY <1>1, <1>3, <1>4 DEF r

\* Queue r is ms behind q.
Spliced(r, q, ms) ==
    /\ Len(q) \in Nat /\ Len(ms) \in Nat /\ Len(r) = Len(q) + Len(ms)
    /\ \A i \in 1 .. Len(q) : r[i] = q[i] /\ i \in 1 .. Len(r)
    /\ \A i \in 1 .. Len(ms) : r[Len(q) + i] = ms[i] /\ Len(q) + i \in 1 .. Len(r)
    /\ \A i \in 1 .. Len(r) : i \in 1 .. Len(q) \/ \E j \in 1 .. Len(ms) : i = Len(q) + j

LEMMA Behind ==
    ASSUME NEW S, NEW q \in Seq(S), NEW ms \in Seq(S), NEW r, r = q \o ms
    PROVE  Spliced(r, q, ms) /\ r \in Seq(S)
  <1>1. /\ Len(q) \in Nat /\ Len(ms) \in Nat /\ Len(r) = Len(q) + Len(ms) /\ r \in Seq(S)
        /\ \A i \in 1 .. Len(q) + Len(ms) : r[i] = IF i <= Len(q) THEN q[i] ELSE ms[i - Len(q)]
    BY ConcatProperties, LenProperties
  <1>2. ASSUME NEW i \in 1 .. Len(q) PROVE r[i] = q[i] /\ i \in 1 .. Len(r)
    BY <1>1
  <1>3. ASSUME NEW i \in 1 .. Len(ms) PROVE r[Len(q) + i] = ms[i] /\ Len(q) + i \in 1 .. Len(r)
    <2>1. Len(q) + i \in 1 .. Len(q) + Len(ms) /\ ~(Len(q) + i <= Len(q)) /\ Len(q) + i - Len(q) = i
      BY <1>1
    <2> QED
      BY <1>1, <2>1
  <1>4. ASSUME NEW i \in 1 .. Len(r), i \notin 1 .. Len(q)
        PROVE  \E j \in 1 .. Len(ms) : i = Len(q) + j
    <2>1. i - Len(q) \in 1 .. Len(ms) /\ i = Len(q) + (i - Len(q))
      BY <1>1, <1>4
    <2> QED
      BY <2>1
  <1> QED
    BY <1>1, <1>2, <1>3, <1>4 DEF Spliced

LEMMA AppendIsBehind ==
    ASSUME NEW S, NEW q \in Seq(S), NEW m \in S
    PROVE  /\ Append(q, m) = q \o <<m>> /\ <<m>> \in Seq(S)
           /\ Len(<<m>>) = 1 /\ <<m>>[1] = m /\ \A i \in 1 .. Len(<<m>>) : i = 1
  OBVIOUS

\* A rotation is where it was in a queue that loses its head or grows.
LEMMA RotatingMoves ==
    ASSUME NEW u \in Seq(C2s), NEW y, NEW k
    PROVE  /\ u # <<>> => \A i \in 1 .. Len(Tail(u)) :
                              Rotating(Tail(u), y, i, k) <=> Rotating(u, y, i + 1, k)
           /\ \A ms \in Seq(C2s) :
                  /\ \A i \in 1 .. Len(u) : Rotating(u, y, i, k) => Rotating(u \o ms, y, i, k)
                  /\ \A i \in 1 .. Len(ms) :
                         Rotating(ms, y, i, k) <=> Rotating(u \o ms, y, Len(u) + i, k)
  <1>1. ASSUME u # <<>>, NEW i \in 1 .. Len(Tail(u)), NEW r, r = Tail(u)
        PROVE  Rotating(r, y, i, k) <=> Rotating(u, y, i + 1, k)
    <2>1. /\ Len(u) \in Nat /\ Len(r) = Len(u) - 1 /\ r[i] = u[i + 1]
          /\ \A j \in 1 .. Len(r) : r[j] = u[j + 1]
      BY <1>1, WithoutHead
    <2>2. /\ i + 1 <= Len(r) <=> i + 1 + 1 <= Len(u)
          /\ i + 1 <= Len(r) => i + 1 \in 1 .. Len(r)
      BY <1>1, <2>1
    <2>3. i + 1 <= Len(r) => r[i + 1] = u[i + 1 + 1]
      BY <2>1, <2>2
    <2> QED
      BY <2>1, <2>2, <2>3 DEF Rotating
  <1>2. ASSUME NEW ms \in Seq(C2s), NEW r, r = u \o ms, NEW i \in 1 .. Len(u), Rotating(u, y, i, k)
        PROVE  Rotating(r, y, i, k)
    <2>1. /\ Len(u) \in Nat /\ Len(ms) \in Nat /\ Len(r) = Len(u) + Len(ms)
          /\ \A j \in 1 .. Len(u) : r[j] = u[j]
      BY <1>2, Behind DEF Spliced
    <2>2. i + 1 <= Len(u) => i + 1 <= Len(r) /\ i + 1 \in 1 .. Len(u)
      BY <1>2, <2>1
    <2> QED
      BY <1>2, <2>1, <2>2 DEF Rotating
  <1>3. ASSUME NEW ms \in Seq(C2s), NEW r, r = u \o ms, NEW i \in 1 .. Len(ms)
        PROVE  Rotating(ms, y, i, k) <=> Rotating(r, y, Len(u) + i, k)
    <2>1. /\ Len(u) \in Nat /\ Len(ms) \in Nat /\ Len(r) = Len(u) + Len(ms)
          /\ \A j \in 1 .. Len(ms) : r[Len(u) + j] = ms[j]
      BY <1>3, Behind DEF Spliced
    <2>2. /\ i + 1 <= Len(ms) <=> Len(u) + i + 1 <= Len(r)
          /\ i + 1 <= Len(ms) => i + 1 \in 1 .. Len(ms)
          /\ Len(u) + (i + 1) = Len(u) + i + 1
      BY <1>3, <2>1
    <2>3. i + 1 <= Len(ms) => r[Len(u) + i + 1] = ms[i + 1]
      BY <2>1, <2>2
    <2> QED
      BY <2>1, <2>2, <2>3 DEF Rotating
  <1> QED
    BY <1>1, <1>2, <1>3

LEMMA OrderedTail ==
    ASSUME NEW u \in Seq(C2s), u # <<>>, NEW y, NEW F, Ordered(u, y, F)
    PROVE  Ordered(Tail(u), y, F)
  <1> SUFFICES ASSUME NEW r, r = Tail(u) PROVE Ordered(r, y, F)
    OBVIOUS
  <1>1. /\ Len(u) \in Nat /\ Len(r) = Len(u) - 1
        /\ \A i \in 1 .. Len(r) : r[i] = u[i + 1] /\ i + 1 \in 1 .. Len(u)
    BY WithoutHead
  <1>2. \A i \in 1 .. Len(r), k \in GroupKey : Rotating(u, y, i + 1, k) => Rotating(r, y, i, k)
    BY RotatingMoves
  <1>3. ASSUME NEW i \in 1 .. Len(r) PROVE InOrder(r, y, F, i)
    <2>1. InOrder(u, y, F, i + 1) /\ r[i] = u[i + 1]
      BY <1>1 DEF Ordered
    <2>2. /\ i + 1 + 1 <= Len(u) => i + 1 <= Len(r) /\ i + 1 \in 1 .. Len(r)
          /\ i > 1 => i + 1 > 1 /\ i - 1 \in 1 .. Len(r) /\ i - 1 + 1 = i /\ i + 1 - 1 = i
      BY <1>1
    <2>3. i + 1 + 1 <= Len(u) => r[i + 1] = u[i + 1 + 1]
      BY <1>1, <2>2
    <2>4. i > 1 => r[i - 1] = u[i]
      BY <1>1, <2>2
    <2>5. Is(r[i], "remove") =>
              i + 1 <= Len(r) /\ Is(r[i + 1], "epoch") /\ r[i].entry.body.target # y
      BY <2>1, <2>2, <2>3 DEF InOrder
    <2>6. Is(r[i], "epoch") => \E k \in GroupKey : Rotating(r, y, i, k)
      BY <1>2, <2>1 DEF InOrder
    <2>7. i > 1 /\ ForAny(r[i], F) => Is(r[i - 1], "epoch") /\ r[i - 1].entry.body.members \ {y} # {}
      BY <2>1, <2>2, <2>4 DEF InOrder
    <2> QED
      BY <2>5, <2>6, <2>7 DEF InOrder
  <1> QED
    BY <1>3 DEF Ordered

LEMMA OrderedBehind ==
    ASSUME NEW u \in Seq(C2s), NEW ms \in Seq(C2s), NEW y, NEW F,
           Ordered(u, y, F), Ordered(ms, y, F), ms # <<>> => ~ForAny(ms[1], F)
    PROVE  Ordered(u \o ms, y, F)
  <1> SUFFICES ASSUME NEW r, r = u \o ms PROVE Ordered(r, y, F)
    OBVIOUS
  <1>1. /\ Len(u) \in Nat /\ Len(ms) \in Nat /\ Len(r) = Len(u) + Len(ms)
        /\ \A i \in 1 .. Len(u) : r[i] = u[i]
        /\ \A i \in 1 .. Len(ms) : r[Len(u) + i] = ms[i]
        /\ \A i \in 1 .. Len(r) : i \in 1 .. Len(u) \/ \E j \in 1 .. Len(ms) : i = Len(u) + j
    <2>1. Spliced(r, u, ms)
      BY Behind
    <2> QED
      BY <2>1 DEF Spliced
  <1>2. /\ \A i \in 1 .. Len(u), k \in GroupKey : Rotating(u, y, i, k) => Rotating(r, y, i, k)
        /\ \A i \in 1 .. Len(ms), k \in GroupKey :
               Rotating(ms, y, i, k) => Rotating(r, y, Len(u) + i, k)
    BY RotatingMoves
  <1>3. ASSUME NEW i \in 1 .. Len(u) PROVE InOrder(r, y, F, i)
    <2>1. InOrder(u, y, F, i) /\ r[i] = u[i]
      BY <1>1 DEF Ordered
    <2>2. /\ i + 1 <= Len(u) => i + 1 <= Len(r) /\ r[i + 1] = u[i + 1]
          /\ i > 1 => r[i - 1] = u[i - 1]
      <3>1. /\ i + 1 <= Len(u) => i + 1 <= Len(r) /\ i + 1 \in 1 .. Len(u)
            /\ i > 1 => i - 1 \in 1 .. Len(u)
        BY <1>1
      <3> QED
        BY <1>1, <3>1
    <2>5. Is(r[i], "remove") =>
              i + 1 <= Len(r) /\ Is(r[i + 1], "epoch") /\ r[i].entry.body.target # y
      BY <2>1, <2>2 DEF InOrder
    <2>6. Is(r[i], "epoch") => \E k \in GroupKey : Rotating(r, y, i, k)
      BY <1>2, <2>1 DEF InOrder
    <2>7. i > 1 /\ ForAny(r[i], F) => Is(r[i - 1], "epoch") /\ r[i - 1].entry.body.members \ {y} # {}
      BY <2>1, <2>2 DEF InOrder
    <2> QED
      BY <2>5, <2>6, <2>7 DEF InOrder
  <1>4. ASSUME NEW i \in 1 .. Len(ms), NEW j, j = Len(u) + i PROVE InOrder(r, y, F, j)
    <2>1. InOrder(ms, y, F, i) /\ r[j] = ms[i]
      BY <1>1, <1>4 DEF Ordered
    <2>2. /\ i + 1 <= Len(ms) => j + 1 <= Len(r) /\ r[j + 1] = ms[i + 1]
          /\ i # 1 => i > 1 /\ r[j - 1] = ms[i - 1]
      <3>1. /\ i + 1 <= Len(ms) => j + 1 <= Len(r) /\ i + 1 \in 1 .. Len(ms) /\ j + 1 = Len(u) + (i + 1)
            /\ i # 1 => i > 1 /\ i - 1 \in 1 .. Len(ms) /\ j - 1 = Len(u) + (i - 1)
        BY <1>1, <1>4
      <3> QED
        BY <1>1, <3>1
    <2>5. Is(r[j], "remove") =>
              j + 1 <= Len(r) /\ Is(r[j + 1], "epoch") /\ r[j].entry.body.target # y
      BY <2>1, <2>2 DEF InOrder
    <2>6. Is(r[j], "epoch") => \E k \in GroupKey : Rotating(r, y, j, k)
      BY <1>2, <1>4, <2>1 DEF InOrder
    <2>7. j > 1 /\ ForAny(r[j], F) => Is(r[j - 1], "epoch") /\ r[j - 1].entry.body.members \ {y} # {}
      <3>1. i = 1 => ms # <<>>
        BY <1>1
      <3> QED
        BY <2>1, <2>2, <3>1 DEF InOrder
    <2> QED
      BY <2>5, <2>6, <2>7 DEF InOrder
  <1>5. ASSUME NEW i \in 1 .. Len(r) PROVE InOrder(r, y, F, i)
    BY <1>1, <1>3, <1>4
  <1> QED
    BY <1>5 DEF Ordered

\* Queues that tell of a log.
LEMMA TellsNone ==
    ASSUME NEW q, NEW type, NEW l, NEW n \in Nat, Len(l) \in Nat
    PROVE  /\ Tells(q, type, l, n) /\ Len(l) <= n => Silent(q, type)
           /\ Tells(q, type, l, n) /\ Silent(q, type) => Len(l) <= n
           /\ Silent(q, type) /\ Len(l) <= n => Tells(q, type, l, n)
  <1>1. ASSUME Tells(q, type, l, n), Len(l) <= n PROVE Silent(q, type)
    <2>1. \A j \in 1 .. Len(l) : ~(j > n)
      BY <1>1
    <2> QED
      BY <1>1, <2>1 DEF Tells, Silent
  <1>2. ASSUME Tells(q, type, l, n), Silent(q, type), ~(Len(l) <= n) PROVE FALSE
    <2>1. Len(l) \in 1 .. Len(l) /\ Len(l) > n
      BY <1>2
    <2> QED
      BY <1>2, <2>1 DEF Tells, Silent
  <1>3. ASSUME Silent(q, type), Len(l) <= n PROVE Tells(q, type, l, n)
    <2>1. \A j \in 1 .. Len(l) : ~(j > n)
      BY <1>3
    <2> QED
      BY <1>3, <2>1 DEF Tells, Silent, InSequence
  <1> QED
    BY <1>1, <1>2, <1>3

LEMMA TellsTail ==
    ASSUME NEW S, NEW q \in Seq(S), q # <<>>, NEW type, Head(q).type # type, NEW l, NEW n \in Nat,
           Tells(q, type, l, n)
    PROVE  Tells(Tail(q), type, l, n)
  <1> SUFFICES ASSUME NEW r, r = Tail(q) PROVE Tells(r, type, l, n)
    OBVIOUS
  <1>1. /\ Head(q) = q[1]
        /\ \A i \in 1 .. Len(r) : r[i] = q[i + 1] /\ i + 1 \in 1 .. Len(q)
        /\ \A i \in 1 .. Len(q) : i # 1 => i - 1 \in 1 .. Len(r) /\ r[i - 1] = q[i]
    BY WithoutHead
  <1>2. ASSUME NEW j \in 1 .. Len(l), j > n
        PROVE  \E i \in 1 .. Len(r) : r[i].type = type /\ r[i].entry = l[j]
    <2>1. PICK i \in 1 .. Len(q) : q[i].type = type /\ q[i].entry = l[j]
      BY <1>2 DEF Tells
    <2>2. i # 1
      BY <1>1, <2>1
    <2> QED
      BY <1>1, <2>1, <2>2
  <1>3. ASSUME NEW i \in 1 .. Len(r), r[i].type = type
        PROVE  \E j \in 1 .. Len(l) : j > n /\ r[i].entry = l[j]
    BY <1>1, <1>3 DEF Tells
  <1>4. ASSUME NEW i \in 1 .. Len(r), NEW j \in 1 .. Len(r), i < j, r[i].type = type, r[j].type = type
        PROVE  Len(r[i].entry.prev) < Len(r[j].entry.prev)
    <2>1. i + 1 < j + 1
      BY <1>4
    <2>2. InSequence(q, type)
      BY DEF Tells
    <2> QED
      BY <1>1, <1>4, <2>1, <2>2 DEF InSequence
  <1> QED
    BY <1>2, <1>3, <1>4 DEF Tells, InSequence

\* The first message of its type tells of the next entry.
LEMMA TellsNext ==
    ASSUME NEW S, NEW q \in Seq(S), q # <<>>, NEW type, Head(q).type = type,
           NEW l \in Log, NEW n \in Nat, Rising(l), Tells(q, type, l, n)
    PROVE  /\ n + 1 <= Len(l) /\ n + 1 \in 1 .. Len(l) /\ Head(q).entry = l[n + 1]
           /\ Tells(Tail(q), type, l, n + 1)
  <1> SUFFICES ASSUME NEW r, r = Tail(q)
               PROVE  /\ n + 1 <= Len(l) /\ n + 1 \in 1 .. Len(l) /\ Head(q).entry = l[n + 1]
                      /\ Tells(r, type, l, n + 1)
    OBVIOUS
  <1>1. /\ Head(q) = q[1] /\ Len(q) \in Nat /\ 1 \in 1 .. Len(q)
        /\ \A i \in 1 .. Len(r) : r[i] = q[i + 1] /\ i + 1 \in 1 .. Len(q)
        /\ \A i \in 1 .. Len(q) : i # 1 => i - 1 \in 1 .. Len(r) /\ r[i - 1] = q[i]
    BY WithoutHead
  <1>2. Len(l) \in Nat /\ \A i \in 1 .. Len(l) : l[i] \in Entry /\ Len(l[i].prev) \in Nat
    <2>1. Len(l) \in Nat /\ \A i \in 1 .. Len(l) : l[i] \in Entry
      BY ElementOfSeq, LenProperties DEF Log
    <2>2. \A e \in Entry : Len(e.prev) \in Nat
      BY LenProperties DEF Entry
    <2> QED
      BY <2>1, <2>2
  <1>9. InSequence(q, type)
    BY DEF Tells
  <1>3. PICK h \in 1 .. Len(l) : h > n /\ q[1].entry = l[h]
    BY <1>1 DEF Tells
  <1>4. n + 1 \in 1 .. Len(l) /\ n + 1 > n /\ n + 1 <= Len(l)
    BY <1>2, <1>3
  <1>5. h = n + 1
    <2>1. PICK i \in 1 .. Len(q) : q[i].type = type /\ q[i].entry = l[n + 1]
      BY <1>4 DEF Tells
    <2>2. i # 1 => Len(l[h].prev) < Len(l[n + 1].prev)
      <3>1. i # 1 => 1 < i
        BY <1>1
      <3> QED
        BY <1>1, <1>3, <1>9, <2>1, <3>1 DEF InSequence
    <2>3. i = 1 => Len(l[h].prev) = Len(l[n + 1].prev)
      BY <1>3, <2>1
    <2>4. n + 1 < h => Len(l[n + 1].prev) < Len(l[h].prev)
      BY <1>4 DEF Rising
    <2>5. Len(l[n + 1].prev) \in Nat /\ Len(l[h].prev) \in Nat
      BY <1>2, <1>3, <1>4
    <2>6. \A a, c \in Nat : a < c => ~(c < a) /\ c # a
      OBVIOUS
    <2>7. ~(n + 1 < h)
      BY <2>2, <2>3, <2>4, <2>5, <2>6
    <2> QED
      BY <1>3, <2>7
  <1>6. ASSUME NEW j \in 1 .. Len(l), j > n + 1
        PROVE  \E i \in 1 .. Len(r) : r[i].type = type /\ r[i].entry = l[j]
    <2>1. PICK i \in 1 .. Len(q) : q[i].type = type /\ q[i].entry = l[j]
      <3>1. j > n
        BY <1>6
      <3> QED
        BY <3>1 DEF Tells
    <2>2. Len(l[n + 1].prev) < Len(l[j].prev)
      BY <1>4, <1>6 DEF Rising
    <2>3. i # 1
      BY <1>2, <1>3, <1>4, <1>5, <2>1, <2>2
    <2> QED
      BY <1>1, <2>1, <2>3
  <1>7. ASSUME NEW i \in 1 .. Len(r), r[i].type = type
        PROVE  \E j \in 1 .. Len(l) : j > n + 1 /\ r[i].entry = l[j]
    <2>1. q[i + 1].type = type /\ i + 1 \in 1 .. Len(q) /\ 1 < i + 1
      BY <1>1, <1>7
    <2>2. PICK j \in 1 .. Len(l) : j > n /\ q[i + 1].entry = l[j]
      BY <2>1 DEF Tells
    <2>3. Len(l[n + 1].prev) < Len(l[j].prev)
      BY <1>1, <1>3, <1>5, <1>9, <2>1, <2>2 DEF InSequence
    <2>4. j # n + 1
      BY <1>2, <1>4, <2>3
    <2> QED
      BY <1>1, <2>2, <2>4
  <1>8. ASSUME NEW i \in 1 .. Len(r), NEW j \in 1 .. Len(r), i < j, r[i].type = type, r[j].type = type
        PROVE  Len(r[i].entry.prev) < Len(r[j].entry.prev)
    <2>1. i + 1 < j + 1
      BY <1>8
    <2> QED
      BY <1>1, <1>8, <1>9, <2>1 DEF InSequence
  <1> QED
    BY <1>1, <1>3, <1>4, <1>5, <1>6, <1>7, <1>8 DEF Tells, InSequence

\* A queue tells of a log, and what is queued behind it of the log's growth.
LEMMA TellsMore ==
    ASSUME NEW S, NEW q \in Seq(S), NEW ms \in Seq(S), NEW type, NEW l \in Log, NEW l2 \in Log,
           NEW n \in Nat, n <= Len(l), Len(l) <= Len(l2), Same(l2, l, Len(l)), Rising(l2),
           Tells(q, type, l, n), Tells(ms, type, l2, Len(l))
    PROVE  Tells(q \o ms, type, l2, n)
  <1> SUFFICES ASSUME NEW r, r = q \o ms PROVE Tells(r, type, l2, n)
    OBVIOUS
  <1>1. Spliced(r, q, ms)
    BY Behind
  <1>2. Len(l) \in Nat /\ Len(l2) \in Nat
    BY LenProperties DEF Log
  <1>9. InSequence(q, type) /\ InSequence(ms, type)
    BY DEF Tells
  <1>3. \A i \in 1 .. Len(l) : l2[i] = l[i] /\ i \in 1 .. Len(l2)
    BY <1>2 DEF Same
  <1>4. ASSUME NEW j \in 1 .. Len(l2), j > n
        PROVE  \E i \in 1 .. Len(r) : r[i].type = type /\ r[i].entry = l2[j]
    <2>1. CASE j <= Len(l)
      <3>1. j \in 1 .. Len(l) /\ l2[j] = l[j]
        BY <1>2, <1>3, <2>1
      <3>2. PICK i \in 1 .. Len(q) : q[i].type = type /\ q[i].entry = l[j]
        BY <1>4, <3>1 DEF Tells
      <3> QED
        BY <1>1, <3>1, <3>2 DEF Spliced
    <2>2. CASE j > Len(l)
      <3>1. PICK i \in 1 .. Len(ms) : ms[i].type = type /\ ms[i].entry = l2[j]
        BY <2>2 DEF Tells
      <3>2. r[Len(q) + i] = ms[i] /\ Len(q) + i \in 1 .. Len(r)
        BY <1>1 DEF Spliced
      <3> QED
        BY <3>1, <3>2
    <2> QED
      BY <1>2, <2>1, <2>2
  <1>5. ASSUME NEW i \in 1 .. Len(q), q[i].type = type
        PROVE  \E j \in 1 .. Len(l) : j \in 1 .. Len(l2) /\ j > n /\ q[i].entry = l2[j]
    BY <1>3, <1>5 DEF Tells
  <1>6. ASSUME NEW i \in 1 .. Len(ms), ms[i].type = type
        PROVE  \E j \in 1 .. Len(l2) : j > Len(l) /\ ms[i].entry = l2[j]
    BY <1>6 DEF Tells
  <1>7. ASSUME NEW i \in 1 .. Len(r), r[i].type = type
        PROVE  \E j \in 1 .. Len(l2) : j > n /\ r[i].entry = l2[j]
    <2>1. CASE i \in 1 .. Len(q)
      BY <1>1, <1>5, <1>7, <2>1 DEF Spliced
    <2>2. ASSUME NEW j \in 1 .. Len(ms), i = Len(q) + j
          PROVE  \E h \in 1 .. Len(l2) : h > n /\ r[i].entry = l2[h]
      <3>1. r[i] = ms[j]
        BY <1>1, <2>2 DEF Spliced
      <3>2. PICK h \in 1 .. Len(l2) : h > Len(l) /\ ms[j].entry = l2[h]
        BY <1>6, <1>7, <3>1
      <3>3. h > n
        BY <1>2, <3>2
      <3> QED
        BY <3>1, <3>2, <3>3
    <2> QED
      BY <1>1, <2>1, <2>2 DEF Spliced
  <1>8. ASSUME NEW i \in 1 .. Len(r), NEW j \in 1 .. Len(r), i < j, r[i].type = type, r[j].type = type
        PROVE  Len(r[i].entry.prev) < Len(r[j].entry.prev)
    <2>1. CASE j \in 1 .. Len(q)
      <3>1. i \in 1 .. Len(q)
        BY <1>8, <2>1
      <3> QED
        BY <1>1, <1>8, <1>9, <2>1, <3>1 DEF Spliced, InSequence
    <2>2. ASSUME NEW h \in 1 .. Len(ms), j = Len(q) + h, i \in 1 .. Len(q)
          PROVE  Len(r[i].entry.prev) < Len(r[j].entry.prev)
      <3>1. r[i] = q[i] /\ r[j] = ms[h]
        BY <1>1, <2>2 DEF Spliced
      <3>2. PICK a \in 1 .. Len(l) : a \in 1 .. Len(l2) /\ q[i].entry = l2[a]
        BY <1>5, <1>8, <2>2, <3>1
      <3>3. PICK b \in 1 .. Len(l2) : b > Len(l) /\ ms[h].entry = l2[b]
        BY <1>6, <1>8, <3>1
      <3>4. a < b
        BY <1>2, <3>2, <3>3
      <3>5. Len(l2[a].prev) < Len(l2[b].prev)
        BY <3>2, <3>3, <3>4 DEF Rising
      <3> QED
        BY <3>1, <3>2, <3>3, <3>5
    <2>3. ASSUME NEW h \in 1 .. Len(ms), j = Len(q) + h, NEW g \in 1 .. Len(ms), i = Len(q) + g
          PROVE  Len(r[i].entry.prev) < Len(r[j].entry.prev)
      <3>1. r[i] = ms[g] /\ r[j] = ms[h]
        BY <1>1, <2>3 DEF Spliced
      <3>2. g < h
        BY <1>1, <1>8, <2>3 DEF Spliced
      <3> QED
        BY <1>8, <1>9, <3>1, <3>2 DEF InSequence
    <2> QED
      BY <1>1, <2>1, <2>2, <2>3 DEF Spliced
  <1> QED
    BY <1>4, <1>7, <1>8 DEF Tells, InSequence

-----------------------------------------------------------------------------
(* Lemmas about logs that are accepted to their last entry.                *)

LEMMA ValidLog ==
    ASSUME NEW l \in Log, FullyValid(l)
    PROVE  /\ l # <<>> /\ Len(l) \in Nat /\ Len(l) >= 1 /\ Verifies(l) /\ Accepted(l) = Len(l)
           /\ MembersOf(l) = MembersAfter(l, Len(l)) /\ Roster(l) = MembersOf(l)
           /\ EpochOf(l) = EpochAfter(l, Len(l)) /\ EpochOf(l) \in Nat /\ HeadOf(l) = Hash(l[Len(l)])
           /\ \A i \in 1 .. Len(l) :
                  Len(l[i].prev) = Len(l[1].prev) + (i - 1) /\ Len(l[i].prev) \in Nat
           /\ \A i \in 2 .. Len(l) : l[i].body.type # "genesis"
           /\ Rising(l)
  <1> DEFINE n == Len(l)
  <1>1. l # <<>> /\ Verifies(l) /\ \A i \in 2 .. n : Fits(l, i)
    BY DEF FullyValid, Verifies
  <1>2. l \in Seq(Entry) /\ n \in Nat /\ n >= 1
    BY <1>1, EmptySeq, LenProperties DEF Log
  <1>3. n \in 1 .. n
    BY <1>2
  <1>4. n = Accepted(l)
    BY <1>1, <1>2, <1>3, AcceptedUnique
  <1>5. /\ \A i \in 1 .. n : Len(l[i].prev) = Len(l[1].prev) + (i - 1)
        /\ \A i \in 2 .. n : l[i].body.type # "genesis"
        /\ \A i \in 1 .. n : Len(l[i].prev) \in Nat
    BY <1>1, <1>3, ChainPositions
  <1>6. EpochAfter(l, n) \in Nat
    BY <1>2, EpochType
  <1>7. Rising(l)
    <2> SUFFICES ASSUME NEW i \in 1 .. n, NEW j \in 1 .. n, i < j
                 PROVE  Len(l[i].prev) < Len(l[j].prev)
      BY DEF Rising
    <2>1. Len(l[1].prev) \in Nat
      <3>1. 1 \in 1 .. n
        BY <1>2
      <3> QED
        BY <1>5, <3>1
    <2>2. Len(l[i].prev) = Len(l[1].prev) + (i - 1) /\ Len(l[j].prev) = Len(l[1].prev) + (j - 1)
      BY <1>5
    <2>3. \A a, b, c \in Nat : b < c => a + (b - 1) < a + (c - 1)
      OBVIOUS
    <2>4. i \in Nat /\ j \in Nat
      BY <1>2
    <2> QED
      BY <2>1, <2>2, <2>3, <2>4
  <1> QED
    BY <1>1, <1>2, <1>4, <1>5, <1>6, <1>7 DEF MembersOf, EpochOf, HeadOf, Roster

\* Log l2 is l with one entry more.
Extends(l2, l, e) ==
    /\ l2 \in Log /\ l2 # <<>> /\ Len(l) \in Nat /\ Len(l2) = Len(l) + 1 /\ l2[Len(l) + 1] = e
    /\ \A i \in 1 .. Len(l) : l2[i] = l[i]

LEMMA Grown ==
    ASSUME NEW l \in Log, NEW e \in Entry, NEW l2, l2 = Append(l, e)
    PROVE  Extends(l2, l, e)
  <1>1. /\ l2 \in Seq(Entry) /\ Len(l) \in Nat /\ Len(l2) = Len(l) + 1 /\ l2[Len(l) + 1] = e
        /\ \A i \in 1 .. Len(l) : l2[i] = l[i]
    BY AppendProperties, LenProperties DEF Log
  <1>2. l2 # <<>>
    BY <1>1
  <1> QED
    BY <1>1, <1>2 DEF Log, Extends

\* What an entry does to the members and the epoch.
LEMMA MembersNext ==
    ASSUME NEW l \in Log, NEW e \in Entry, NEW l2, l2 = Append(l, e)
    PROVE  /\ MembersAfter(l2, Len(l) + 1) =
                  {d \in Device : Admits(e.body, d)}
                      \cup {d \in MembersAfter(l, Len(l)) : ~Expels(e.body, d)}
           /\ EpochAfter(l2, Len(l) + 1) =
                  EpochAfter(l, Len(l)) + (IF e.body.type = "epoch" THEN 1 ELSE 0)
  <1> DEFINE n == Len(l)
  <1>1. n \in Nat /\ l2[n + 1] = e /\ \A i \in 1 .. n : l2[i] = l[i]
    <2>1. Extends(l2, l, e)
      BY Grown
    <2> QED
      BY <2>1 DEF Extends
  <1> HIDE DEF n
  <1>2. \A j \in 1 .. n + 1 : j \in 1 .. n \/ j = n + 1
    BY <1>1
  <1>3. n + 1 \in 1 .. n + 1 /\ \A j \in 1 .. n : j \in 1 .. n + 1 /\ j # n + 1 /\ n + 1 \in j + 1 .. n + 1
    BY <1>1
  <1>4. ASSUME NEW d \in MembersAfter(l2, n + 1)
        PROVE  Admits(e.body, d) \/ (d \in MembersAfter(l, n) /\ ~Expels(e.body, d))
    <2>1. PICK j \in 1 .. n + 1 : Admits(l2[j].body, d) /\ \A k \in j + 1 .. n + 1 : ~Expels(l2[k].body, d)
      BY <1>4 DEF MembersAfter
    <2>2. CASE j = n + 1
      BY <1>1, <2>1, <2>2
    <2>3. CASE j \in 1 .. n
      <3>3. \A k \in j + 1 .. n : k \in j + 1 .. n + 1 /\ k \in 1 .. n
        BY <1>1, <2>3
      <3>1. \A k \in j + 1 .. n : k \in j + 1 .. n + 1 /\ l2[k] = l[k]
        BY <1>1, <3>3
      <3>2. Admits(l[j].body, d) /\ ~Expels(e.body, d)
        BY <1>1, <1>3, <2>1, <2>3
      <3> QED
        BY <2>1, <2>3, <3>1, <3>2 DEF MembersAfter
    <2> QED
      BY <1>2, <2>2, <2>3
  <1>5. ASSUME NEW d \in Device, Admits(e.body, d) PROVE d \in MembersAfter(l2, n + 1)
    <2>1. \A k \in n + 1 + 1 .. n + 1 : FALSE
      BY <1>1
    <2> QED
      BY <1>1, <1>3, <1>5, <2>1 DEF MembersAfter
  <1>6. ASSUME NEW d \in MembersAfter(l, n), ~Expels(e.body, d) PROVE d \in MembersAfter(l2, n + 1)
    <2>1. PICK j \in 1 .. n : Admits(l[j].body, d) /\ \A k \in j + 1 .. n : ~Expels(l[k].body, d)
      BY DEF MembersAfter
    <2>2. ASSUME NEW k \in j + 1 .. n + 1 PROVE ~Expels(l2[k].body, d)
      <3>1. k = n + 1 \/ (k \in j + 1 .. n /\ k \in 1 .. n)
        BY <1>1, <2>1
      <3> QED
        BY <1>1, <1>6, <2>1, <3>1
    <2> QED
      BY <1>1, <1>3, <2>1, <2>2 DEF MembersAfter
  <1>7. MembersAfter(l2, n + 1) =
            {d \in Device : Admits(e.body, d)} \cup {d \in MembersAfter(l, n) : ~Expels(e.body, d)}
    <2>1. MembersAfter(l, n) \subseteq Device /\ MembersAfter(l2, n + 1) \subseteq Device
      BY DEF MembersAfter
    <2> QED
      BY <1>4, <1>5, <1>6, <2>1
  <1>8. EpochAfter(l2, n + 1) = EpochAfter(l, n) + (IF e.body.type = "epoch" THEN 1 ELSE 0)
    <2> DEFINE E == {j \in 1 .. n : l[j].body.type = "epoch"}
               E2 == {j \in 1 .. n + 1 : l2[j].body.type = "epoch"}
    <2>1. IsFiniteSet(E) /\ n + 1 \notin E
      <3>1. IsFiniteSet(1 .. n)
        BY <1>1, FS_Interval
      <3> QED
        BY <1>1, <3>1, FS_Subset
    <2>2. E2 = IF e.body.type = "epoch" THEN E \cup {n + 1} ELSE E
      BY <1>1, <1>2, <1>3
    <2>3. EpochAfter(l, n) = Cardinality(E) /\ EpochAfter(l2, n + 1) = Cardinality(E2)
      BY DEF EpochAfter
    <2> HIDE DEF E, E2
    <2>4. Cardinality(E \cup {n + 1}) = Cardinality(E) + 1 /\ Cardinality(E) \in Nat
      BY <2>1, FS_AddElement, FS_CardinalityType
    <2> QED
      BY <2>2, <2>3, <2>4
  <1> QED
    BY <1>7, <1>8 DEF n

LEMMA ValidMore ==
    ASSUME NEW l \in Log, FullyValid(l), NEW e \in Entry, NEW l2, l2 = Append(l, e),
           e.prev = HeadOf(l), Allowed(l, Len(l), e.body)
    PROVE  FullyValid(l2)
  <1> DEFINE n == Len(l)
  <1>1. n \in Nat /\ n >= 1 /\ Verifies(l) /\ HeadOf(l) = Hash(l[n])
    BY ValidLog
  <1>2. l2 # <<>> /\ Len(l2) = n + 1 /\ l2[n + 1] = e /\ \A i \in 1 .. n : l2[i] = l[i]
    <2>1. Extends(l2, l, e)
      BY Grown
    <2> QED
      BY <2>1 DEF Extends
  <1>10. Same(l2, l, n)
    BY <1>2 DEF Same
  <1>3. \A i \in 2 .. n : Fits(l, i)
    BY DEF FullyValid
  <1> HIDE DEF n
  <1>4. n \in 1 .. n /\ 1 \in 1 .. n /\ n + 1 - 1 = n
    BY <1>1
  <1>5. \A i \in 2 .. n : Fits(l2, i)
    BY <1>1, <1>2, <1>3, <1>10, SamePrefix
  <1>6. /\ MembersAfter(l2, n) = MembersAfter(l, n) /\ GrantsAfter(l2, n) = GrantsAfter(l, n)
        /\ EpochAfter(l2, n) = EpochAfter(l, n)
    BY <1>1, <1>4, <1>10, SamePrefix
  <1>7. Allowed(l2, n, e.body)
    BY <1>6 DEF Allowed, n
  <1>8. Fits(l2, n + 1)
    BY <1>1, <1>2, <1>4, <1>7 DEF Fits
  <1>9. \A i \in 2 .. n + 1 : i \in 2 .. n \/ i = n + 1
    BY <1>1
  <1> QED
    BY <1>1, <1>2, <1>4, <1>5, <1>8, <1>9 DEF FullyValid, Verifies

LEMMA ValidLess ==
    ASSUME NEW l \in Log, l # <<>>, NEW e \in Entry, NEW l2, l2 = Append(l, e), FullyValid(l2)
    PROVE  /\ FullyValid(l) /\ e.prev = HeadOf(l) /\ Allowed(l, Len(l), e.body)
           /\ Len(e.prev) = Len(l[1].prev) + Len(l) /\ l2[1] = l[1] /\ e.body.type # "genesis"
  <1> DEFINE n == Len(l)
  <1>1. n \in Nat /\ n >= 1
    BY EmptySeq, LenProperties DEF Log
  <1>2. l2 \in Log /\ Len(l2) = n + 1 /\ l2[n + 1] = e /\ \A i \in 1 .. n : l2[i] = l[i]
    <2>1. Extends(l2, l, e)
      BY Grown
    <2> QED
      BY <2>1 DEF Extends
  <1>13. Same(l2, l, n)
    BY <1>2 DEF Same
  <1>3. Verifies(l2) /\ \A i \in 2 .. n + 1 : Fits(l2, i)
    BY <1>2 DEF FullyValid
  <1> HIDE DEF n
  <1>4. n \in 1 .. n /\ 1 \in 1 .. n /\ n + 1 - 1 = n /\ n + 1 \in 2 .. n + 1 /\ n + 1 \in 1 .. n + 1
    BY <1>1
  <1>5. \A i \in 2 .. n : Fits(l2, i) /\ i \in 2 .. n + 1
    BY <1>1, <1>3
  <1>6. \A i \in 2 .. n : Fits(l, i)
    BY <1>1, <1>5, <1>13, SamePrefix
  <1>7. FullyValid(l)
    BY <1>2, <1>3, <1>4, <1>6 DEF FullyValid, Verifies, n
  <1>8. /\ MembersAfter(l2, n) = MembersAfter(l, n) /\ GrantsAfter(l2, n) = GrantsAfter(l, n)
        /\ EpochAfter(l2, n) = EpochAfter(l, n)
    BY <1>1, <1>4, <1>13, SamePrefix
  <1>9. e.prev = Hash(l[n]) /\ Allowed(l2, n, e.body)
    <2>1. Fits(l2, n + 1)
      BY <1>3, <1>4
    <2> QED
      BY <1>2, <1>4, <2>1 DEF Fits
  <1>10. Allowed(l, n, e.body)
    BY <1>8, <1>9 DEF Allowed
  <1>11. HeadOf(l) = Hash(l[n])
    BY <1>7, ValidLog DEF n
  <1>12. Len(l2[n + 1].prev) = Len(l2[1].prev) + n /\ l2[n + 1].body.type # "genesis"
    <2>1. /\ \A i \in 1 .. Len(l2) : Len(l2[i].prev) = Len(l2[1].prev) + (i - 1)
          /\ \A i \in 2 .. Len(l2) : l2[i].body.type # "genesis"
      BY <1>2, ValidLog
    <2>2. n + 1 \in 1 .. Len(l2) /\ n + 1 \in 2 .. Len(l2)
      BY <1>2, <1>4
    <2>3. ASSUME NEW h \in 1 .. Len(l2), h = n + 1
          PROVE  Len(l2[h].prev) = Len(l2[1].prev) + n
      <3>1. h - 1 = n
        BY <1>1, <2>3
      <3> QED
        BY <2>1, <3>1
    <2>4. l2[n + 1].body.type # "genesis"
      BY <2>1, <2>2
    <2> QED
      BY <2>2, <2>3, <2>4
  <1> QED
    BY <1>2, <1>4, <1>7, <1>9, <1>10, <1>11, <1>12 DEF n

\* A log with an Epoch entry beyond another log is of a later epoch.
LEMMA EpochMore ==
    ASSUME NEW R \in Log, FullyValid(R), NEW l \in Log, FullyValid(l), Len(R) <= Len(l),
           \A j \in 1 .. Len(R) : R[j] = l[j],
           NEW h \in 1 .. Len(l), h > Len(R), l[h].body.type = "epoch"
    PROVE  EpochOf(l) > EpochOf(R)
  <1> DEFINE E == {j \in 1 .. Len(R) : R[j].body.type = "epoch"}
             E2 == {j \in 1 .. Len(l) : l[j].body.type = "epoch"}
  <1>1. /\ Len(R) \in Nat /\ Len(l) \in Nat
        /\ EpochOf(R) = Cardinality(E) /\ EpochOf(l) = Cardinality(E2)
    BY ValidLog DEF EpochAfter
  <1>2. IsFiniteSet(E2) /\ E \cup {h} \subseteq E2 /\ h \notin E
    <2>1. IsFiniteSet(1 .. Len(l))
      <3>1. 1 \in Int /\ Len(l) \in Int
        BY <1>1
      <3> QED
        BY <3>1, FS_Interval
    <2>2. IsFiniteSet(E2)
      BY <2>1, FS_Subset
    <2> QED
      BY <1>1, <2>2
  <1> HIDE DEF E, E2
  <1>3. IsFiniteSet(E) /\ IsFiniteSet(E \cup {h})
    BY <1>2, FS_Subset
  <1>4. Cardinality(E \cup {h}) <= Cardinality(E2) /\ Cardinality(E \cup {h}) = Cardinality(E) + 1
    BY <1>2, <1>3, FS_Subset, FS_AddElement
  <1>5. Cardinality(E) \in Nat /\ Cardinality(E2) \in Nat
    BY <1>2, <1>3, FS_CardinalityType
  <1> QED
    BY <1>1, <1>4, <1>5

\* What revoke_member builds on a log it has verified to the end is accepted.
LEMMA RotationFits ==
    ASSUME NEW l \in Log, FullyValid(l), NEW y \in MembersOf(l), NEW t \in MembersOf(l), t # y,
           NEW l2, Removes(l2, l, y, t), NEW rotate,
           rotate = BuildOn(l2, EpochBody(y, EpochOf(l) + 1, MembersOf(l2)))
    PROVE  /\ l2 \in Log /\ FullyValid(l2) /\ rotate \in Entry /\ FullyValid(Append(l2, rotate))
           /\ y \in MembersOf(l2) /\ y \in MembersOf(Append(l2, rotate))
           /\ MembersOf(l2) \subseteq Device /\ EpochOf(l) \in Nat
  <1> DEFINE e == BuildOn(l, RemoveBody(y, t))
             n == Len(l)
             l3 == Append(l2, rotate)
  <1>1. /\ n \in Nat /\ l # <<>> /\ MembersOf(l) = MembersAfter(l, n)
        /\ EpochOf(l) = EpochAfter(l, n) /\ EpochOf(l) \in Nat
    BY ValidLog
  <1>2. y \in Device /\ t \in Device
    BY <1>1 DEF MembersAfter
  <1>3. e \in Entry /\ l2 = Append(l, e)
    BY <1>1, <1>2, BodyType, BuildType DEF Log, Removes
  <1>4. e.prev = HeadOf(l) /\ e.body.type = "remove" /\ e.body.by = y /\ e.body.target = t
    BY DEF BuildOn, RemoveBody
  <1> HIDE DEF e
  <1>5. FullyValid(l2) /\ l2 \in Log /\ Len(l2) = n + 1
    <2>1. Allowed(l, n, e.body)
      BY <1>1, <1>4 DEF Allowed
    <2> QED
      BY <1>3, <1>4, <2>1, ValidMore, Grown DEF Extends
  <1>6. /\ MembersOf(l2) = MembersAfter(l2, n + 1) /\ l2 # <<>> /\ EpochOf(l2) = EpochAfter(l2, n + 1)
        /\ MembersOf(l2) \subseteq Device
    <2>1. /\ MembersOf(l2) = MembersAfter(l2, Len(l2)) /\ l2 # <<>>
          /\ EpochOf(l2) = EpochAfter(l2, Len(l2))
      BY <1>5, ValidLog
    <2>2. MembersAfter(l2, Len(l2)) \subseteq Device
      BY DEF MembersAfter
    <2> QED
      BY <1>5, <2>1, <2>2
  <1>7. y \in MembersAfter(l2, n + 1) /\ EpochAfter(l2, n + 1) = EpochAfter(l, n)
    <2>1. /\ MembersAfter(l2, n + 1) =
                 {d \in Device : Admits(e.body, d)} \cup {d \in MembersAfter(l, n) : ~Expels(e.body, d)}
          /\ EpochAfter(l2, n + 1) = EpochAfter(l, n) + (IF e.body.type = "epoch" THEN 1 ELSE 0)
      BY <1>3, MembersNext
    <2> HIDE DEF n
    <2>2. ~Expels(e.body, y)
      BY <1>4 DEF Expels
    <2>3. EpochAfter(l2, n + 1) = EpochAfter(l, n)
      BY <1>1, <1>4, <2>1
    <2> QED
      BY <1>1, <2>1, <2>2, <2>3
  <1>8. rotate \in Entry
    <2>1. EpochBody(y, EpochOf(l) + 1, MembersOf(l2)) \in Body
      BY <1>1, <1>2, <1>6, BodyType
    <2> QED
      BY <1>5, <1>6, <2>1, BuildType DEF Log
  <1>9. /\ rotate.prev = HeadOf(l2) /\ rotate.body.type = "epoch" /\ rotate.body.rotator = y
        /\ rotate.body.number = EpochOf(l) + 1 /\ rotate.body.members = MembersOf(l2)
    BY DEF BuildOn, EpochBody
  <1>10. FullyValid(l3) /\ l3 \in Log /\ Len(l3) = n + 1 + 1
    <2>1. Allowed(l2, n + 1, rotate.body)
      BY <1>1, <1>6, <1>7, <1>9 DEF Allowed
    <2> HIDE DEF n
    <2>2. Allowed(l2, Len(l2), rotate.body)
      BY <1>5, <2>1
    <2>3. FullyValid(l3)
      BY <1>5, <1>8, <1>9, <2>2, ValidMore
    <2>4. Extends(l3, l2, rotate)
      BY <1>5, <1>8, Grown
    <2>5. l3 \in Log /\ Len(l3) = Len(l2) + 1
      BY <2>4 DEF Extends
    <2> QED
      BY <1>5, <2>3, <2>5
  <1>11. y \in MembersOf(l3)
    <2>1. MembersAfter(l3, n + 1 + 1) =
                 {d \in Device : Admits(rotate.body, d)}
                     \cup {d \in MembersAfter(l2, n + 1) : ~Expels(rotate.body, d)}
      <3> HIDE DEF n
      <3>1. /\ MembersAfter(l3, Len(l2) + 1) = {d \in Device : Admits(rotate.body, d)}
                      \cup {d \in MembersAfter(l2, Len(l2)) : ~Expels(rotate.body, d)}
            /\ EpochAfter(l3, Len(l2) + 1) =
                  EpochAfter(l2, Len(l2)) + (IF rotate.body.type = "epoch" THEN 1 ELSE 0)
        BY <1>5, <1>8, MembersNext
      <3> QED
        BY <1>5, <3>1
    <2>2. ~Expels(rotate.body, y)
      BY <1>9 DEF Expels
    <2>3. MembersOf(l3) = MembersAfter(l3, n + 1 + 1)
      <3> HIDE DEF n, l3
      <3> QED
        BY <1>10, ValidLog
    <2> QED
      BY <1>7, <2>1, <2>2, <2>3
  <1> QED
    BY <1>1, <1>5, <1>6, <1>7, <1>8, <1>10, <1>11

-----------------------------------------------------------------------------
(* What steps do to a device that is level with the relay.                 *)

LEMMA PrefixValid ==
    ASSUME NEW R \in Log, FullyValid(R), NEW l \in Log, l # <<>>, Len(l) <= Len(R),
           \A j \in 1 .. Len(l) : l[j] = R[j]
    PROVE  FullyValid(l)
  <1>1. Len(l) \in Nat /\ Len(l) >= 1 /\ Len(R) \in Nat
    BY EmptySeq, LenProperties DEF Log
  <1>2. Verifies(R) /\ \A i \in 2 .. Len(R) : Fits(R, i)
    BY DEF FullyValid
  <1>3. Same(l, R, Len(l))
    BY DEF Same
  <1>4. \A i \in 2 .. Len(l) : Fits(R, i) /\ i \in 2 .. Len(R)
    BY <1>1, <1>2
  <1>5. \A i \in 2 .. Len(l) : Fits(l, i)
    BY <1>1, <1>3, <1>4, SamePrefix
  <1>6. l[1] = R[1]
    BY <1>1
  <1>7. Verifies(l)
    BY <1>2, <1>6 DEF Verifies
  <1> QED
    BY <1>5, <1>7 DEF FullyValid

LEMMA SilentBehind ==
    ASSUME NEW S, NEW q \in Seq(S), NEW ms \in Seq(S), NEW type, Silent(q, type), Silent(ms, type)
    PROVE  Silent(q \o ms, type)
  <1> SUFFICES ASSUME NEW r, r = q \o ms PROVE Silent(r, type)
    OBVIOUS
  <1>1. Spliced(r, q, ms)
    BY Behind
  <1>2. \A i \in 1 .. Len(q) : r[i].type # type
    BY <1>1 DEF Silent, Spliced
  <1>3. \A j \in 1 .. Len(ms) : r[Len(q) + j].type # type
    BY <1>1 DEF Silent, Spliced
  <1>4. \A i \in 1 .. Len(r) : i \in 1 .. Len(q) \/ \E j \in 1 .. Len(ms) : i = Len(q) + j
    BY <1>1 DEF Spliced
  <1> QED
    BY <1>2, <1>3, <1>4 DEF Silent

LEMMA TellsSilent ==
    ASSUME NEW S, NEW q \in Seq(S), NEW ms \in Seq(S), NEW type, Silent(ms, type),
           NEW l \in Log, Rising(l), NEW n \in Nat, Tells(q, type, l, n)
    PROVE  Tells(q \o ms, type, l, n)
  <1>1. Len(l) \in Nat
    BY LenProperties DEF Log
  <1>2. CASE n <= Len(l)
    <2>1. Tells(ms, type, l, Len(l))
      BY <1>1, TellsNone
    <2>2. Same(l, l, Len(l)) /\ Len(l) <= Len(l)
      BY <1>1 DEF Same
    <2> QED
      BY <1>2, <2>1, <2>2, TellsMore
  <1>3. CASE Len(l) <= n
    <2>1. Silent(q, type)
      BY <1>1, <1>3, TellsNone
    <2>2. Silent(q \o ms, type)
      BY <2>1, SilentBehind
    <2> QED
      BY <1>1, <1>3, <2>2, TellsNone
  <1> QED
    BY <1>1, <1>2, <1>3

LEMMA LevelLengths ==
    ASSUME NEW R \in Log, FullyValid(R), NEW m \in Log, NEW u, NEW q, Level(R, m, u, q)
    PROVE  /\ Len(R) \in Nat /\ Len(m) \in Nat /\ Len(R) >= 1 /\ Len(m) >= 1 /\ m # <<>> /\ R # <<>>
           /\ Rising(R) /\ Rising(m) /\ R[1] = m[1]
           /\ Len(m) <= Len(R) => Silent(u, "append")
           /\ Len(R) <= Len(m) => Silent(q, "appended")
           /\ Silent(u, "append") => Len(m) <= Len(R)
           /\ Silent(q, "appended") => Len(R) <= Len(m)
  <1>1. FullyValid(m)
    BY DEF Level
  <1>2. /\ Len(R) \in Nat /\ Len(R) >= 1 /\ R # <<>> /\ Rising(R)
    BY ValidLog
  <1>3. /\ Len(m) \in Nat /\ Len(m) >= 1 /\ m # <<>> /\ Rising(m)
    BY <1>1, ValidLog
  <1>4. Tells(q, "appended", R, Len(m)) /\ Tells(u, "append", m, Len(R))
    BY DEF Level
  <1>5. R[1] = m[1]
    <2>1. 1 \in 1 .. Len(R) /\ 1 <= Len(m)
      BY <1>2, <1>3
    <2> QED
      BY <2>1 DEF Level
  <1>6. /\ Len(m) <= Len(R) => Silent(u, "append")
        /\ Silent(u, "append") => Len(m) <= Len(R)
    BY <1>2, <1>3, <1>4, TellsNone
  <1>7. /\ Len(R) <= Len(m) => Silent(q, "appended")
        /\ Silent(q, "appended") => Len(R) <= Len(m)
    BY <1>2, <1>3, <1>4, TellsNone
  <1> QED
    BY <1>2, <1>3, <1>5, <1>6, <1>7

\* It hears an entry.
LEMMA LevelHears ==
    ASSUME NEW R \in Log, FullyValid(R), NEW m \in Log, NEW u \in Seq(C2s), NEW q \in Seq(S2c),
           q # <<>>, Head(q).type = "appended", Level(R, m, u, q), NEW e, e = Head(q).entry
    PROVE  /\ Len(m) + 1 <= Len(R) /\ e \in Entry /\ Level(R, Append(m, e), u, Tail(q))
  <1>1. Tells(q, "appended", R, Len(m)) /\ Tells(u, "append", m, Len(R)) /\ FullyValid(m)
    BY DEF Level
  <1>2. Len(m) \in Nat /\ Len(R) \in Nat /\ Rising(R) /\ m # <<>>
    BY LevelLengths
  <1>3. /\ Len(m) + 1 <= Len(R) /\ Len(m) + 1 \in 1 .. Len(R) /\ e = R[Len(m) + 1]
        /\ Tells(Tail(q), "appended", R, Len(m) + 1)
    BY <1>1, <1>2, TellsNext
  <1>4. e \in Entry
    BY <1>3, ElementOfSeq DEF Log
  <1>5. PICK l : l = Append(m, e)
    OBVIOUS
  <1>6. /\ l \in Log /\ l # <<>> /\ Len(l) = Len(m) + 1 /\ l[Len(m) + 1] = e
        /\ \A j \in 1 .. Len(m) : l[j] = m[j]
    <2>1. Extends(l, m, e)
      BY <1>4, <1>5, Grown
    <2> QED
      BY <2>1 DEF Extends
  <1>7. \A j \in 1 .. Len(l) : l[j] = R[j]
    <2>1. \A j \in 1 .. Len(l) : (j \in 1 .. Len(m) /\ j \in 1 .. Len(R) /\ j <= Len(m)) \/ j = Len(m) + 1
      BY <1>2, <1>3, <1>6
    <2> QED
      BY <1>3, <1>6, <2>1 DEF Level
  <1>8. FullyValid(l)
    <2>1. Len(l) <= Len(R)
      BY <1>3, <1>6
    <2> QED
      BY <1>6, <1>7, <2>1, PrefixValid
  <1>9. Tells(u, "append", l, Len(R))
    <2>1. Silent(u, "append")
      BY <1>1, <1>2, <1>3, TellsNone
    <2>2. Len(l) <= Len(R) /\ Len(l) \in Nat
      BY <1>2, <1>3, <1>6
    <2> QED
      BY <1>2, <2>1, <2>2, TellsNone
  <1>10. \A j \in 1 .. Len(R) : j <= Len(l) => R[j] = l[j]
    <2>1. \A j \in 1 .. Len(R) : j <= Len(l) => j \in 1 .. Len(l)
      BY <1>2, <1>6
    <2> QED
      BY <1>7, <2>1
  <1> QED
    BY <1>3, <1>4, <1>5, <1>6, <1>8, <1>9, <1>10 DEF Level

LEMMA LevelIgnores ==
    ASSUME NEW R \in Log, FullyValid(R), NEW m \in Log, NEW u, NEW q \in Seq(S2c),
           q # <<>>, Head(q).type # "appended", Level(R, m, u, q)
    PROVE  Level(R, m, u, Tail(q))
  <1>1. Tells(q, "appended", R, Len(m)) /\ Len(m) \in Nat
    BY LevelLengths DEF Level
  <1>2. Tells(Tail(q), "appended", R, Len(m))
    BY <1>1, TellsTail
  <1> QED
    BY <1>2 DEF Level

\* It sends what is no entry, and it sends the entries that its log grows by.
LEMMA LevelSpeaks ==
    ASSUME NEW R \in Log, FullyValid(R), NEW m \in Log, NEW u \in Seq(C2s), NEW q,
           NEW ms \in Seq(C2s), Silent(ms, "append"), Level(R, m, u, q)
    PROVE  Level(R, m, u \o ms, q)
  <1>1. Tells(u, "append", m, Len(R)) /\ Len(R) \in Nat /\ Rising(m)
    BY LevelLengths DEF Level
  <1>2. Tells(u \o ms, "append", m, Len(R))
    BY <1>1, TellsSilent
  <1> QED
    BY <1>2 DEF Level

LEMMA LevelSends ==
    ASSUME NEW R \in Log, FullyValid(R), NEW m \in Log, NEW u \in Seq(C2s), NEW q,
           NEW ms \in Seq(C2s), NEW m2 \in Log, FullyValid(m2), Len(m) <= Len(m2), Same(m2, m, Len(m)),
           Tells(ms, "append", m2, Len(m)), Len(R) <= Len(m), Level(R, m, u, q)
    PROVE  Level(R, m2, u \o ms, q)
  <1>1. Tells(u, "append", m, Len(R)) /\ Len(R) \in Nat /\ Silent(q, "appended") /\ Len(m) \in Nat
    BY LevelLengths DEF Level
  <1>2. Rising(m2) /\ Len(m2) \in Nat
    BY ValidLog
  <1>3. Tells(u \o ms, "append", m2, Len(R))
    BY <1>1, <1>2, TellsMore
  <1>4. Tells(q, "appended", R, Len(m2))
    <2>1. Len(R) <= Len(m2)
      BY <1>1, <1>2
    <2> QED
      BY <1>1, <1>2, <2>1, TellsNone
  <1>5. \A j \in 1 .. Len(R) : j <= Len(m2) => R[j] = m2[j]
    <2>1. \A j \in 1 .. Len(R) : j \in 1 .. Len(m) /\ j <= Len(m)
      BY <1>1
    <2> QED
      BY <2>1 DEF Level, Same
  <1> QED
    BY <1>3, <1>4, <1>5 DEF Level

\* The relay takes its entry, and another message of it.
LEMMA LevelRead ==
    ASSUME NEW R \in Log, FullyValid(R), NEW m \in Log, NEW u \in Seq(C2s), NEW q,
           u # <<>>, Head(u).type = "append", Level(R, m, u, q), NEW R2, R2 = Append(R, Head(u).entry)
    PROVE  Level(R2, m, Tail(u), q) /\ Len(R) < Len(m)
  <1>1. Tells(u, "append", m, Len(R)) /\ FullyValid(m)
    BY DEF Level
  <1>2. Len(m) \in Nat /\ Len(R) \in Nat /\ Rising(m)
    BY LevelLengths
  <1>3. /\ Len(R) + 1 <= Len(m) /\ Len(R) + 1 \in 1 .. Len(m) /\ Head(u).entry = m[Len(R) + 1]
        /\ Tells(Tail(u), "append", m, Len(R) + 1)
    BY <1>1, <1>2, TellsNext
  <1>4. Head(u).entry \in Entry
    BY <1>3, ElementOfSeq DEF Log
  <1>5. /\ R2 \in Log /\ Len(R2) = Len(R) + 1 /\ R2[Len(R) + 1] = m[Len(R) + 1]
        /\ \A j \in 1 .. Len(R) : R2[j] = R[j]
    <2>1. Extends(R2, R, Head(u).entry)
      BY <1>4, Grown
    <2> QED
      BY <1>3, <2>1 DEF Extends
  <1>6. \A j \in 1 .. Len(R2) : j <= Len(m) => R2[j] = m[j]
    <2>1. \A j \in 1 .. Len(R2) : j \in 1 .. Len(R) \/ j = Len(R) + 1
      BY <1>2, <1>5
    <2> QED
      BY <1>5, <2>1 DEF Level
  <1>7. Tells(q, "appended", R2, Len(m))
    <2>1. Silent(q, "appended")
      <3>1. Len(R) <= Len(m)
        BY <1>2, <1>3
      <3> QED
        BY <3>1, LevelLengths
    <2>2. Len(R2) <= Len(m) /\ Len(R2) \in Nat
      BY <1>2, <1>3, <1>5
    <2> QED
      BY <1>2, <2>1, <2>2, TellsNone
  <1>8. Len(R) < Len(m)
    BY <1>2, <1>3
  <1> QED
    BY <1>1, <1>3, <1>5, <1>6, <1>7, <1>8 DEF Level

LEMMA LevelReadOther ==
    ASSUME NEW R \in Log, FullyValid(R), NEW m \in Log, NEW u \in Seq(C2s), NEW q,
           u # <<>>, Head(u).type # "append", Level(R, m, u, q)
    PROVE  Level(R, m, Tail(u), q)
  <1>1. Tells(u, "append", m, Len(R)) /\ Len(R) \in Nat
    BY LevelLengths DEF Level
  <1>2. Tells(Tail(u), "append", m, Len(R))
    BY <1>1, TellsTail
  <1> QED
    BY <1>2 DEF Level

\* The relay pushes an entry of another device, and another message.
LEMMA LevelPushed ==
    ASSUME NEW R \in Log, FullyValid(R), NEW m \in Log, NEW u, NEW q \in Seq(S2c),
           Len(m) <= Len(R), Level(R, m, u, q), NEW e \in Entry, NEW R2, R2 = Append(R, e), FullyValid(R2),
           NEW a \in S2c, a.type = "appended", a.entry = e
    PROVE  Level(R2, m, u, Append(q, a))
  <1>1. Tells(q, "appended", R, Len(m)) /\ FullyValid(m)
    BY DEF Level
  <1>2. Len(m) \in Nat /\ Len(R) \in Nat /\ Silent(u, "append")
    BY LevelLengths
  <1>3. /\ R2 \in Log /\ Len(R2) = Len(R) + 1 /\ R2[Len(R) + 1] = e
        /\ \A j \in 1 .. Len(R) : R2[j] = R[j]
    <2>1. Extends(R2, R, e)
      BY Grown
    <2> QED
      BY <2>1 DEF Extends
  <1>4. Rising(R2)
    BY <1>3, ValidLog
  <1>5. Append(q, a) = q \o <<a>> /\ <<a>> \in Seq(S2c) /\ Len(<<a>>) = 1 /\ <<a>>[1] = a
    BY AppendIsBehind
  <1>6. Tells(<<a>>, "appended", R2, Len(R))
    <2>1. \A i \in 1 .. Len(<<a>>) : i = 1
      BY <1>5
    <2>2. \A j \in 1 .. Len(R2) : j > Len(R) => j = Len(R) + 1
      BY <1>2, <1>3
    <2>3. 1 \in 1 .. Len(<<a>>) /\ Len(R) + 1 \in 1 .. Len(R2) /\ Len(R) + 1 > Len(R)
      BY <1>2, <1>3, <1>5
    <2>4. InSequence(<<a>>, "appended")
      BY <2>1 DEF InSequence
    <2> QED
      BY <1>3, <1>5, <2>1, <2>2, <2>3, <2>4 DEF Tells
  <1>7. Same(R2, R, Len(R)) /\ Len(R) <= Len(R2)
    BY <1>2, <1>3 DEF Same
  <1>8. Tells(Append(q, a), "appended", R2, Len(m))
    BY <1>1, <1>2, <1>3, <1>4, <1>5, <1>6, <1>7, TellsMore
  <1>9. Tells(u, "append", m, Len(R2))
    <2>1. Len(m) <= Len(R2) /\ Len(R2) \in Nat
      BY <1>2, <1>3
    <2> QED
      BY <1>2, <2>1, TellsNone
  <1>10. \A j \in 1 .. Len(R2) : j <= Len(m) => R2[j] = m[j]
    <2>1. \A j \in 1 .. Len(R2) : j <= Len(m) => j \in 1 .. Len(R)
      BY <1>2, <1>3
    <2> QED
      BY <1>3, <2>1 DEF Level
  <1> QED
    BY <1>1, <1>8, <1>9, <1>10 DEF Level

LEMMA LevelPushedOther ==
    ASSUME NEW R \in Log, FullyValid(R), NEW m \in Log, NEW u, NEW q \in Seq(S2c),
           Level(R, m, u, q), NEW a \in S2c, a.type # "appended"
    PROVE  Level(R, m, u, Append(q, a))
  <1>1. Tells(q, "appended", R, Len(m)) /\ Len(m) \in Nat /\ Rising(R)
    BY LevelLengths DEF Level
  <1>2. /\ Append(q, a) = q \o <<a>> /\ <<a>> \in Seq(S2c) /\ <<a>>[1] = a
        /\ \A i \in 1 .. Len(<<a>>) : i = 1
    BY AppendIsBehind
  <1>3. Silent(<<a>>, "appended")
    BY <1>2 DEF Silent
  <1>4. Tells(Append(q, a), "appended", R, Len(m))
    BY <1>1, <1>2, <1>3, TellsSilent
  <1> QED
    BY <1>4 DEF Level

-----------------------------------------------------------------------------
(* A founder is level with the relay, or bound to have an entry turned     *)
(* down.                                                                   *)

LEMMA LateStays ==
    ASSUME NEW R \in Log, R # <<>>, NEW u \in Seq(C2s), Late(R, u)
    PROVE  /\ \A ms \in Seq(C2s) : Late(R, u \o ms)
           /\ u # <<>> /\ Head(u).type # "append" => Late(R, Tail(u))
           /\ \A e \in Entry : Late(Append(R, e), u)
           /\ u # <<>> /\ Head(u).type = "append" /\ FullyValid(Append(R, Head(u).entry))
                  => Late(Append(R, Head(u).entry), Tail(u))
  <1>1. PICK i \in 1 .. Len(u) :
            u[i].type = "append" /\ Len(u[i].entry.prev) < Len(R[1].prev) + Len(R)
    BY DEF Late
  <1>2. Len(u) \in Nat /\ Len(R) \in Nat /\ Len(R) >= 1 /\ u # <<>>
    BY <1>1, EmptySeq, LenProperties DEF Log
  <1>3. u[i].entry \in Entry /\ Len(u[i].entry.prev) \in Nat
    <2>1. u[i] \in C2s
      BY ElementOfSeq
    <2>2. u[i].entry \in Entry
      BY <1>1, <2>1 DEF C2s
    <2> QED
      BY <2>2, LenProperties DEF Entry
  <1>4. Len(R[1].prev) \in Nat
    <2>1. R[1] \in Entry
      BY <1>2, ElementOfSeq DEF Log
    <2> QED
      BY <2>1, LenProperties DEF Entry
  <1>5. ASSUME NEW ms \in Seq(C2s), NEW r, r = u \o ms PROVE Late(R, r)
    <2>1. Spliced(r, u, ms)
      BY <1>5, Behind
    <2>2. r[i] = u[i] /\ i \in 1 .. Len(r)
      BY <2>1 DEF Spliced
    <2> QED
      BY <1>1, <2>2 DEF Late
  <1>6. i # 1 => i - 1 \in 1 .. Len(Tail(u)) /\ Tail(u)[i - 1] = u[i]
    BY <1>2, WithoutHead
  <1>7. i = 1 => u[i] = Head(u)
    BY <1>2, WithoutHead
  <1>8. ASSUME Head(u).type # "append" PROVE Late(R, Tail(u))
    BY <1>1, <1>6, <1>7, <1>8 DEF Late
  <1>9. ASSUME NEW e \in Entry, NEW R2, R2 = Append(R, e)
        PROVE  R2[1] = R[1] /\ Len(u[i].entry.prev) < Len(R2[1].prev) + Len(R2)
    <2>1. Extends(R2, R, e)
      BY <1>9, Grown
    <2>2. R2[1] = R[1] /\ Len(R2) = Len(R) + 1
      BY <1>2, <2>1 DEF Extends
    <2>3. Len(u[i].entry.prev) < Len(R[1].prev) + (Len(R) + 1)
      <3>1. \A n, h, p \in Nat : n < h + p => n < h + (p + 1)
        OBVIOUS
      <3> QED
        BY <1>1, <1>2, <1>3, <1>4, <3>1
    <2> QED
      BY <2>2, <2>3
  <1>10. ASSUME NEW e \in Entry, NEW R2, R2 = Append(R, e) PROVE Late(R2, u)
    BY <1>1, <1>9, <1>10 DEF Late
  <1>11. ASSUME Head(u).type = "append", NEW R2, R2 = Append(R, Head(u).entry), FullyValid(R2)
         PROVE  Late(R2, Tail(u))
    <2>1. Head(u) \in C2s
      BY <1>2, WithoutHead
    <2>2. Head(u).entry \in Entry
      BY <1>11, <2>1 DEF C2s
    <2>3. Len(Head(u).entry.prev) = Len(R[1].prev) + Len(R)
      BY <1>11, <2>2, ValidLess
    <2>4. i # 1
      BY <1>1, <1>2, <1>3, <1>4, <1>7, <2>3
    <2>5. Len(u[i].entry.prev) < Len(R2[1].prev) + Len(R2)
      BY <1>9, <1>11, <2>2
    <2> QED
      BY <1>1, <1>6, <2>4, <2>5 DEF Late
  <1> QED
    BY <1>5, <1>8, <1>10, <1>11

LEMMA MineType ==
    ASSUME NEW l \in Log, NEW r \in Revocation \cup {None}
    PROVE  /\ Mine(l, r) \in Log
           /\ r # None => r \in Revocation /\ r.length \in Nat
           /\ Mine(l, None) = l
  <1>1. l \in Seq(Entry)
    BY DEF Log
  <1>2. ASSUME r # None PROVE r \in Revocation /\ r.length \in Nat /\ r.entries \in Seq(Entry)
    BY <1>2 DEF Revocation, Log
  <1>3. ASSUME r # None PROVE l \o r.entries \in Seq(Entry)
    BY <1>1, <1>2, <1>3, ConcatProperties
  <1> QED
    BY <1>1, <1>2, <1>3 DEF Mine, Log

\* A founder hears an entry, and another message.
LEMMA FollowsHears ==
    ASSUME NEW x, NEW R \in Log, FullyValid(R), NEW l \in Log, NEW r \in Revocation \cup {None},
           NEW u \in Seq(C2s), NEW q \in Seq(S2c), q # <<>>, Head(q).type = "appended",
           x \in MembersOf(R), Follows(x, R, l, r, u, q), NEW l2, l2 = Append(l, Head(q).entry)
    PROVE  /\ Doomed(R, l, r, u) => Doomed(R, l2, r, u)
           /\ Follows(x, R, l2, r, u, Tail(q))
  <1> DEFINE e == Head(q).entry
  <1>1. e \in Entry
    <2>1. Head(q) \in S2c
      BY WithoutHead
    <2> QED
      BY <2>1 DEF S2c
  <1>2. Extends(l2, l, e)
    BY <1>1, Grown
  <1>3. Len(l) \in Nat /\ Len(l2) = Len(l) + 1 /\ l2 \in Log
    BY <1>2 DEF Extends
  <1>4. r # None => r.length \in Nat
    BY MineType
  <1>5. Doomed(R, l, r, u) => Doomed(R, l2, r, u)
    BY <1>3, <1>4 DEF Doomed
  <1>6. CASE ~Doomed(R, l, r, u) /\ r # None
    <2>1. Len(l) = r.length
      BY <1>6 DEF Follows
    <2>2. Doomed(R, l2, r, u)
      BY <1>3, <1>4, <1>6, <2>1 DEF Doomed
    <2> QED
      BY <1>5, <2>2 DEF Follows
  <1>7. CASE ~Doomed(R, l, r, u) /\ r = None
    <2>1. Mine(l, r) = l /\ Mine(l2, r) = l2
      BY <1>7 DEF Mine
    <2>2. Level(R, l, u, q)
      BY <1>7, <2>1 DEF Follows
    <2>3. Len(l) + 1 <= Len(R) /\ Level(R, l2, u, Tail(q))
      BY <2>2, LevelHears
    <2>4. ASSUME Len(l2) >= Len(R) PROVE x \in MembersAfter(l2, Len(l2))
      <3>1. Len(R) \in Nat /\ Len(R) >= 1 /\ MembersOf(R) = MembersAfter(R, Len(R))
        BY ValidLog
      <3>2. Len(l2) = Len(R) /\ Len(R) \in 1 .. Len(R)
        BY <1>3, <2>3, <2>4, <3>1
      <3>3. Same(l2, R, Len(R))
        BY <2>3, <3>2 DEF Level, Same
      <3>4. MembersAfter(l2, Len(R)) = MembersAfter(R, Len(R))
        BY <3>1, <3>2, <3>3, SamePrefix
      <3> QED
        BY <3>1, <3>2, <3>4
    <2> QED
      BY <1>5, <1>7, <2>1, <2>3, <2>4 DEF Follows
  <1> QED
    BY <1>5, <1>6, <1>7 DEF Follows

LEMMA FollowsIgnores ==
    ASSUME NEW x, NEW R \in Log, FullyValid(R), NEW l \in Log, NEW r \in Revocation \cup {None},
           NEW u, NEW q \in Seq(S2c), q # <<>>, Head(q).type # "appended", Follows(x, R, l, r, u, q)
    PROVE  Follows(x, R, l, r, u, Tail(q))
  <1>1. Mine(l, r) \in Log
    BY MineType
  <1>2. Level(R, Mine(l, r), u, q) => Level(R, Mine(l, r), u, Tail(q))
    BY <1>1, LevelIgnores
  <1> QED
    BY <1>2 DEF Follows

LEMMA FollowsSpeaks ==
    ASSUME NEW x, NEW R \in Log, FullyValid(R), NEW l \in Log, NEW r \in Revocation \cup {None},
           NEW u \in Seq(C2s), NEW q, NEW ms \in Seq(C2s), Silent(ms, "append"),
           Follows(x, R, l, r, u, q)
    PROVE  /\ Doomed(R, l, r, u) => Doomed(R, l, r, u \o ms)
           /\ Follows(x, R, l, r, u \o ms, q)
  <1>1. Mine(l, r) \in Log /\ R # <<>>
    BY MineType, ValidLog
  <1>2. Level(R, Mine(l, r), u, q) => Level(R, Mine(l, r), u \o ms, q)
    BY <1>1, LevelSpeaks
  <1>3. Doomed(R, l, r, u) => Doomed(R, l, r, u \o ms)
    BY <1>1, LateStays DEF Doomed
  <1> QED
    BY <1>2, <1>3 DEF Follows

\* It takes its rotation over.
LEMMA FollowsAdopts ==
    ASSUME NEW x, NEW R, NEW l, NEW r, r # None, Len(l) = r.length, r.length \in Nat, NEW u, NEW q,
           Follows(x, R, l, r, u, q)
    PROVE  /\ Doomed(R, l, r, u) => Doomed(R, l \o r.entries, None, u)
           /\ Follows(x, R, l \o r.entries, None, u, q)
  <1>1. Mine(l, r) = l \o r.entries /\ Mine(l \o r.entries, None) = l \o r.entries
    BY DEF Mine
  <1>2. Doomed(R, l, r, u) => Doomed(R, l \o r.entries, None, u)
    BY DEF Doomed
  <1> QED
    BY <1>1, <1>2 DEF Follows

\* The relay accepts an entry of it, and reads another message of it.
LEMMA FollowsRead ==
    ASSUME NEW x, NEW R \in Log, FullyValid(R), NEW l \in Log, NEW r \in Revocation \cup {None},
           NEW u \in Seq(C2s), NEW q, u # <<>>, Head(u).type = "append", Follows(x, R, l, r, u, q),
           NEW R2, R2 = Append(R, Head(u).entry), FullyValid(R2)
    PROVE  /\ Doomed(R, l, r, u) => Doomed(R2, l, r, Tail(u))
           /\ Follows(x, R2, l, r, Tail(u), q)
  <1> DEFINE m == Mine(l, r)
  <1>1. m \in Log /\ R # <<>> /\ Len(R) \in Nat
    BY MineType, ValidLog
  <1>2. Doomed(R, l, r, u) => Doomed(R2, l, r, Tail(u))
    BY <1>1, LateStays DEF Doomed
  <1>3. CASE ~Doomed(R, l, r, u)
    <2>1. /\ Len(m) >= Len(R) => x \in MembersAfter(m, Len(m))
          /\ r # None => Len(l) = r.length
      BY <1>3 DEF Follows
    <2>4. Level(R, m, u, q)
      BY <1>3 DEF Follows
    <2> HIDE DEF m
    <2>2. Level(R2, m, Tail(u), q) /\ Len(R) < Len(m)
      BY <1>1, <2>4, LevelRead
    <2>3. Len(m) >= Len(R)
      BY <1>1, <2>2, LenProperties DEF Log
    <2>5. Level(R2, Mine(l, r), Tail(u), q) /\ x \in MembersAfter(Mine(l, r), Len(Mine(l, r)))
      BY <2>1, <2>2, <2>3 DEF m
    <2> QED
      BY <1>2, <1>3, <2>1, <2>5 DEF Follows
  <1> QED
    BY <1>2, <1>3 DEF Follows

LEMMA FollowsReadOther ==
    ASSUME NEW x, NEW R \in Log, FullyValid(R), NEW l \in Log, NEW r \in Revocation \cup {None},
           NEW u \in Seq(C2s), NEW q, u # <<>>, Head(u).type # "append", Follows(x, R, l, r, u, q)
    PROVE  /\ Doomed(R, l, r, u) => Doomed(R, l, r, Tail(u))
           /\ Follows(x, R, l, r, Tail(u), q)
  <1>1. Mine(l, r) \in Log /\ R # <<>>
    BY MineType, ValidLog
  <1>2. Level(R, Mine(l, r), u, q) => Level(R, Mine(l, r), Tail(u), q)
    BY <1>1, LevelReadOther
  <1>3. Doomed(R, l, r, u) => Doomed(R, l, r, Tail(u))
    BY <1>1, LateStays DEF Doomed
  <1> QED
    BY <1>2, <1>3 DEF Follows

\* The relay pushes it an entry of another device, and another message.
LEMMA FollowsPushed ==
    ASSUME NEW x, NEW R \in Log, FullyValid(R), NEW l \in Log, NEW r \in Revocation \cup {None},
           NEW u \in Seq(C2s), NEW q \in Seq(S2c), Follows(x, R, l, r, u, q),
           NEW e \in Entry, NEW R2, R2 = Append(R, e), FullyValid(R2),
           NEW a \in S2c, a.type = "appended", a.entry = e
    PROVE  /\ Doomed(R, l, r, u) => Doomed(R2, l, r, u)
           /\ Follows(x, R2, l, r, u, Append(q, a))
  <1> DEFINE m == Mine(l, r)
  <1>1. m \in Log /\ R # <<>> /\ Len(R) \in Nat /\ Len(m) \in Nat
    BY MineType, ValidLog, LenProperties DEF Log
  <1>2. Doomed(R, l, r, u) => Doomed(R2, l, r, u)
    BY <1>1, LateStays DEF Doomed
  <1>3. CASE ~Doomed(R, l, r, u)
    <2>1. Level(R, m, u, q) /\ (r # None => Len(l) = r.length)
      BY <1>3 DEF Follows
    <2>2. Extends(R2, R, e)
      BY Grown
    <2>3. Len(R2) = Len(R) + 1 /\ R2 \in Log /\ R2[1] = R[1]
      <3>1. 1 \in 1 .. Len(R)
        BY <1>1, EmptySeq DEF Log
      <3> QED
        BY <2>2, <3>1 DEF Extends
    <2> HIDE DEF m
    <2>4. CASE Len(m) <= Len(R)
      <3>1. Level(R2, m, u, Append(q, a))
        BY <1>1, <2>1, <2>4, LevelPushed
      <3>2. ~(Len(m) >= Len(R2))
        BY <1>1, <2>3, <2>4
      <3> QED
        BY <1>2, <2>1, <3>1, <3>2 DEF Follows, m
    <2>5. CASE Len(m) > Len(R)
      <3>1. FullyValid(m) /\ Tells(u, "append", m, Len(R)) /\ m[1] = R[1]
        <4>1. m[1] = R[1]
          BY <1>1, <2>1, LevelLengths
        <4> QED
          BY <2>1, <4>1 DEF Level
      <3>2. Len(R) + 1 \in 1 .. Len(m) /\ Len(R) + 1 > Len(R)
        BY <1>1, <2>5
      <3>3. PICK i \in 1 .. Len(u) : u[i].type = "append" /\ u[i].entry = m[Len(R) + 1]
        BY <3>1, <3>2 DEF Tells
      <3>4. \A j \in 1 .. Len(m) : Len(m[j].prev) = Len(m[1].prev) + (j - 1) /\ Len(m[j].prev) \in Nat
        BY <1>1, <3>1, ValidLog
      <3>5. Len(m[Len(R) + 1].prev) < Len(R2[1].prev) + Len(R2)
        <4>1. 1 \in 1 .. Len(m)
          BY <1>1, <2>5
        <4>2. Len(m[1].prev) \in Nat /\ Len(R2[1].prev) = Len(m[1].prev)
          BY <2>3, <3>1, <3>4, <4>1
        <4>3. ASSUME NEW h \in 1 .. Len(m), h = Len(R) + 1
              PROVE  Len(m[h].prev) = Len(m[1].prev) + Len(R)
          <5>1. h - 1 = Len(R)
            BY <1>1, <4>3
          <5> QED
            BY <3>4, <5>1
        <4>4. Len(m[Len(R) + 1].prev) = Len(m[1].prev) + Len(R)
          BY <3>2, <4>3
        <4>5. \A n, h \in Nat : n + h < n + (h + 1)
          OBVIOUS
        <4> QED
          BY <1>1, <2>3, <4>2, <4>4, <4>5
      <3>6. Late(R2, u)
        BY <3>3, <3>5 DEF Late
      <3> QED
        BY <1>2, <3>6 DEF Follows, Doomed
    <2> QED
      BY <1>1, <2>4, <2>5
  <1> QED
    BY <1>2, <1>3 DEF Follows

LEMMA FollowsPushedOther ==
    ASSUME NEW x, NEW R \in Log, FullyValid(R), NEW l \in Log, NEW r \in Revocation \cup {None},
           NEW u, NEW q \in Seq(S2c), Follows(x, R, l, r, u, q), NEW a \in S2c, a.type # "appended"
    PROVE  Follows(x, R, l, r, u, Append(q, a))
  <1>1. Mine(l, r) \in Log
    BY MineType
  <1>2. Level(R, Mine(l, r), u, q) => Level(R, Mine(l, r), u, Append(q, a))
    BY <1>1, LevelPushedOther
  <1> QED
    BY <1>2 DEF Follows

\* A founder sends a revocation.
LEMMA RevocationsAre ==
    ASSUME NEW d \in Device, NEW remove \in Entry, NEW rotate \in Entry, NEW k \in GroupKey,
           NEW S \in SUBSET Device, rotate.body.rotator = d, rotate.body.members = S,
           NEW ws, ws = Wraps(d, S \ {d}, k, S),
           NEW ms, ms = <<[type |-> "append", entry |-> remove], [type |-> "append", entry |-> rotate]>>
                            \o IF ws = {} THEN <<>> ELSE <<[type |-> "wraps", wraps |-> ws]>>
    PROVE  Revocations(ms, remove, rotate, k)
  <1>1. ws \subseteq Wrap
    <2>1. S \ {d} \in SUBSET Device
      OBVIOUS
    <2> QED
      BY <2>1, WrapsType
  <1>2. /\ [type |-> "append", entry |-> remove] \in C2s
        /\ [type |-> "append", entry |-> rotate] \in C2s
        /\ [type |-> "wraps", wraps |-> ws] \in C2s
    BY <1>1 DEF C2s
  <1>3. ws = {} <=> S \ {d} = {}
    BY DEF Wraps
  <1>4. [type |-> "wraps", wraps |-> ws] = WrapsOf(rotate.body, k)
    BY DEF WrapsOf
  <1>5. ASSUME NEW h \in C2s, NEW i \in C2s, NEW w \in C2s,
               h = [type |-> "append", entry |-> remove], i = [type |-> "append", entry |-> rotate],
               w = [type |-> "wraps", wraps |-> ws]
        PROVE  Revocations(ms, remove, rotate, k)
    <2>1. /\ h.type = "append" /\ h.entry = remove /\ i.type = "append" /\ i.entry = rotate
          /\ w = WrapsOf(rotate.body, k)
      BY <1>4, <1>5
    <2>2. PICK s : s = <<h, i>>
      OBVIOUS
    <2>3. s \in Seq(C2s) /\ Len(s) = 2 /\ s[1] = h /\ s[2] = i
      BY <2>2
    <2>4. CASE ws = {}
      <3>1. ms = s \o <<>>
        BY <1>5, <2>2, <2>4, Zenon
      <3>3. \A z \in Seq(C2s) : z \o <<>> = z
        OBVIOUS
      <3>2. ms = s
        BY <2>3, <3>1, <3>3, Zenon
      <3> QED
        BY <1>3, <2>1, <2>3, <2>4, <3>2 DEF Revocations
    <2>5. CASE ws # {}
      <3>1. PICK t : t = <<w>>
        OBVIOUS
      <3>6. ms = s \o t
        BY <1>5, <2>2, <2>5, <3>1, Zenon
      <3>7. t \in Seq(C2s) /\ Len(t) = 1 /\ t[1] = w
        BY <1>5, <3>1
      <3>2. ms = s \o t /\ t \in Seq(C2s) /\ Len(t) = 1 /\ t[1] = w
        BY <3>6, <3>7
      <3>3. Spliced(ms, s, t) /\ ms \in Seq(C2s)
        BY <2>3, <3>2, Behind
      <3>4. 1 \in 1 .. 2 /\ 2 \in 1 .. 2 /\ 1 \in 1 .. 1 /\ 2 + 1 = 3
        OBVIOUS
      <3>5. Len(ms) = 3 /\ ms[1] = h /\ ms[2] = i /\ ms[3] = w
        BY <2>3, <3>2, <3>3, <3>4 DEF Spliced
      <3> QED
        BY <1>3, <2>1, <2>5, <3>3, <3>5 DEF Revocations
    <2> QED
      BY <2>4, <2>5
  <1> QED
    BY <1>2, <1>5

\* The second of a revocation's messages rotates to k, and no other does.
RotatesSecond(ms, y, k) ==
    /\ Rotating(ms, y, 2, k) /\ 2 \in 1 .. Len(ms)
    /\ \A i \in 1 .. Len(ms) : Is(ms[i], "epoch") => i = 2

LEMMA RevocationsOrdered ==
    ASSUME NEW y, NEW remove \in Entry, NEW rotate \in Entry, NEW k \in GroupKey, NEW F, NEW ms,
           Revocations(ms, remove, rotate, k),
           remove.body.type = "remove", remove.body.target # y,
           rotate.body.type = "epoch", rotate.body.rotator = y, rotate.body.number = k.epoch
    PROVE  /\ Ordered(ms, y, F) /\ ~ForAny(ms[1], F) /\ ms # <<>>
           /\ RotatesSecond(ms, y, k)
           /\ \A i \in 1 .. Len(ms) : ms[i].type \in {"append", "wraps"} /\ ~Is(ms[i], "add")
  <1> DEFINE others == rotate.body.members \ {rotate.body.rotator}
  <1>1. /\ ms[1].type = "append" /\ ms[1].entry = remove
        /\ ms[2].type = "append" /\ ms[2].entry = rotate
        /\ others # {} => Len(ms) = 3 /\ ms[3] = WrapsOf(rotate.body, k) /\ ms[3].type = "wraps"
        /\ others = {} => Len(ms) = 2
    BY DEF Revocations, WrapsOf
  <1> HIDE DEF others
  <1>2. \A i \in 1 .. Len(ms) : i = 1 \/ i = 2 \/ (i = 3 /\ others # {})
    <2>1. \A i \in 1 .. 2 : i = 1 \/ i = 2
      OBVIOUS
    <2>2. \A i \in 1 .. 3 : i = 1 \/ i = 2 \/ i = 3
      OBVIOUS
    <2>3. (others = {} /\ Len(ms) = 2) \/ (others # {} /\ Len(ms) = 3)
      BY <1>1
    <2> QED
      BY <2>1, <2>2, <2>3
  <1>3. 2 \in 1 .. Len(ms) /\ ms # <<>> /\ (others # {} => 2 + 1 <= Len(ms))
    BY <1>1
  <1>4. Rotating(ms, y, 2, k)
    BY <1>1, <1>3 DEF Rotating, others
  <1>5. InOrder(ms, y, F, 1)
    BY <1>1, <1>3 DEF InOrder, Is
  <1>6. InOrder(ms, y, F, 2)
    BY <1>1, <1>4 DEF InOrder, Is, ForAny
  <1>7. others # {} => InOrder(ms, y, F, 3)
    BY <1>1 DEF InOrder, Is, others
  <1>8. Ordered(ms, y, F)
    BY <1>2, <1>5, <1>6, <1>7 DEF Ordered
  <1>9. ~ForAny(ms[1], F)
    BY <1>1 DEF ForAny
  <1>10. \A i \in 1 .. Len(ms) : Is(ms[i], "epoch") => i = 2
    BY <1>1, <1>2 DEF Is
  <1>11. \A i \in 1 .. Len(ms) : ms[i].type \in {"append", "wraps"} /\ ~Is(ms[i], "add")
    BY <1>1, <1>2 DEF Is
  <1>12. RotatesSecond(ms, y, k)
    BY <1>3, <1>4, <1>10 DEF RotatesSecond
  <1> QED
    BY <1>3, <1>8, <1>9, <1>11, <1>12

LEMMA FollowsSends ==
    ASSUME NEW x, NEW R \in Log, FullyValid(R), NEW l \in Log, NEW u \in Seq(C2s), NEW q,
           Follows(x, R, l, None, u, q), NEW t \in MembersOf(l), t # x,
           NEW l2, Removes(l2, l, x, t), NEW remove \in Entry, remove = BuildOn(l, RemoveBody(x, t)),
           NEW rotate, rotate = BuildOn(l2, EpochBody(x, EpochOf(l) + 1, MembersOf(l2))),
           NEW k, NEW ms, Revocations(ms, remove, rotate, k),
           NEW r, r # None, r.length = Len(l), r.entries = <<remove, rotate>>
    PROVE  /\ Doomed(R, l, None, u) => Doomed(R, l, r, u \o ms)
           /\ Follows(x, R, l, r, u \o ms, q)
  <1>1. /\ ms \in Seq(C2s) /\ ms[1].type = "append" /\ ms[1].entry = remove
        /\ ms[2].type = "append" /\ ms[2].entry = rotate
        /\ Len(ms) \in {2, 3} /\ (Len(ms) = 3 => ms[3].type = "wraps")
    BY DEF Revocations, WrapsOf
  <1>2. R # <<>> /\ Len(R) \in Nat /\ MembersOf(R) = MembersAfter(R, Len(R))
    BY ValidLog
  <1>3. Doomed(R, l, None, u) => Doomed(R, l, r, u \o ms)
    BY <1>1, <1>2, LateStays DEF Doomed
  <1>4. ASSUME ~Doomed(R, l, None, u) PROVE Follows(x, R, l, r, u \o ms, q)
    <2>1. Mine(l, None) = l
      BY DEF Mine
    <2>2. Level(R, l, u, q) /\ (Len(l) >= Len(R) => x \in MembersAfter(l, Len(l)))
      BY <1>4, <2>1 DEF Follows
    <2>3. FullyValid(l)
      BY <2>2 DEF Level
    <2>4. /\ Len(l) \in Nat /\ Len(l) >= 1 /\ MembersOf(l) = MembersAfter(l, Len(l))
          /\ HeadOf(l) = Hash(l[Len(l)])
      BY <2>3, ValidLog
    <2>5. CASE Len(l) < Len(R)
      <3>1. Len(remove.prev) = Len(R[1].prev) + Len(l) /\ Len(R[1].prev) \in Nat
        <4>1. remove.prev = Hash(l[Len(l)])
          BY <2>4 DEF BuildOn
        <4>2. l[Len(l)] \in Entry /\ Len(l) \in 1 .. Len(l) /\ 1 \in 1 .. Len(l)
          BY <2>4, ElementOfSeq DEF Log
        <4>3. Len(remove.prev) = Len(l[Len(l)].prev) + 1
          BY <4>1, <4>2, HashTells
        <4>4. Len(l[Len(l)].prev) = Len(l[1].prev) + (Len(l) - 1) /\ Len(l[1].prev) \in Nat
          BY <2>3, <4>2, ValidLog
        <4>5. R[1] = l[1]
          BY <2>2, LevelLengths
        <4>6. \A n, h \in Nat : n + (h - 1) + 1 = n + h
          OBVIOUS
        <4> QED
          BY <2>4, <4>3, <4>4, <4>5, <4>6
      <3>2. Spliced(u \o ms, u, ms) /\ 1 \in 1 .. Len(ms)
        <4>1. 1 \in 1 .. Len(ms)
          BY <1>1
        <4> QED
          BY <1>1, <4>1, Behind
      <3>3. PICK v : v = u \o ms
        OBVIOUS
      <3>4. v[Len(u) + 1] = ms[1] /\ Len(u) + 1 \in 1 .. Len(v)
        BY <3>2, <3>3 DEF Spliced
      <3>5. Len(remove.prev) < Len(R[1].prev) + Len(R)
        BY <1>2, <2>4, <2>5, <3>1
      <3>6. Late(R, v)
        BY <1>1, <3>4, <3>5 DEF Late
      <3> QED
        BY <3>3, <3>6 DEF Follows, Doomed
    <2>6. CASE Len(R) <= Len(l)
      <3>1. x \in MembersOf(l) /\ Len(l) >= Len(R)
        BY <1>2, <2>2, <2>4, <2>6
      <3>2. PICK l3 : l3 = Append(l2, rotate)
        OBVIOUS
      <3>3. /\ l2 \in Log /\ rotate \in Entry /\ FullyValid(l3) /\ x \in MembersOf(l3)
        BY <2>3, <3>1, <3>2, RotationFits
      <3>4. l2 = Append(l, remove)
        BY DEF Removes
      <3>5. Extends(l2, l, remove) /\ Extends(l3, l2, rotate)
        BY <3>2, <3>3, <3>4, Grown
      <3>6. /\ l3 \in Log /\ Len(l2) = Len(l) + 1 /\ Len(l3) = Len(l) + 2
            /\ l3[Len(l) + 1] = remove /\ l3[Len(l) + 2] = rotate
            /\ \A i \in 1 .. Len(l) : l3[i] = l[i]
        <4>1. /\ l3 \in Log /\ Len(l2) = Len(l) + 1 /\ Len(l3) = Len(l) + 1 + 1
              /\ l2[Len(l) + 1] = remove /\ l3[Len(l) + 1 + 1] = rotate
              /\ \A i \in 1 .. Len(l) : l2[i] = l[i]
              /\ \A i \in 1 .. Len(l) + 1 : l3[i] = l2[i]
          BY <3>5 DEF Extends
        <4>2. Len(l) + 1 + 1 = Len(l) + 2 /\ Len(l) + 1 \in 1 .. Len(l) + 1
              /\ \A i \in 1 .. Len(l) : i \in 1 .. Len(l) + 1
          BY <2>4
        <4> QED
          BY <4>1, <4>2
      <3>7. Mine(l, r) = l3
        <4>1. l \in Seq(Entry)
          BY DEF Log
        <4>2. l \o <<remove, rotate>> = Append(Append(l, remove), rotate)
          BY <3>3, <4>1
        <4> QED
          BY <3>2, <3>4, <4>2 DEF Mine
      <3>8. Tells(ms, "append", l3, Len(l))
        <4> DEFINE n == Len(l)
        <4>1. \A i \in 1 .. Len(ms) : ms[i].type = "append" => i = 1 \/ i = 2
          <5>1. \A i \in 1 .. Len(ms) : i = 1 \/ i = 2 \/ (i = 3 /\ Len(ms) = 3)
            <6>1. /\ \A i \in 1 .. 2 : i = 1 \/ i = 2
                  /\ \A i \in 1 .. 3 : i = 1 \/ i = 2 \/ i = 3
              OBVIOUS
            <6>2. Len(ms) = 2 \/ Len(ms) = 3
              BY <1>1
            <6> QED
              BY <6>1, <6>2
          <5> QED
            BY <1>1, <5>1
        <4>2. 1 \in 1 .. Len(ms) /\ 2 \in 1 .. Len(ms)
          BY <1>1
        <4>3. Rising(l3)
          BY <3>3, <3>6, ValidLog
        <4>4. /\ n \in Nat /\ Len(l3) = n + 2 /\ l3[n + 1] = remove /\ l3[n + 2] = rotate
          BY <2>4, <3>6
        <4> HIDE DEF n
        <4>5. /\ n + 1 \in 1 .. Len(l3) /\ n + 2 \in 1 .. Len(l3) /\ n + 1 > n /\ n + 2 > n /\ n + 1 < n + 2
              /\ \A j \in 1 .. Len(l3) : j > n => j = n + 1 \/ j = n + 2
          BY <4>4
        <4>6. Len(remove.prev) < Len(rotate.prev)
          BY <4>3, <4>4, <4>5 DEF Rising
        <4>7. InSequence(ms, "append")
          <5> SUFFICES ASSUME NEW i \in 1 .. Len(ms), NEW j \in 1 .. Len(ms), i < j,
                              ms[i].type = "append", ms[j].type = "append"
                       PROVE  Len(ms[i].entry.prev) < Len(ms[j].entry.prev)
            BY DEF InSequence
          <5>1. i = 1 /\ j = 2
            <6>1. (i = 1 \/ i = 2) /\ (j = 1 \/ j = 2)
              BY <4>1
            <6> QED
              BY <6>1
          <5> QED
            BY <1>1, <4>6, <5>1
        <4>8. Tells(ms, "append", l3, n)
          BY <1>1, <4>1, <4>2, <4>4, <4>5, <4>7 DEF Tells
        <4> QED
          BY <4>8 DEF n
      <3>9. Level(R, l3, u \o ms, q)
        <4>1. Same(l3, l, Len(l)) /\ Len(l) <= Len(l3)
          BY <2>4, <3>6 DEF Same
        <4> QED
          BY <1>1, <2>2, <2>6, <3>3, <3>6, <3>8, <4>1, LevelSends
      <3>10. x \in MembersAfter(l3, Len(l3))
        BY <3>3, <3>6, ValidLog
      <3> QED
        BY <3>7, <3>9, <3>10 DEF Follows
    <2> QED
      BY <1>2, <2>4, <2>5, <2>6
  <1> QED
    BY <1>3, <1>4 DEF Follows

-----------------------------------------------------------------------------
(* What happens while nothing goes wrong.                                  *)

CalmBase ==
    /\ \A x \in Founders : x \in Device /\ Steady(phase[x], wid[x], up[x], down[x])
    /\ \A y \in Device : /\ code[y] # None => invites[code[y]] # None
                         /\ NewsOK(down[y], Founders)
                         /\ Ordered(up[y], y, Founders)

\* What device y sends in a step.
Says(y, F, ms) == ms \in Seq(C2s) /\ Ordered(ms, y, F) /\ (ms # <<>> => ~ForAny(ms[1], F))

\* One message that is no Remove or Epoch entry and nothing for a founder.
LEMMA SaysOne ==
    ASSUME NEW y, NEW F, NEW m \in C2s, ~Is(m, "remove"), ~Is(m, "epoch"), ~ForAny(m, F),
           NEW ms, ms = <<m>>
    PROVE  Says(y, F, ms)
  <1>1. ms \in Seq(C2s) /\ Len(ms) = 1 /\ ms[1] = m
    OBVIOUS
  <1>2. InOrder(ms, y, F, 1)
    BY <1>1 DEF InOrder
  <1>3. \A i \in 1 .. 1 : i = 1
    OBVIOUS
  <1> QED
    BY <1>1, <1>2, <1>3 DEF Says, Ordered

LEMMA SaysNothing ==
    ASSUME NEW y, NEW F, NEW u \in Seq(C2s)
    PROVE  Says(y, F, <<>>) /\ u = u \o <<>>
  <1>1. <<>> \in Seq(C2s) /\ Len(<<>>) = 0
    OBVIOUS
  <1>2. \A i : ~(i \in 1 .. 0)
    OBVIOUS
  <1>3. u = u \o <<>>
    OBVIOUS
  <1> QED
    BY <1>1, <1>2, <1>3 DEF Says, Ordered

\* What goes wrong has gone wrong.
LEMMA CalmBefore ==
    ASSUME TypeOK, [Next]_vars, Calm'
    PROVE  Calm /\ limit' = limit /\ Founders' = Founders
  <1> USE DEF TypeOK, BoundsTypeOK
  <1>7. ASSUME NEW d \in Device, DeviceStep(d)
        PROVE  /\ limit' = limit /\ relayRestarts' = relayRestarts
               /\ breaks' = breaks \/ breaks' = [breaks EXCEPT ![d] = @ + 1]
               /\ restarts' = restarts \/ restarts' = [restarts EXCEPT ![d] = @ + 1]
    BY <1>7 DEF DeviceStep, Connect, Join, Invite, GuestGetsLog, GuestGivesUp, GuestGetsAnswer,
       GuestSkips, Break, HearWelcome, HearAppended, HearWrap, RevokeSends, RevokeFails,
       RevokeAdopts, Restart, bounds
  <1>8. ASSUME NEW d \in Device, RelayReads(d) PROVE UNCHANGED bounds
    BY <1>8 DEF RelayReads
  <1>9. RelayRestart => UNCHANGED <<breaks, restarts, limit>> /\ relayRestarts' = relayRestarts + 1
    BY DEF RelayRestart
  <1>1. limit' = limit
    BY <1>7, <1>8, <1>9 DEF Next, vars, bounds
  <1>2. rejected \subseteq rejected'
    <2>1. ASSUME NEW d \in Device, DeviceStep(d) PROVE rejected \subseteq rejected'
      BY <2>1 DEF DeviceStep, Connect, Join, Invite, GuestGetsLog, GuestGivesUp, GuestGetsAnswer,
         GuestSkips, Break, HearWelcome, HearAppended, HearWrap, RevokeSends, RevokeFails,
         RevokeAdopts, Restart, history
    <2>2. ASSUME NEW d \in Device, RelayReads(d) PROVE rejected \subseteq rejected'
      BY <2>2 DEF RelayReads, HandleHello, HandleGetLog, HandleAppend, HandleKeyUpdate
    <2>3. RelayRestart => rejected \subseteq rejected'
      BY DEF RelayRestart, history
    <2> QED
      BY <2>1, <2>2, <2>3 DEF Next, vars, history
  <1>3. relayRestarts' = relayRestarts \/ (relayRestarts \in Nat /\ relayRestarts' = relayRestarts + 1)
    BY <1>7, <1>8, <1>9 DEF Next, vars, bounds
  <1>4. ASSUME NEW d \in Device
        PROVE  /\ breaks[d] \in Nat /\ restarts[d] \in Nat
               /\ breaks'[d] = breaks[d] \/ breaks'[d] = breaks[d] + 1
               /\ restarts'[d] = restarts[d] \/ restarts'[d] = restarts[d] + 1
    <2>1. breaks \in [Device -> Nat] /\ restarts \in [Device -> Nat]
      OBVIOUS
    <2>2. ASSUME NEW c \in Device, DeviceStep(c)
          PROVE  /\ breaks'[d] = breaks[d] \/ breaks'[d] = breaks[d] + 1
                 /\ restarts'[d] = restarts[d] \/ restarts'[d] = restarts[d] + 1
      BY <1>7, <2>1, <2>2
    <2> QED
      BY <1>8, <1>9, <2>1, <2>2 DEF Next, vars, bounds
  <1>5. ASSUME NEW d \in Device PROVE breaks[d] + restarts[d] = 0
    <2>1. breaks'[d] + restarts'[d] = 0
      BY DEF Calm
    <2> QED
      BY <1>4, <2>1
  <1>6. relayRestarts = 0
    BY <1>3 DEF Calm
  <1> QED
    BY <1>1, <1>2, <1>5, <1>6 DEF Calm, Founders

\* A device that hears of a joiner that is no founder wraps nothing for a founder.
LEMMA HearAppendedSays ==
    ASSUME TypeOK, CalmBase, NEW d \in Device, HearAppended(d)
    PROVE  \E ms : /\ Says(d, Founders, ms) /\ up'[d] = up[d] \o ms
                   /\ ms \in Seq(Sends) /\ Silent(ms, "append")
  <1> DEFINE e == Head(down[d]).entry
             l == Append(log[d], e)
             ws == Wraps(d, {e.body.subject}, key[d], MembersOf(l))
             m == [type |-> "wraps", wraps |-> ws]
  <1>1. down[d] # <<>> /\ Head(down[d]).type = "appended" /\ up[d] \in Seq(C2s) /\ down[d] \in Seq(S2c)
    BY DEF HearAppended, Received, TypeOK, NetTypeOK
  <1>2. e \in Entry
    BY <1>1, HeardType DEF S2c, TypeOK
  <1>3. \/ up'[d] = up[d]
        \/ e.body.type = "add" /\ key[d] # None /\ up'[d] = up[d] \o <<m>>
    BY DEF HearAppended, ToRelay, TypeOK, NetTypeOK
  <1>4. CASE up'[d] = up[d]
    <2>1. Says(d, Founders, <<>>) /\ up[d] = up[d] \o <<>>
      BY <1>1, SaysNothing
    <2>2. <<>> \in Seq(Sends) /\ Silent(<<>>, "append")
      <3>1. Len(<<>>) = 0 /\ \A i : ~(i \in 1 .. 0)
        OBVIOUS
      <3> QED
        BY <3>1 DEF Silent
    <2> QED
      BY <1>4, <2>1, <2>2
  <1>5. CASE e.body.type = "add" /\ key[d] # None /\ up'[d] = up[d] \o <<m>>
    <2>1. e.body.subject \in Device /\ e.body.subject \notin Founders
      <3>1. Head(down[d]) = down[d][1] /\ 1 \in 1 .. Len(down[d])
        <4>1. Len(down[d]) \in Nat /\ Len(down[d]) >= 1 /\ Head(down[d]) = down[d][1]
          BY <1>1, WithoutHead
        <4> QED
          BY <4>1
      <3>2. NewsOK(down[d], Founders)
        BY DEF CalmBase
      <3>3. e.body.subject \notin Founders
        BY <1>1, <1>5, <3>1, <3>2 DEF NewsOK
      <3> QED
        BY <1>2, <1>5, <3>3 DEF Entry, Body
    <2>2. m \in C2s
      <3>1. key[d] \in GroupKey
        BY <1>5 DEF TypeOK, DeviceTypeOK
      <3>2. ws \subseteq Wrap
        BY <2>1, <3>1, WrapsType DEF MembersOf, MembersAfter
      <3> QED
        BY <3>2 DEF C2s
    <2>3. m.type = "wraps" /\ \A w \in m.wraps : w.to = e.body.subject
      BY DEF Wraps
    <2> HIDE DEF m, e
    <2>4. ~Is(m, "remove") /\ ~Is(m, "epoch") /\ ~ForAny(m, Founders) /\ m \in Sends
      BY <2>1, <2>2, <2>3 DEF Is, ForAny, Sends
    <2>5. Says(d, Founders, <<m>>)
      BY <2>2, <2>4, SaysOne
    <2>6. <<m>> \in Seq(Sends)
      BY <2>4
    <2>7. Silent(<<m>>, "append")
      <3>1. Len(<<m>>) = 1 /\ <<m>>[1] = m /\ \A i \in 1 .. 1 : i = 1
        OBVIOUS
      <3> QED
        BY <2>3, <3>1 DEF Silent
    <2> QED
      BY <1>5, <2>5, <2>6, <2>7
  <1> QED
    BY <1>3, <1>4, <1>5

\* The entries and the key of a revocation of t by y whose log is l.
Rotation(y, t, l, remove, l2, rotate, k) ==
    /\ Removes(l2, l, y, t) /\ l2 \in Log /\ l2 # <<>>
    /\ remove \in Entry /\ remove = BuildOn(l, RemoveBody(y, t))
    /\ rotate \in Entry /\ rotate = BuildOn(l2, EpochBody(y, EpochOf(l) + 1, MembersOf(l2)))
    /\ k \in GroupKey /\ k.epoch = EpochOf(l) + 1 /\ EpochOf(l) \in Nat

LEMMA RotationBodies ==
    ASSUME NEW y, NEW t, NEW l, NEW remove, NEW l2, NEW rotate, NEW k,
           Rotation(y, t, l, remove, l2, rotate, k)
    PROVE  /\ remove.body.type = "remove" /\ remove.body.target = t /\ remove.body.by = y
           /\ rotate.body.type = "epoch" /\ rotate.body.rotator = y
           /\ rotate.body.number = k.epoch /\ rotate.body.members = MembersOf(l2)
  BY DEF Rotation, BuildOn, RemoveBody, EpochBody

\* In a step device y sends the messages ms of a revocation of t.
Revokes(y, t, F, remove, l2, rotate, k, ms) ==
    /\ Rotation(y, t, log[y], remove, l2, rotate, k) /\ Revocations(ms, remove, rotate, k)
    /\ Says(y, F, ms) /\ ms \in Seq(Sends) /\ up'[y] = up[y] \o ms
    /\ revoking'[y] = [length |-> Len(log[y]), entries |-> <<remove, rotate>>, key |-> k]

LEMMA RevokeSendsSays ==
    ASSUME TypeOK, NEW d \in Device, NEW t \in Device, RevokeSends(d, t), NEW F
    PROVE  \E remove, l2, rotate, k, ms : Revokes(d, t, F, remove, l2, rotate, k, ms)
  <1> DEFINE l == log[d]
             remove == BuildOn(l, RemoveBody(d, t))
             l2 == Append(l, remove)
             new == [epoch |-> EpochOf(l) + 1, by |-> d, n |-> revokes[d] + 1]
             rotate == BuildOn(l2, EpochBody(d, EpochOf(l) + 1, MembersOf(l2)))
             wraps == Wraps(d, MembersOf(l2) \ {d}, new, MembersOf(l2))
             ms == <<[type |-> "append", entry |-> remove], [type |-> "append", entry |-> rotate]>>
                       \o IF wraps = {} THEN <<>> ELSE <<[type |-> "wraps", wraps |-> wraps]>>
  <1>1. l \in Log /\ l # <<>> /\ revokes[d] \in Nat /\ t # d
    BY DEF RevokeSends, Verifies, TypeOK, DeviceTypeOK, BoundsTypeOK
  <1>2. remove \in Entry /\ EpochOf(l) \in Nat
    BY <1>1, BodyType, BuildType DEF Log
  <1>3. l2 \in Log /\ l2 # <<>> /\ MembersOf(l2) \in SUBSET Device
    BY <1>1, <1>2, AppendProperties DEF Log, MembersOf, MembersAfter
  <1>4. rotate \in Entry
    <2>1. EpochBody(d, EpochOf(l) + 1, MembersOf(l2)) \in Body
      BY <1>2, <1>3, BodyType
    <2> QED
      BY <1>3, <2>1, BuildType DEF Log
  <1>5. new \in GroupKey /\ new.epoch = EpochOf(l) + 1
    BY <1>1, <1>2 DEF GroupKey
  <1>6. /\ up'[d] = up[d] \o ms
        /\ revoking'[d] = [length |-> Len(l), entries |-> <<remove, rotate>>, key |-> new]
    BY DEF RevokeSends, ToRelay, TypeOK, NetTypeOK, DeviceTypeOK
  <1>7. Removes(l2, l, d, t)
    BY DEF Removes
  <1>8. rotate.body.rotator = d /\ rotate.body.members = MembersOf(l2)
    BY DEF BuildOn, EpochBody
  <1> HIDE DEF new
  <1>9. Rotation(d, t, l, remove, l2, rotate, new)
    BY <1>2, <1>3, <1>4, <1>5, <1>7 DEF Rotation
  <1> HIDE DEF remove, rotate, l2
  <1>10. Revocations(ms, remove, rotate, new)
    <2> HIDE DEF wraps, ms
    <2>1. wraps = Wraps(d, MembersOf(l2) \ {d}, new, MembersOf(l2))
      BY DEF wraps
    <2>2. ms = <<[type |-> "append", entry |-> remove], [type |-> "append", entry |-> rotate]>>
                   \o IF wraps = {} THEN <<>> ELSE <<[type |-> "wraps", wraps |-> wraps]>>
      BY DEF ms
    <2> QED
      BY <1>2, <1>3, <1>4, <1>5, <1>8, <2>1, <2>2, RevocationsAre
  <1> HIDE DEF ms, l
  <1>11. /\ Ordered(ms, d, F) /\ ~ForAny(ms[1], F) /\ ms # <<>>
         /\ \A i \in 1 .. Len(ms) : ms[i].type \in {"append", "wraps"} /\ ~Is(ms[i], "add")
    BY <1>1, <1>2, <1>4, <1>5, <1>9, <1>10, RotationBodies, RevocationsOrdered
  <1>12. ms \in Seq(C2s)
    BY <1>10 DEF Revocations
  <1>13. ms \in Seq(Sends)
    <2>1. \A i \in 1 .. Len(ms) : ms[i] \in Sends
      <3>1. \A i \in 1 .. Len(ms) : ms[i] \in C2s
        BY <1>12, ElementOfSeq
      <3> QED
        BY <1>11, <3>1 DEF Sends, Is
    <2> QED
      BY <1>12, <2>1, SeqDef DEF Sends
  <1>14. Says(d, F, ms)
    BY <1>11, <1>12 DEF Says
  <1>15. Revokes(d, t, F, remove, l2, rotate, new, ms)
    BY <1>6, <1>9, <1>10, <1>13, <1>14 DEF l, Revokes
  <1> QED
    BY <1>15

\* What a founder does.
FounderStep(d) ==
    \/ /\ log'[d] = log[d] /\ revoking'[d] = revoking[d] /\ key'[d] = key[d]
       /\ up'[d] = up[d] /\ down'[d] = down[d]
    \/ HearAppended(d)
    \/ HearWrap(d)
    \/ \E t \in Device : RevokeSends(d, t)
    \/ RevokeAdopts(d) /\ Len(log[d]) = revoking[d].length

\* What device d does is to send or to hear something, or nothing at all.
DeviceCalm(d) ==
    /\ \E ms : Says(d, Founders, ms) /\ up'[d] = up[d] \o ms
    /\ down'[d] = down[d] \/ (down[d] # <<>> /\ down'[d] = Tail(down[d]))
    /\ \A y \in Device : code'[y] # None => invites'[code'[y]] # None
    /\ d \in Founders => /\ FounderStep(d) /\ phase'[d] = phase[d] /\ wid'[d] = wid[d]
                         /\ \E ms \in Seq(Sends) : up'[d] = up[d] \o ms

LEMMA DeviceStepCalm ==
    ASSUME TypeOK, Calm', CalmBase, NEW d \in Device, DeviceStep(d)
    PROVE  DeviceCalm(d)
  <1>1. /\ up \in [Device -> Seq(C2s)] /\ down \in [Device -> Seq(S2c)] /\ phase \in [Device -> Phase]
        /\ code \in [Device -> Grant \cup {None}] /\ invites \in [Grant -> Device \cup {None}]
        /\ log \in [Device -> Log] /\ key \in [Device -> GroupKey \cup {None}] /\ wid \in [Device -> BOOLEAN]
        /\ revoking \in [Device -> Revocation \cup {None}] /\ draft \in [Device -> Log]
        /\ breaks \in [Device -> Nat] /\ restarts \in [Device -> Nat]
        /\ phase[d] = "fetching" => code[d] # None
        /\ None \notin Device \cup Grant
    BY MembershipAssumption DEF TypeOK, RelayTypeOK, NetTypeOK, JoinTypeOK, DeviceTypeOK, BoundsTypeOK
  <1>2. \A y \in Device : code[y] # None => invites[code[y]] # None
    BY DEF CalmBase
  <1>3. d \in Founders => phase[d] = "online" /\ down[d] \in Seq(Hears)
    BY DEF CalmBase, Steady
  <1>4. rejected' = {} /\ breaks'[d] + restarts'[d] = 0
    BY DEF Calm
  <1>5. <<>> \in Seq(Sends) /\ Says(d, Founders, <<>>) /\ up[d] = up[d] \o <<>>
    BY <1>1, SaysNothing
  <1>6. ASSUME NEW m \in C2s, m.type # "wraps", ~Is(m, "remove"), ~Is(m, "epoch")
        PROVE  Says(d, Founders, <<m>>)
    <2>1. ~ForAny(m, Founders)
      BY <1>6 DEF ForAny
    <2> QED
      BY <1>6, <2>1, SaysOne
  \* Who is no founder and leaves codes and invitations alone.
  <1>7. ASSUME d \notin Founders, \E ms : Says(d, Founders, ms) /\ up'[d] = up[d] \o ms,
               down'[d] = down[d] \/ (down[d] # <<>> /\ down'[d] = Tail(down[d])),
               UNCHANGED invites, \A y \in Device : code'[y] \in {code[y], None}
        PROVE  DeviceCalm(d)
    BY <1>2, <1>7 DEF DeviceCalm
  <1>8. ASSUME Connect(d) PROVE DeviceCalm(d)
    <2>1. d \notin Founders /\ UNCHANGED <<invites, code, down>>
      BY <1>3, <1>8 DEF Connect, relayVars, joinVars
    <2>2. Hello(log[d]) \in C2s /\ [type |-> "getlog"] \in C2s
      <3>1. Len(log[d]) \in Nat
        BY <1>1, LenProperties DEF Log
      <3> QED
        BY <3>1 DEF Hello, C2s
    <2>3. Says(d, Founders, <<Hello(log[d])>>)
      <3>1. Hello(log[d]).type = "hello"
        BY DEF Hello
      <3> QED
        BY <1>6, <2>2, <3>1 DEF Is
    <2>4. Says(d, Founders, <<[type |-> "getlog"]>>)
      BY <1>6, <2>2 DEF Is
    <2>5. up'[d] = up[d] \o <<Hello(log[d])>> \/ up'[d] = up[d] \o <<[type |-> "getlog"]>>
      BY <1>1, <1>8 DEF Connect, ToRelay
    <2> QED
      BY <1>7, <2>1, <2>3, <2>4, <2>5
  <1>9. ASSUME NEW g \in Grant, Join(d, g) PROVE DeviceCalm(d)
    <2>1. d \notin Founders /\ UNCHANGED <<invites, up, down>> /\ invites[g] # None
      BY <1>3, <1>9 DEF Join, relayVars, netVars
    <2>2. \A y \in Device : code'[y] = IF y = d THEN g ELSE code[y]
      BY <1>1, <1>9 DEF Join
    <2> QED
      BY <1>2, <1>5, <2>1, <2>2 DEF DeviceCalm
  <1>10. ASSUME NEW g \in Grant, Invite(d, g) PROVE DeviceCalm(d)
    <2>1. UNCHANGED <<code, up, down, log, revoking, key, phase, wid>>
      BY <1>10 DEF Invite, joinVars, netVars, deviceVars
    <2>2. \A h \in Grant : invites'[h] = IF h = g THEN d ELSE invites[h]
      BY <1>1, <1>10 DEF Invite
    <2>3. \A y \in Device : code'[y] # None => invites'[code'[y]] # None
      BY <1>1, <1>2, <2>1, <2>2
    <2> QED
      BY <1>5, <2>1, <2>3 DEF DeviceCalm, FounderStep
  <1>11. ASSUME GuestGetsLog(d) PROVE DeviceCalm(d)
    <2> DEFINE entries == Head(down[d]).entries
               add == BuildOn(entries, AddBody(d, invites[code[d]], code[d]))
    <2>1. d \notin Founders /\ UNCHANGED <<invites, code>>
      BY <1>3, <1>11 DEF GuestGetsLog, relayVars
    <2>2. down[d] # <<>> /\ Head(down[d]).type = "log" /\ Head(down[d]) \in S2c
      BY <1>11, HeardType DEF GuestGetsLog, Received, TypeOK
    <2>3. entries \in Log \ {<<>>}
      BY <2>2 DEF S2c
    <2>4. code[d] \in Grant /\ invites[code[d]] \in Device
      BY <1>1, <1>11 DEF GuestGetsLog
    <2>5. add \in Entry /\ add.body.type = "add"
      <3>1. add.body.type = "add"
        BY DEF BuildOn, AddBody
      <3> QED
        BY <2>3, <2>4, <3>1, BodyType, BuildType DEF Log
    <2>6. up'[d] = up[d] \o <<[type |-> "append", entry |-> add]>> /\ down'[d] = Tail(down[d])
      BY <1>1, <1>11 DEF GuestGetsLog, ToRelay, Consume
    <2> HIDE DEF add
    <2>7. Says(d, Founders, <<[type |-> "append", entry |-> add]>>)
      <3>1. [type |-> "append", entry |-> add] \in C2s
        BY <2>5 DEF C2s
      <3> QED
        BY <1>6, <2>5, <3>1 DEF Is
    <2> QED
      BY <1>7, <2>1, <2>2, <2>6, <2>7
  <1>12. ASSUME GuestGivesUp(d) PROVE DeviceCalm(d)
    BY <1>1, <1>2, <1>12 DEF GuestGivesUp
  <1>13. ASSUME GuestGetsAnswer(d) PROVE DeviceCalm(d)
    <2>1. d \notin Founders /\ UNCHANGED invites /\ down[d] # <<>>
      BY <1>3, <1>13 DEF GuestGetsAnswer, Received, relayVars
    <2>2. /\ up'[d] = up[d] \o <<Hello(draft[d])>> /\ down'[d] = Tail(down[d])
          /\ \A y \in Device : code'[y] \in {code[y], None}
      BY <1>1, <1>13 DEF GuestGetsAnswer, ToRelay, Consume, Joined
    <2>3. Hello(draft[d]) \in C2s /\ Hello(draft[d]).type = "hello"
      <3>1. Len(draft[d]) \in Nat
        BY <1>1, LenProperties DEF Log
      <3> QED
        BY <3>1 DEF Hello, C2s
    <2>4. Says(d, Founders, <<Hello(draft[d])>>)
      BY <1>6, <2>3 DEF Is
    <2> QED
      BY <1>7, <2>1, <2>2, <2>4
  <1>14. ASSUME GuestSkips(d) PROVE DeviceCalm(d)
    <2>1. d \notin Founders /\ UNCHANGED <<invites, code, up>> /\ down[d] # <<>>
      BY <1>3, <1>14 DEF GuestSkips, relayVars, joinVars
    <2>2. down'[d] = Tail(down[d])
      BY <1>1, <1>14 DEF GuestSkips, Consume
    <2> QED
      BY <1>5, <1>7, <2>1, <2>2
  <1>15. ASSUME Break(d) PROVE DeviceCalm(d)
    <2>1. breaks'[d] = breaks[d] + 1 /\ restarts'[d] = restarts[d]
      BY <1>1, <1>15 DEF Break
    <2> QED
      BY <1>1, <1>4, <2>1
  <1>16. ASSUME HearWelcome(d) PROVE DeviceCalm(d)
    <2>1. UNCHANGED <<invites, code, up>> /\ down[d] # <<>> /\ Head(down[d]).type = "welcome"
      BY <1>16 DEF HearWelcome, Received, relayVars, joinVars
    <2>2. down'[d] = Tail(down[d])
      BY <1>1, <1>16 DEF HearWelcome, Consume
    <2>3. d \notin Founders
      <3>1. d \in Founders => Head(down[d]) \in Hears
        BY <1>3, <2>1, WithoutHead
      <3> QED
        BY <2>1, <3>1 DEF Hears
    <2> QED
      BY <1>5, <1>7, <2>1, <2>2, <2>3
  <1>17. ASSUME HearAppended(d) PROVE DeviceCalm(d)
    <2>1. UNCHANGED <<invites, code, phase, wid>> /\ down[d] # <<>>
      BY <1>17 DEF HearAppended, Received, relayVars, joinVars
    <2>2. down'[d] = Tail(down[d])
      BY <1>1, <1>17 DEF HearAppended, Consume
    <2>3. \E ms : Says(d, Founders, ms) /\ up'[d] = up[d] \o ms /\ ms \in Seq(Sends)
      BY <1>17, HearAppendedSays
    <2> QED
      BY <1>2, <1>17, <2>1, <2>2, <2>3 DEF DeviceCalm, FounderStep
  <1>18. ASSUME HearWrap(d) PROVE DeviceCalm(d)
    <2>1. UNCHANGED <<invites, code, phase, wid, up>> /\ down[d] # <<>>
      BY <1>18 DEF HearWrap, Received, relayVars, joinVars
    <2>2. down'[d] = Tail(down[d])
      BY <1>1, <1>18 DEF HearWrap, Consume
    <2> QED
      BY <1>2, <1>5, <1>18, <2>1, <2>2 DEF DeviceCalm, FounderStep
  <1>19. ASSUME NEW t \in Device, RevokeSends(d, t) PROVE DeviceCalm(d)
    <2>1. UNCHANGED <<invites, code, phase, wid, down>>
      BY <1>19 DEF RevokeSends, relayVars, joinVars
    <2>2. \E ms : Says(d, Founders, ms) /\ up'[d] = up[d] \o ms /\ ms \in Seq(Sends)
      <3>1. \E remove, l2, rotate, k, ms : Revokes(d, t, Founders, remove, l2, rotate, k, ms)
        BY <1>19, RevokeSendsSays
      <3> QED
        BY <3>1 DEF Revokes
    <2> QED
      BY <1>2, <1>19, <2>1, <2>2 DEF DeviceCalm, FounderStep
  <1>20. ASSUME RevokeFails(d) PROVE DeviceCalm(d)
    BY <1>4, <1>20 DEF RevokeFails
  <1>21. ASSUME RevokeAdopts(d) PROVE DeviceCalm(d)
    <2>1. UNCHANGED <<invites, code, phase, wid, up, down>>
      BY <1>21 DEF RevokeAdopts, relayVars, joinVars, netVars
    <2>2. Len(log[d]) = revoking[d].length
      BY <1>4, <1>21 DEF RevokeAdopts
    <2> QED
      BY <1>2, <1>5, <1>21, <2>1, <2>2 DEF DeviceCalm, FounderStep
  <1>22. ASSUME Restart(d) PROVE DeviceCalm(d)
    <2>1. restarts'[d] = restarts[d] + 1 /\ breaks'[d] = breaks[d]
      BY <1>1, <1>22 DEF Restart
    <2> QED
      BY <1>1, <1>4, <2>1
  <1> QED
    BY <1>8, <1>9, <1>10, <1>11, <1>12, <1>13, <1>14, <1>15, <1>16, <1>17, <1>18, <1>19, <1>20,
       <1>21, <1>22 DEF DeviceStep

News(e) == [type |-> "appended", entry |-> e]

Parcel(w) == [type |-> "wrap", wrap |-> w]

\* The relay accepts the entry in message m of device d, forwards the wraps in it,
\* answers it.
Accepts(d, m) ==
    /\ m.type = "append" /\ m.entry \in Entry /\ By(d, m.entry)
    /\ relayLog' = Append(relayLog, m.entry) /\ FullyValid(relayLog')
    /\ \A x \in Founders : down'[x] = IF x \in Roster(relayLog') \ {d}
                                      THEN Append(down[x], News(m.entry)) ELSE down[x]

Forwards(d, m) ==
    /\ m.type = "wraps" /\ m.wraps \in SUBSET Wrap /\ relayLog' = relayLog
    /\ \A x \in Founders : down'[x] = IF d \in Roster(relayLog) /\ x \in {w.to : w \in m.wraps}
                                      THEN Append(down[x], Parcel(WrapFor(m.wraps, x))) ELSE down[x]

Answers(d, m) ==
    /\ m.type \in {"hello", "getlog"} /\ d \notin Founders /\ relayLog' = relayLog
    /\ \A x \in Founders : down'[x] = down[x]

RelayCalm(d) ==
    /\ up[d] # <<>> /\ up'[d] = Tail(up[d]) /\ \A x \in Device \ {d} : up'[x] = up[x]
    /\ UNCHANGED <<phase, wid, log, key, revoking, code, invites, made>>
    /\ \A y \in Device :
           \/ down'[y] = down[y]
           \/ \E a \in S2c : /\ down'[y] = Append(down[y], a)
                             /\ a.type = "appended" /\ a.entry.body.type = "add" =>
                                    a.entry.body.subject \notin Founders
    /\ LET m == Head(up[d]) IN Accepts(d, m) \/ Forwards(d, m) \/ Answers(d, m)

LEMMA RelayReadsCalm ==
    ASSUME TypeOK, RelayLogValid, KeyInv, Calm', CalmBase, NEW d \in Device, RelayReads(d)
    PROVE  RelayCalm(d)
  <1> DEFINE m == Head(up[d])
  <1>1. /\ up \in [Device -> Seq(C2s)] /\ down \in [Device -> Seq(S2c)] /\ phase \in [Device -> Phase]
        /\ relayLog \in Log /\ relayLog # <<>> /\ Founders \subseteq Device
    BY DEF TypeOK, NetTypeOK, RelayTypeOK, CalmBase
  <1>2. /\ up[d] # <<>> /\ up'[d] = Tail(up[d]) /\ \A x \in Device \ {d} : up'[x] = up[x]
        /\ UNCHANGED <<phase, wid, log, key, revoking, code, invites, made>>
    BY <1>1 DEF RelayReads, joinVars, deviceVars
  <1>3. m \in C2s /\ (d \in Founders => m \in Sends)
    <2>1. d \in Founders => up[d] \in Seq(Sends)
      BY DEF CalmBase, Steady
    <2> QED
      BY <1>1, <1>2, <2>1, WithoutHead
  <1>4. \A x \in Founders : phase[x] # "off"
    BY DEF CalmBase, Steady
  <1>5. rejected' = {}
    BY DEF Calm
  <1>6. m.type = "append" => By(d, m.entry) /\ m.entry \in Entry
    <2>1. m = up[d][1] /\ 1 \in 1 .. Len(up[d])
      <3>1. Len(up[d]) \in Nat /\ Len(up[d]) >= 1 /\ m = up[d][1]
        BY <1>1, <1>2, WithoutHead
      <3> QED
        BY <3>1
    <2>2. AskedOK(OfRelay, made, d, up[d])
      BY DEF KeyInv, DeviceOK
    <2> QED
      BY <1>3, <2>1, <2>2 DEF AskedOK, C2s
  <1> HIDE DEF m
  \* A message of a kind that tells of no joiner goes to the devices of to.
  <1>7. ASSUME NEW to, down' = Sent(to), \A x \in DOMAIN to : to[x] \in S2c,
               \A x \in DOMAIN to : to[x].type # "appended"
        PROVE  \A y \in Device :
                   \/ down'[y] = down[y]
                   \/ \E a \in S2c : down'[y] = Append(down[y], a) /\ a.type # "appended"
    BY <1>7 DEF Sent
  <1>8. CASE m.type = "hello" /\ HandleHello(d, m)
    <2>1. d \notin Founders /\ relayLog' = relayLog
      BY <1>3, <1>8 DEF Sends, HandleHello
    <2>2. CASE ~Member(d)
      <3>1. down' = down
        BY <1>8, <2>2 DEF HandleHello
      <3> QED
        BY <1>2, <1>8, <2>1, <3>1 DEF RelayCalm, Answers, m
    <2>3. CASE Member(d)
      <3> DEFINE t == SubSeq(relayLog, m.length + 1, Len(relayLog))
                 a == [type |-> "welcome", tail |-> t, wrap |-> mailbox[d]]
                 to == [x \in {d} |-> a]
      <3>1. down' = Sent(to)
        BY <1>8, <2>3 DEF HandleHello
      <3>2. t \in Log
        <4>1. m.length \in Nat
          BY <1>3, <1>8 DEF C2s
        <4> QED
          BY <1>1, <4>1, TailOfLog
      <3>3. a \in S2c /\ a.type = "welcome"
        <4>1. mailbox[d] \in Wrap \cup {None}
          BY DEF TypeOK, RelayTypeOK
        <4> QED
          BY <3>2, <4>1 DEF S2c
      <3> HIDE DEF a
      <3>4. \A x \in Founders : down'[x] = down[x]
        BY <1>1, <2>1, <3>1 DEF Sent
      <3>5. \A x \in DOMAIN to : to[x] \in S2c /\ to[x].type # "appended"
        BY <3>3
      <3> HIDE DEF to
      <3>6. \A y \in Device :
                \/ down'[y] = down[y]
                \/ \E b \in S2c : down'[y] = Append(down[y], b) /\ b.type # "appended"
        BY <1>7, <3>1, <3>5
      <3> QED
        BY <1>2, <1>8, <2>1, <3>4, <3>6 DEF RelayCalm, Answers, m
    <2> QED
      BY <2>2, <2>3
  <1>9. CASE m.type = "getlog" /\ HandleGetLog(d)
    <2> DEFINE a == [type |-> "log", entries |-> relayLog]
               to == [x \in {d} |-> a]
    <2>1. d \notin Founders /\ relayLog' = relayLog /\ down' = Sent(to)
      BY <1>3, <1>9 DEF Sends, HandleGetLog
    <2>2. a \in S2c /\ a.type = "log"
      BY <1>1 DEF S2c
    <2> HIDE DEF a
    <2>3. \A x \in Founders : down'[x] = down[x]
      BY <1>1, <2>1 DEF Sent
    <2>4. \A x \in DOMAIN to : to[x] \in S2c /\ to[x].type # "appended"
      BY <2>2
    <2> HIDE DEF to
    <2>5. \A y \in Device :
              \/ down'[y] = down[y]
              \/ \E b \in S2c : down'[y] = Append(down[y], b) /\ b.type # "appended"
      BY <1>7, <2>1, <2>4
    <2> QED
      BY <1>2, <1>9, <2>1, <2>3, <2>5 DEF RelayCalm, Answers, m
  <1>10. CASE m.type = "wraps" /\ HandleKeyUpdate(d, m.wraps)
    <2>1. m.wraps \in SUBSET Wrap /\ relayLog' = relayLog
      BY <1>3, <1>10 DEF C2s, HandleKeyUpdate
    <2>2. CASE ~Member(d)
      <3>1. down' = down
        BY <1>10, <2>2 DEF HandleKeyUpdate
      <3> QED
        BY <1>2, <1>10, <2>1, <2>2, <3>1 DEF RelayCalm, Forwards, Member, m
    <2>3. CASE Member(d)
      <3> DEFINE ws == m.wraps
                 T == {w.to : w \in ws}
                 to == [x \in T |-> [type |-> "wrap", wrap |-> WrapFor(ws, x)]]
      <3>1. down' = Sent(to)
        BY <1>10, <2>3 DEF HandleKeyUpdate
      <3>2. \A x \in T : Parcel(WrapFor(ws, x)) \in S2c /\ Parcel(WrapFor(ws, x)).type = "wrap"
        <4>1. \A x \in T : WrapFor(ws, x) \in Wrap
          BY <2>1, WrapForType
        <4> QED
          BY <4>1 DEF S2c, Parcel
      <3>3. \A x \in T : to[x] = Parcel(WrapFor(ws, x))
        BY DEF Parcel
      <3>4. DOMAIN to = T
        OBVIOUS
      <3> HIDE DEF to, ws
      <3>5. \A x \in Founders : down'[x] = IF x \in T THEN Append(down[x], Parcel(WrapFor(ws, x))) ELSE down[x]
        BY <1>1, <1>4, <3>1, <3>3, <3>4 DEF Sent
      <3>6. \A x \in DOMAIN to : to[x] \in S2c /\ to[x].type # "appended"
        BY <3>2, <3>3, <3>4
      <3>7. \A y \in Device :
                \/ down'[y] = down[y]
                \/ \E b \in S2c : down'[y] = Append(down[y], b) /\ b.type # "appended"
        BY <1>7, <3>1, <3>6
      <3> QED
        BY <1>2, <1>10, <2>1, <2>3, <3>5, <3>7 DEF RelayCalm, Forwards, Member, m, ws
    <2> QED
      BY <2>2, <2>3
  <1>11. CASE m.type = "append" /\ HandleAppend(d, m.entry)
    <2> DEFINE e == m.entry
    <2>1. e \in Entry /\ By(d, e) /\ MayAppend(d, e)
      BY <1>5, <1>6, <1>11 DEF HandleAppend
    <2>2. FullyValid(Append(relayLog, e)) /\ relayLog' = Append(relayLog, e)
      BY <1>11, <2>1, AppendKeepsValid DEF HandleAppend
    <2>3. e.body.type = "add" => e.body.subject \notin Founders
      <3>1. e.body.type = "add" => e.body.subject = d
        BY <2>1 DEF By, Author
      <3>2. d \in Founders => e.body.type # "add"
        BY <1>3, <1>11 DEF Sends
      <3> QED
        BY <3>1, <3>2
    <2> DEFINE T == (Roster(relayLog') \ {d}) \cup Asker(d)
               to == [x \in T |-> IF x = d THEN [type |-> "ack"] ELSE [type |-> "appended", entry |-> e]]
    <2>4. down' = Sent(to)
      BY <1>11, <2>1 DEF HandleAppend
    <2>5. /\ DOMAIN to = T /\ \A x \in T : x # d => to[x] = News(e)
          /\ \A x \in T : x = d => to[x] = [type |-> "ack"]
      BY DEF News
    <2>6. News(e) \in S2c /\ [type |-> "ack"] \in S2c /\ News(e).entry = e
      BY <2>1 DEF S2c, News
    <2>7. \A x \in Founders : x \in T <=> x \in Roster(relayLog') \ {d}
      <3>1. \A x \in Founders : phase[x] = "online"
        BY DEF CalmBase, Steady
      <3> QED
        BY <3>1 DEF Asker
    <2> HIDE DEF to, e, T
    <2>8. \A x \in Founders : down'[x] = IF x \in Roster(relayLog') \ {d}
                                         THEN Append(down[x], News(e)) ELSE down[x]
      BY <1>1, <1>4, <2>4, <2>5, <2>7 DEF Sent
    <2>9. ASSUME NEW y \in Device
          PROVE  \/ down'[y] = down[y]
                 \/ \E a \in S2c : /\ down'[y] = Append(down[y], a)
                                   /\ a.type = "appended" /\ a.entry.body.type = "add" =>
                                          a.entry.body.subject \notin Founders
      <3>1. \/ down'[y] = down[y]
            \/ y \in T /\ down'[y] = Append(down[y], to[y])
        BY <2>4, <2>5 DEF Sent
      <3>2. [type |-> "ack"].type = "ack"
        OBVIOUS
      <3> QED
        BY <2>3, <2>5, <2>6, <3>1, <3>2
    <2>10. Accepts(d, m)
      BY <1>11, <2>1, <2>2, <2>8 DEF Accepts, e
    <2> QED
      BY <1>2, <2>9, <2>10 DEF RelayCalm, m
  <1> QED
    BY <1>8, <1>9, <1>10, <1>11 DEF RelayReads, m

LEMMA NewsKept ==
    ASSUME NEW F, NEW q \in Seq(S2c), NewsOK(q, F)
    PROVE  /\ q # <<>> => NewsOK(Tail(q), F)
           /\ \A a \in S2c : (a.type = "appended" /\ a.entry.body.type = "add" => a.entry.body.subject \notin F)
                                 => NewsOK(Append(q, a), F)
  <1>1. q # <<>> => NewsOK(Tail(q), F)
    <2>1. q # <<>> => \A i \in 1 .. Len(Tail(q)) : Tail(q)[i] = q[i + 1] /\ i + 1 \in 1 .. Len(q)
      BY WithoutHead
    <2> QED
      BY <2>1 DEF NewsOK
  <1>2. ASSUME NEW a \in S2c, a.type = "appended" /\ a.entry.body.type = "add" => a.entry.body.subject \notin F,
               NEW q2, q2 = Append(q, a)
        PROVE  NewsOK(q2, F)
    <2>1. q2 = q \o <<a>> /\ <<a>> \in Seq(S2c) /\ <<a>>[1] = a /\ \A i \in 1 .. Len(<<a>>) : i = 1
      BY <1>2, AppendIsBehind
    <2>2. Spliced(q2, q, <<a>>)
      BY <2>1, Behind
    <2>3. \A i \in 1 .. Len(q2) : i \in 1 .. Len(q) \/ q2[i] = a
      BY <2>1, <2>2 DEF Spliced
    <2>4. \A i \in 1 .. Len(q) : q2[i] = q[i]
      BY <2>2 DEF Spliced
    <2> QED
      BY <1>2, <2>3, <2>4 DEF NewsOK
  <1> QED
    BY <1>1, <1>2

\* The parts of CalmBase that concern one device.
CalmOne(y, F, p, k, u, q) ==
    /\ y \in F => Steady(p, k, u, q)
    /\ NewsOK(q, F)
    /\ Ordered(u, y, F)

LEMMA CalmParts ==
    ASSUME Founders \subseteq Device
    PROVE  CalmBase <=> \A y \in Device :
                           /\ CalmOne(y, Founders, phase[y], wid[y], up[y], down[y])
                           /\ code[y] # None => invites[code[y]] # None
  BY DEF CalmBase, CalmOne

\* A step of a device, and of the relay.
LEMMA CalmDevice ==
    ASSUME TypeOK, CalmBase, NEW d \in Device, DeviceStep(d), DeviceCalm(d), Founders' = Founders
    PROVE  CalmBase'
  <1>1. /\ up \in [Device -> Seq(C2s)] /\ down \in [Device -> Seq(S2c)] /\ Founders \subseteq Device
    BY DEF TypeOK, NetTypeOK, CalmBase
  <1>2. \A y \in Device : CalmOne(y, Founders, phase[y], wid[y], up[y], down[y])
    BY <1>1, CalmParts
  <1>3. ASSUME NEW y \in Device \ {d} PROVE CalmOne(y, Founders, phase'[y], wid'[y], up'[y], down'[y])
    <2>1. phase'[y] = phase[y] /\ wid'[y] = wid[y] /\ up'[y] = up[y] /\ down'[y] = down[y]
      BY Aside, AsideSession
    <2> QED
      BY <1>2, <1>3, <2>1 DEF CalmOne
  <1>4. CalmOne(d, Founders, phase'[d], wid'[d], up'[d], down'[d])
    <2>1. PICK ms : Says(d, Founders, ms) /\ up'[d] = up[d] \o ms
      BY DEF DeviceCalm
    <2>2. CalmOne(d, Founders, phase[d], wid[d], up[d], down[d]) /\ up[d] \in Seq(C2s) /\ down[d] \in Seq(S2c)
      BY <1>1, <1>2
    <2>3. Ordered(up[d] \o ms, d, Founders)
      BY <2>1, <2>2, OrderedBehind DEF Says, CalmOne
    <2>4. down'[d] = down[d] \/ (down[d] # <<>> /\ down'[d] = Tail(down[d]))
      BY DEF DeviceCalm
    <2>5. NewsOK(down'[d], Founders)
      BY <2>2, <2>4, NewsKept DEF CalmOne
    <2>6. ASSUME d \in Founders PROVE Steady(phase'[d], wid'[d], up'[d], down'[d])
      <3>1. phase'[d] = phase[d] /\ wid'[d] = wid[d] /\ Steady(phase[d], wid[d], up[d], down[d])
        BY <2>2, <2>6 DEF DeviceCalm, CalmOne
      <3>2. PICK ns \in Seq(Sends) : up'[d] = up[d] \o ns
        BY <2>6 DEF DeviceCalm
      <3>3. up'[d] \in Seq(Sends)
        BY <3>1, <3>2, ConcatProperties DEF Steady
      <3>4. down'[d] \in Seq(Hears)
        BY <2>4, <3>1, WithoutHead DEF Steady
      <3> QED
        BY <3>1, <3>3, <3>4 DEF Steady
    <2> QED
      BY <2>1, <2>3, <2>5, <2>6 DEF CalmOne
  <1>5. \A y \in Device : code'[y] # None => invites'[code'[y]] # None
    BY DEF DeviceCalm
  <1> QED
    BY <1>1, <1>3, <1>4, <1>5 DEF CalmBase, CalmOne

LEMMA CalmRelay ==
    ASSUME TypeOK, CalmBase, NEW d \in Device, RelayCalm(d), Founders' = Founders
    PROVE  CalmBase'
  <1>1. /\ up \in [Device -> Seq(C2s)] /\ down \in [Device -> Seq(S2c)] /\ Founders \subseteq Device
    BY DEF TypeOK, NetTypeOK, CalmBase
  <1>2. UNCHANGED <<phase, wid, code, invites>>
    BY DEF RelayCalm
  <1>3. ASSUME NEW y \in Device PROVE NewsOK(down'[y], Founders)
    <2>1. NewsOK(down[y], Founders) /\ down[y] \in Seq(S2c)
      BY <1>1 DEF CalmBase
    <2>2. \/ down'[y] = down[y]
          \/ \E a \in S2c : /\ down'[y] = Append(down[y], a)
                            /\ a.type = "appended" /\ a.entry.body.type = "add" =>
                                   a.entry.body.subject \notin Founders
      BY DEF RelayCalm
    <2> QED
      BY <2>1, <2>2, NewsKept
  <1>4. ASSUME NEW y \in Device PROVE Ordered(up'[y], y, Founders) /\ (y # d => up'[y] = up[y])
    <2>1. Ordered(up[y], y, Founders) /\ up[y] \in Seq(C2s)
      BY <1>1 DEF CalmBase
    <2>2. y = d => up[y] # <<>> /\ up'[y] = Tail(up[y])
      BY DEF RelayCalm
    <2>3. y # d => up'[y] = up[y]
      BY DEF RelayCalm
    <2>4. y = d => Ordered(Tail(up[y]), y, Founders)
      BY <2>1, <2>2, OrderedTail
    <2> QED
      BY <2>1, <2>2, <2>3, <2>4
  <1>5. ASSUME NEW x \in Founders PROVE Steady(phase[x], wid[x], up'[x], down'[x])
    <2>1. Steady(phase[x], wid[x], up[x], down[x])
      BY <1>5 DEF CalmBase
    <2>2. up'[x] \in Seq(Sends)
      <3>1. x = d => up[x] # <<>> /\ up'[x] = Tail(up[x])
        BY DEF RelayCalm
      <3>2. x = d => Tail(up[x]) \in Seq(Sends)
        BY <2>1, <3>1, WithoutHead DEF Steady
      <3> QED
        BY <1>1, <1>4, <1>5, <2>1, <3>1, <3>2 DEF Steady
    <2>3. down'[x] = down[x] \/ \E a \in Hears : down'[x] = Append(down[x], a)
      <3> DEFINE m == Head(up[d])
      <3>1. Accepts(d, m) \/ Forwards(d, m) \/ Answers(d, m)
        BY DEF RelayCalm
      <3> HIDE DEF m
      <3>2. CASE Accepts(d, m)
        <4>1. News(m.entry) \in Hears
          BY <3>2 DEF Accepts, News, Hears, S2c
        <4> QED
          BY <1>5, <3>2, <4>1 DEF Accepts
      <3>3. CASE Forwards(d, m)
        <4>1. x \in {w.to : w \in m.wraps} => Parcel(WrapFor(m.wraps, x)) \in Hears
          <5>1. x \in {w.to : w \in m.wraps} => WrapFor(m.wraps, x) \in Wrap
            BY <3>3, WrapForType DEF Forwards
          <5> QED
            BY <5>1 DEF Parcel, Hears, S2c
        <4> QED
          BY <1>5, <3>3, <4>1 DEF Forwards
      <3> QED
        BY <1>5, <3>1, <3>2, <3>3 DEF Answers
    <2>4. \A a \in Hears : Append(down[x], a) \in Seq(Hears)
      BY <2>1, AppendProperties DEF Steady
    <2> QED
      BY <2>1, <2>2, <2>3, <2>4 DEF Steady
  <1>6. \A y \in Device : code'[y] # None => invites'[code'[y]] # None
    BY <1>2 DEF CalmBase
  <1> QED
    BY <1>1, <1>2, <1>3, <1>4, <1>5, <1>6 DEF CalmBase

\* A step while nothing goes wrong.
LEMMA CalmSteps ==
    ASSUME TypeOK, RelayLogValid, KeyInv, CalmBase, Calm', [Next]_vars
    PROVE  \/ \E d \in Device : DeviceStep(d) /\ DeviceCalm(d)
           \/ \E d \in Device : RelayCalm(d)
           \/ UNCHANGED vars
  <1>1. ~RelayRestart
    <2>1. relayRestarts' = 0 /\ relayRestarts \in Nat
      BY DEF Calm, TypeOK, BoundsTypeOK
    <2> QED
      BY <2>1 DEF RelayRestart
  <1> QED
    BY <1>1, DeviceStepCalm, RelayReadsCalm DEF Next

LEMMA CalmBaseInit == Init => CalmBase
  <1> SUFFICES ASSUME NEW l \in Limits, limit = l, InitFrom(l.first) PROVE CalmBase
    BY DEF Init
  <1>1. Founders = MembersOf(l.first) /\ Founders \subseteq Device
    BY DEF Founders, MembersOf, MembersAfter
  <1>2. <<>> \in Seq(Sends) /\ <<>> \in Seq(Hears) /\ Len(<<>>) = 0 /\ \A i : ~(i \in 1 .. 0)
    OBVIOUS
  <1>3. \A x \in Founders : phase[x] = "online" /\ wid[x] /\ up[x] = <<>> /\ down[x] = <<>>
    BY <1>1 DEF InitFrom
  <1>4. \A y \in Device : code[y] = None /\ down[y] = <<>> /\ up[y] = <<>>
    BY DEF InitFrom
  <1>5. \A y \in Device : NewsOK(down[y], Founders) /\ Ordered(up[y], y, Founders)
    BY <1>2, <1>4 DEF NewsOK, Ordered
  <1> QED
    BY <1>1, <1>2, <1>3, <1>4, <1>5 DEF CalmBase, Steady

LEMMA CalmBaseStep ==
    ASSUME TypeOK, RelayLogValid, KeyInv, Calm => CalmBase, [Next]_vars
    PROVE  Calm' => CalmBase'
  <1> SUFFICES ASSUME Calm' PROVE CalmBase'
    OBVIOUS
  <1>1. Calm /\ Founders' = Founders
    BY CalmBefore
  <1>2. CASE UNCHANGED vars
    BY <1>1, <1>2 DEF vars, relayVars, netVars, joinVars, deviceVars, CalmBase
  <1> QED
    BY <1>1, <1>2, CalmSteps, CalmDevice, CalmRelay

-----------------------------------------------------------------------------
(* The logs of the founders.                                               *)

CalmLogs ==
    \A x \in Founders \cap Roster(relayLog) :
        Follows(x, relayLog, log[x], revoking[x], up[x], down[x])

\* Founder x follows after a step, and is still bound to have an entry turned down
\* if it was before.
StillFollows(x) ==
    /\ Follows(x, relayLog', log'[x], revoking'[x], up'[x], down'[x])
    /\ Doomed(relayLog, log[x], revoking[x], up[x]) =>
           Doomed(relayLog', log'[x], revoking'[x], up'[x])

LEMMA CalmTypes ==
    ASSUME TypeOK, RelayLogValid
    PROVE  /\ up \in [Device -> Seq(C2s)] /\ down \in [Device -> Seq(S2c)] /\ log \in [Device -> Log]
           /\ key \in [Device -> GroupKey \cup {None}] /\ revoking \in [Device -> Revocation \cup {None}]
           /\ relayLog \in Log /\ relayLog # <<>> /\ FullyValid(relayLog)
           /\ Roster(relayLog) = MembersOf(relayLog)
  BY ValidLog DEF TypeOK, RelayTypeOK, NetTypeOK, DeviceTypeOK, RelayLogValid

\* A founder's revocation, as a step.
LEMMA LogsRevoke ==
    ASSUME TypeOK, RelayLogValid, NEW x \in Device, NEW t \in Device, RevokeSends(x, t),
           Follows(x, relayLog, log[x], revoking[x], up[x], down[x]), relayLog' = relayLog
    PROVE  StillFollows(x)
  <1>1. /\ revoking[x] = None /\ log'[x] = log[x] /\ down'[x] = down[x]
        /\ t \in MembersOf(log[x]) /\ t # x
    BY DEF RevokeSends
  <1>2. PICK remove, l2, rotate, k, ms : Revokes(x, t, Founders, remove, l2, rotate, k, ms)
    BY RevokeSendsSays
  <1>7. /\ Rotation(x, t, log[x], remove, l2, rotate, k) /\ Revocations(ms, remove, rotate, k)
        /\ up'[x] = up[x] \o ms
        /\ revoking'[x] = [length |-> Len(log[x]), entries |-> <<remove, rotate>>, key |-> k]
    BY <1>2 DEF Revokes
  <1>3. PICK r : r = revoking'[x]
    OBVIOUS
  <1>4. r.length = Len(log[x]) /\ r.entries = <<remove, rotate>> /\ r # None
    <2>1. Len(log[x]) \in Nat
      BY CalmTypes, LenProperties DEF Log
    <2>2. <<remove, rotate>> \in Log /\ k \in GroupKey
      BY <1>7 DEF Rotation, Log
    <2>3. PICK n, s : n = Len(log[x]) /\ s = <<remove, rotate>>
      OBVIOUS
    <2>4. r = [length |-> n, entries |-> s, key |-> k] /\ n \in Nat /\ s \in Log
      BY <1>7, <1>3, <2>1, <2>2, <2>3
    <2>5. r \in Revocation /\ r.length = n /\ r.entries = s
      BY <2>2, <2>4 DEF Revocation
    <2>6. None \notin Revocation
      BY NoneAssumption
    <2> QED
      BY <2>3, <2>5, <2>6
  <1>5. /\ Removes(l2, log[x], x, t) /\ remove \in Entry /\ remove = BuildOn(log[x], RemoveBody(x, t))
        /\ rotate = BuildOn(l2, EpochBody(x, EpochOf(log[x]) + 1, MembersOf(l2)))
    BY <1>7 DEF Rotation
  <1>6. /\ Doomed(relayLog, log[x], None, up[x]) => Doomed(relayLog, log[x], r, up[x] \o ms)
        /\ Follows(x, relayLog, log[x], r, up[x] \o ms, down[x])
    <2>1. /\ log[x] \in Log /\ up[x] \in Seq(C2s) /\ relayLog \in Log /\ FullyValid(relayLog)
          /\ Follows(x, relayLog, log[x], None, up[x], down[x])
      BY <1>1, CalmTypes
    <2> QED
      BY <1>1, <1>7, <1>4, <1>5, <2>1, FollowsSends
  <1> QED
    BY <1>1, <1>7, <1>3, <1>6 DEF StillFollows

LEMMA LogsDevice ==
    ASSUME TypeOK, RelayLogValid, CalmBase, CalmLogs, NEW d \in Device, DeviceStep(d), DeviceCalm(d),
           NEW x \in Founders \cap Roster(relayLog)
    PROVE  StillFollows(x) /\ relayLog' = relayLog
  <1>1. relayLog' = relayLog /\ x \in Device /\ x \in MembersOf(relayLog)
    BY Aside, CalmTypes DEF CalmBase
  <1>2. Follows(x, relayLog, log[x], revoking[x], up[x], down[x])
    BY DEF CalmLogs
  <1>3. CASE /\ log'[x] = log[x] /\ revoking'[x] = revoking[x]
             /\ up'[x] = up[x] /\ down'[x] = down[x]
    BY <1>1, <1>2, <1>3 DEF StillFollows
  <1>4. x # d => /\ log'[x] = log[x] /\ revoking'[x] = revoking[x]
                 /\ up'[x] = up[x] /\ down'[x] = down[x]
    BY <1>1, Aside
  <1>5. CASE x = d /\ HearAppended(d)
    <2>1. PICK ms : up'[x] = up[x] \o ms /\ ms \in Seq(Sends) /\ Silent(ms, "append")
      BY <1>5, HearAppendedSays
    <2>2. /\ down[x] # <<>> /\ Head(down[x]).type = "appended" /\ down'[x] = Tail(down[x])
          /\ log'[x] = Append(log[x], Head(down[x]).entry) /\ revoking'[x] = revoking[x]
      BY <1>1, <1>5, CalmTypes DEF HearAppended, Received, Consume
    <2>3. PICK l2 : l2 = Append(log[x], Head(down[x]).entry)
      OBVIOUS
    <2>4. /\ log[x] \in Log /\ revoking[x] \in Revocation \cup {None} /\ up[x] \in Seq(C2s)
          /\ down[x] \in Seq(S2c) /\ relayLog \in Log /\ FullyValid(relayLog)
      BY <1>1, CalmTypes
    <2>5. /\ Doomed(relayLog, log[x], revoking[x], up[x]) => Doomed(relayLog, l2, revoking[x], up[x])
          /\ Follows(x, relayLog, l2, revoking[x], up[x], Tail(down[x]))
      BY <1>1, <1>2, <2>2, <2>3, <2>4, FollowsHears
    <2>6. ms \in Seq(C2s)
      BY <2>1, Widen DEF Sends
    <2>7. l2 \in Log
      <3>1. Head(down[x]).entry \in Entry
        BY <2>2, <2>4, WithoutHead DEF S2c
      <3> QED
        BY <2>3, <2>4, <3>1, Grown DEF Extends
    <2>8. /\ Doomed(relayLog, l2, revoking[x], up[x]) => Doomed(relayLog, l2, revoking[x], up[x] \o ms)
          /\ Follows(x, relayLog, l2, revoking[x], up[x] \o ms, Tail(down[x]))
      BY <2>1, <2>4, <2>5, <2>6, <2>7, FollowsSpeaks
    <2> QED
      BY <1>1, <2>1, <2>2, <2>3, <2>5, <2>8 DEF StillFollows
  <1>6. CASE x = d /\ HearWrap(d)
    <2>1. /\ down[x] # <<>> /\ Head(down[x]).type # "appended" /\ down'[x] = Tail(down[x])
          /\ log'[x] = log[x] /\ revoking'[x] = revoking[x] /\ up'[x] = up[x]
      BY <1>1, <1>6, CalmTypes DEF HearWrap, Received, Consume
    <2>2. Follows(x, relayLog, log[x], revoking[x], up[x], Tail(down[x]))
      BY <1>1, <1>2, <2>1, CalmTypes, FollowsIgnores
    <2> QED
      BY <1>1, <2>1, <2>2 DEF StillFollows
  <1>7. ASSUME x = d, NEW t \in Device, RevokeSends(d, t) PROVE StillFollows(x)
    BY <1>1, <1>2, <1>7, LogsRevoke
  <1>8. CASE x = d /\ RevokeAdopts(d) /\ Len(log[d]) = revoking[d].length
    <2>1. /\ revoking[x] # None /\ Len(log[x]) = revoking[x].length
          /\ log'[x] = log[x] \o revoking[x].entries /\ revoking'[x] = None
          /\ up'[x] = up[x] /\ down'[x] = down[x]
      BY <1>1, <1>8, CalmTypes DEF RevokeAdopts, netVars
    <2>2. revoking[x].length \in Nat
      BY <1>1, <2>1, CalmTypes DEF Revocation
    <2>3. /\ Doomed(relayLog, log[x], revoking[x], up[x]) =>
                 Doomed(relayLog, log[x] \o revoking[x].entries, None, up[x])
          /\ Follows(x, relayLog, log[x] \o revoking[x].entries, None, up[x], down[x])
      BY <1>2, <2>1, <2>2, FollowsAdopts
    <2> QED
      BY <1>1, <2>1, <2>3 DEF StillFollows
  <1> QED
    BY <1>1, <1>3, <1>4, <1>5, <1>6, <1>7, <1>8 DEF DeviceCalm, FounderStep

\* No founder is admitted by an entry of another.
LEMMA RosterFounders ==
    ASSUME TypeOK, RelayLogValid, CalmBase, NEW d \in Device, RelayCalm(d)
    PROVE  /\ Founders \cap Roster(relayLog') \subseteq Roster(relayLog)
           /\ relayLog' \in Log /\ FullyValid(relayLog')
  <1> DEFINE m == Head(up[d])
             e == m.entry
  <1>1. CASE ~Accepts(d, m)
    BY <1>1, CalmTypes DEF RelayCalm, Forwards, Answers
  <1>2. CASE Accepts(d, m)
    <2>1. /\ relayLog' = Append(relayLog, e) /\ FullyValid(relayLog') /\ e \in Entry /\ By(d, e)
          /\ m.type = "append" /\ relayLog \in Log /\ relayLog # <<>>
      BY <1>2, CalmTypes DEF Accepts
    <2>2. d \in Founders => e.body.type # "add"
      <3>1. d \in Founders => up[d] \in Seq(Sends) /\ up[d] # <<>>
        BY DEF CalmBase, Steady, RelayCalm
      <3>2. d \in Founders => m \in Sends
        BY <3>1, WithoutHead
      <3> QED
        BY <2>1, <3>2 DEF Sends
    <2>3. \A x \in Founders : ~Admits(e.body, x)
      BY <2>1, <2>2 DEF Admits, By, Author
    <2> HIDE DEF m
    <2>4. PICK R2 : R2 = relayLog'
      OBVIOUS
    <2>5. Extends(R2, relayLog, e)
      BY <2>1, <2>4, Grown
    <2>6. R2 \in Log /\ Len(R2) = Len(relayLog) + 1
      BY <2>5 DEF Extends
    <2>7. Roster(R2) = MembersAfter(R2, Len(relayLog) + 1)
      BY <2>1, <2>4, <2>6, ValidLog
    <2>8. MembersAfter(R2, Len(relayLog) + 1) =
              {x \in Device : Admits(e.body, x)}
                  \cup {x \in MembersAfter(relayLog, Len(relayLog)) : ~Expels(e.body, x)}
      BY <2>1, <2>4, MembersNext
    <2>9. Roster(relayLog) = MembersAfter(relayLog, Len(relayLog))
      BY CalmTypes, ValidLog
    <2> QED
      BY <2>1, <2>3, <2>4, <2>6, <2>7, <2>8, <2>9
  <1> QED
    BY <1>1, <1>2

LEMMA LogsRelay ==
    ASSUME TypeOK, RelayLogValid, CalmBase, CalmLogs, NEW d \in Device, RelayCalm(d),
           NEW x \in Founders \cap Roster(relayLog')
    PROVE  StillFollows(x)
  <1> DEFINE m == Head(up[d])
             R == relayLog
  <1>1. x \in Device /\ x \in Roster(relayLog)
    BY RosterFounders DEF CalmBase
  <1>2. Follows(x, R, log[x], revoking[x], up[x], down[x])
    BY <1>1 DEF CalmLogs
  <1>3. /\ log[x] \in Log /\ revoking[x] \in Revocation \cup {None} /\ up[x] \in Seq(C2s)
        /\ down[x] \in Seq(S2c) /\ R \in Log /\ FullyValid(R)
    BY <1>1, CalmTypes
  <1>4. /\ log'[x] = log[x] /\ revoking'[x] = revoking[x]
        /\ x = d => up[x] # <<>> /\ up'[x] = Tail(up[x])
        /\ x # d => up'[x] = up[x]
    BY <1>1 DEF RelayCalm
  <1>5. CASE Accepts(d, m)
    <2> DEFINE e == m.entry
    <2>1. /\ relayLog' = Append(R, e) /\ FullyValid(relayLog') /\ e \in Entry /\ m.type = "append"
          /\ x # d => down'[x] = Append(down[x], News(e))
          /\ x = d => down'[x] = down[x]
      BY <1>5 DEF Accepts
    <2>2. PICK R2 : R2 = relayLog'
      OBVIOUS
    <2>3. CASE x = d
      <3>1. /\ Doomed(R, log[x], revoking[x], up[x]) => Doomed(R2, log[x], revoking[x], Tail(up[x]))
            /\ Follows(x, R2, log[x], revoking[x], Tail(up[x]), down[x])
        <4>1. up[x] # <<>> /\ Head(up[x]).type = "append" /\ R2 = Append(R, Head(up[x]).entry) /\ FullyValid(R2)
          BY <1>4, <2>1, <2>2, <2>3
        <4> QED
          BY <1>2, <1>3, <4>1, FollowsRead
      <3> QED
        BY <1>4, <2>1, <2>2, <2>3, <3>1 DEF StillFollows
    <2>4. CASE x # d
      <3>1. News(e) \in S2c /\ News(e).type = "appended" /\ News(e).entry = e
        BY <2>1 DEF News, S2c
      <3> HIDE DEF e
      <3>2. /\ Doomed(R, log[x], revoking[x], up[x]) => Doomed(R2, log[x], revoking[x], up[x])
            /\ Follows(x, R2, log[x], revoking[x], up[x], Append(down[x], News(e)))
        <4>1. R2 = Append(R, e) /\ FullyValid(R2) /\ e \in Entry
          BY <2>1, <2>2 DEF e
        <4> QED
          BY <1>2, <1>3, <3>1, <4>1, FollowsPushed
      <3> QED
        BY <1>4, <2>1, <2>2, <2>4, <3>2 DEF StillFollows, e
    <2> QED
      BY <2>3, <2>4
  <1>6. CASE ~Accepts(d, m)
    <2>1. relayLog' = R /\ (d \in Founders => m.type # "append")
          /\ \/ down'[x] = down[x]
             \/ \E a \in S2c : a.type # "appended" /\ down'[x] = Append(down[x], a)
      <3>1. CASE Forwards(d, m)
        <4>1. x \in {w.to : w \in m.wraps} =>
                  Parcel(WrapFor(m.wraps, x)) \in S2c /\ Parcel(WrapFor(m.wraps, x)).type # "appended"
          <5>1. x \in {w.to : w \in m.wraps} => WrapFor(m.wraps, x) \in Wrap
            BY <3>1, WrapForType DEF Forwards
          <5> QED
            BY <5>1 DEF Parcel, S2c
        <4> HIDE DEF m
        <4> QED
          BY <3>1, <4>1 DEF Forwards
      <3> QED
        BY <1>6, <3>1 DEF RelayCalm, Answers
    <2>2. PICK u : u = up'[x]
      OBVIOUS
    <2>3. /\ Doomed(R, log[x], revoking[x], up[x]) => Doomed(R, log[x], revoking[x], u)
          /\ Follows(x, R, log[x], revoking[x], u, down[x])
      <3>1. CASE x = d
        <4>1. u = Tail(up[x]) /\ up[x] # <<>> /\ Head(up[x]).type # "append"
          BY <1>4, <2>1, <2>2, <3>1
        <4>2. /\ Doomed(R, log[x], revoking[x], up[x]) => Doomed(R, log[x], revoking[x], Tail(up[x]))
              /\ Follows(x, R, log[x], revoking[x], Tail(up[x]), down[x])
          BY <1>2, <1>3, <4>1, FollowsReadOther
        <4> QED
          BY <4>1, <4>2
      <3> QED
        BY <1>2, <1>4, <2>2, <3>1
    <2>4. Follows(x, R, log[x], revoking[x], u, down'[x])
      BY <1>3, <2>1, <2>3, FollowsPushedOther
    <2> QED
      BY <1>4, <2>1, <2>2, <2>3, <2>4 DEF StillFollows
  <1> QED
    BY <1>5, <1>6

LEMMA CalmLogsInit == Init => CalmLogs
  <1> SUFFICES ASSUME NEW f \in Limits, limit = f, InitFrom(f.first), NEW x \in Founders \cap Roster(relayLog)
               PROVE  Follows(x, relayLog, log[x], revoking[x], up[x], down[x])
    BY DEF Init, CalmLogs
  <1> DEFINE R == relayLog
  <1>1. R = f.first /\ Founders = MembersOf(R) /\ R \in Log /\ FullyValid(R)
    BY MembershipAssumption DEF InitFrom, Founders, Limit, Log
  <1>2. /\ Len(R) \in Nat /\ MembersOf(R) = MembersAfter(R, Len(R)) /\ x \in Device
    BY <1>1, ValidLog DEF MembersOf, MembersAfter
  <1>3. log[x] = R /\ revoking[x] = None /\ up[x] = <<>> /\ down[x] = <<>>
    BY <1>1, <1>2 DEF InitFrom
  <1>4. \A type : Silent(<<>>, type)
    <2>1. Len(<<>>) = 0 /\ \A i : ~(i \in 1 .. 0)
      OBVIOUS
    <2> QED
      BY <2>1 DEF Silent
  <1> HIDE DEF R
  <1>5. \A type : Tells(<<>>, type, R, Len(R))
    BY <1>2, <1>4, TellsNone
  <1>6. Level(R, R, <<>>, <<>>)
    BY <1>1, <1>5 DEF Level
  <1>7. Mine(log[x], revoking[x]) = R
    BY <1>3 DEF Mine
  <1>8. x \in MembersAfter(R, Len(R))
    BY <1>1, <1>2
  <1> QED
    BY <1>3, <1>6, <1>7, <1>8 DEF Follows, R

LEMMA CalmLogsStep ==
    ASSUME TypeOK, RelayLogValid, KeyInv, Calm => CalmBase, Calm => CalmLogs, [Next]_vars
    PROVE  Calm' => CalmLogs'
  <1> SUFFICES ASSUME Calm' PROVE CalmLogs'
    OBVIOUS
  <1>1. Calm /\ Founders' = Founders
    BY CalmBefore
  <1>2. CASE UNCHANGED vars
    BY <1>1, <1>2 DEF vars, relayVars, netVars, joinVars, deviceVars, CalmLogs
  <1>3. ASSUME NEW d \in Device, DeviceStep(d), DeviceCalm(d) PROVE CalmLogs'
    <2>1. relayLog' = relayLog
      BY <1>3, Aside
    <2>2. \A x \in Founders \cap Roster(relayLog) : StillFollows(x)
      BY <1>1, <1>3, LogsDevice
    <2> QED
      BY <1>1, <2>1, <2>2 DEF CalmLogs, StillFollows
  <1>4. ASSUME NEW d \in Device, RelayCalm(d) PROVE CalmLogs'
    <2>1. \A x \in Founders \cap Roster(relayLog') : StillFollows(x)
      BY <1>1, <1>4, LogsRelay
    <2> QED
      BY <1>1, <2>1 DEF CalmLogs, StillFollows
  <1> QED
    BY <1>1, <1>2, <1>3, <1>4, CalmSteps

-----------------------------------------------------------------------------
(* The end of the relay's log.                                             *)

Last(l) == l[Len(l)].body

\* What the last entry of a valid log says of the members.
LEMMA LastSays ==
    ASSUME NEW l \in Log, FullyValid(l)
    PROVE  /\ Last(l) \in Body
           /\ Last(l).type = "add" => Last(l).subject \in MembersOf(l)
           /\ Last(l).type = "remove" /\ Last(l).target # Last(l).by => Last(l).by \in MembersOf(l)
           /\ Last(l).type = "epoch" =>
                  /\ Last(l).rotator \in MembersOf(l) /\ Last(l).members = MembersOf(l)
                  /\ Last(l).number = EpochOf(l)
  <1> DEFINE n == Len(l)
             e == l[n]
             b == e.body
  <1>1. /\ l # <<>> /\ n \in Nat /\ n >= 1 /\ MembersOf(l) = MembersAfter(l, n)
        /\ EpochOf(l) = EpochAfter(l, n) /\ n \in 1 .. n
    BY ValidLog
  <1>2. e \in Entry /\ b \in Body
    <2>1. e \in Entry
      BY <1>1, ElementOfSeq DEF Log
    <2> QED
      BY <2>1 DEF Entry
  <1>3. b.type = "add" => b.subject \in MembersAfter(l, n)
    <2> SUFFICES ASSUME b.type = "add" PROVE b.subject \in MembersAfter(l, n)
      OBVIOUS
    <2>1. b.subject \in Device /\ Admits(l[n].body, b.subject)
      BY <1>2 DEF Body, Admits
    <2> HIDE DEF b, e
    <2>2. \A k \in n + 1 .. n : FALSE
      BY <1>1
    <2> QED
      BY <1>1, <2>1, <2>2 DEF MembersAfter
  <1>4. CASE n = 1
    <2>1. b.type = "genesis"
      BY <1>4 DEF FullyValid, Verifies
    <2> QED
      BY <1>2, <2>1 DEF Last
  <1>5. CASE n # 1
    <2>1. PICK f : f = SubSeq(l, 1, n - 1)
      OBVIOUS
    <2>2. f \in Log /\ Len(f) = n - 1 /\ \A i \in 1 .. n - 1 : f[i] = l[i]
      <3>1. \A i \in 1 .. n - 1 : l[i] \in Entry
        <4>1. \A i \in 1 .. n - 1 : i \in 1 .. n
          BY <1>1
        <4> QED
          BY <4>1, ElementOfSeq DEF Log
      <3>2. 1 \in Int /\ n - 1 \in Int /\ 1 <= n - 1 /\ (n - 1) - 1 + 1 = n - 1
        <4> HIDE DEF n
        <4> QED
          BY <1>1, <1>5
      <3>3. SubSeq(l, 1, n - 1) \in Seq(Entry) /\ Len(SubSeq(l, 1, n - 1)) = n - 1
        BY <3>1, <3>2, SubSeqProperties
      <3>4. \A i \in 1 .. n - 1 : SubSeq(l, 1, n - 1)[i] = l[i]
        BY <1>1, <3>1, <3>2, SubSeqProperties DEF Log
      <3> QED
        BY <2>1, <3>3, <3>4 DEF Log
    <2>3. PICK l2 : l2 = Append(f, e)
      OBVIOUS
    <2>4. Extends(l2, f, e)
      BY <1>2, <2>2, <2>3, Grown
    <2>5. l2 = l
      <3>1. Len(l2) = n /\ l2 \in Log
        BY <1>1, <2>2, <2>4 DEF Extends
      <3>2. \A i \in 1 .. n : l2[i] = l[i]
        <4>1. \A i \in 1 .. n : i \in 1 .. n - 1 \/ i = n
          BY <1>1
        <4>2. l2[n] = e /\ \A i \in 1 .. n - 1 : l2[i] = f[i]
          <5>1. (n - 1) + 1 = n
            BY <1>1
          <5> QED
            BY <2>2, <2>4, <5>1 DEF Extends
        <4> HIDE DEF n
        <4> QED
          BY <2>2, <4>1, <4>2
      <3> QED
        BY <3>1, <3>2, SeqEqual DEF Log
    <2>6. Allowed(f, n - 1, b) /\ b.type # "genesis" /\ f # <<>>
      <3>1. f # <<>>
        BY <1>1, <1>5, <2>2
      <3> HIDE DEF n, e, b
      <3>2. Allowed(f, Len(f), e.body) /\ e.body.type # "genesis"
        <4>1. FullyValid(l2)
          BY <2>5
        <4> QED
          BY <1>2, <2>2, <2>3, <3>1, <4>1, ValidLess
      <3>3. b = e.body /\ Len(f) = n - 1
        BY <2>2 DEF b
      <3> QED
        BY <3>1, <3>2, <3>3
    <2>7. /\ MembersAfter(l, n) = {d \in Device : Admits(b, d)}
                                      \cup {d \in MembersAfter(f, n - 1) : ~Expels(b, d)}
          /\ EpochAfter(l, n) = EpochAfter(f, n - 1) + (IF b.type = "epoch" THEN 1 ELSE 0)
      <3>1. Len(f) = n - 1 /\ Len(f) + 1 = n /\ b = e.body
        BY <1>1, <2>2
      <3> HIDE DEF n, e, b
      <3>2. /\ MembersAfter(l2, Len(f) + 1) = {d \in Device : Admits(e.body, d)}
                      \cup {d \in MembersAfter(f, Len(f)) : ~Expels(e.body, d)}
            /\ EpochAfter(l2, Len(f) + 1) =
                  EpochAfter(f, Len(f)) + (IF e.body.type = "epoch" THEN 1 ELSE 0)
        BY <1>2, <2>2, <2>3, MembersNext
      <3> QED
        BY <2>5, <3>1, <3>2
    <2> HIDE DEF e, b, n
    <2>8. ASSUME b.type = "epoch"
          PROVE  b.rotator \in MembersAfter(l, n) /\ b.members = MembersAfter(l, n) /\ b.number = EpochAfter(l, n)
      <3>1. \A d : ~Admits(b, d) /\ ~Expels(b, d)
        BY <2>8 DEF Admits, Expels
      <3>2. MembersAfter(l, n) = MembersAfter(f, n - 1)
        BY <2>7, <3>1
      <3> QED
        BY <2>6, <2>7, <2>8, <3>2 DEF Allowed
    <2>9. ASSUME b.type = "remove", b.target # b.by PROVE b.by \in MembersAfter(l, n)
      <3>1. b.by \in MembersAfter(f, n - 1)
        BY <2>6, <2>9 DEF Allowed
      <3>2. ~Expels(b, b.by)
        BY <2>9 DEF Expels
      <3> QED
        BY <2>7, <3>1, <3>2
    <2> QED
      BY <1>1, <1>2, <1>3, <2>8, <2>9 DEF Last, b, e, n
  <1> QED
    BY <1>4, <1>5

\* The second message of a queue is next.
LEMMA Second ==
    ASSUME NEW S, NEW u \in Seq(S), u # <<>>
    PROVE  /\ Tail(u) # <<>> <=> 2 <= Len(u)
           /\ 2 <= Len(u) => Head(Tail(u)) = u[2] /\ u[2] \in S /\ 2 \in 1 .. Len(u)
  <1>1. /\ Len(u) \in Nat /\ Len(Tail(u)) = Len(u) - 1 /\ Tail(u) \in Seq(S)
        /\ \A i \in 1 .. Len(Tail(u)) : Tail(u)[i] = u[i + 1] /\ i + 1 \in 1 .. Len(u)
    BY WithoutHead
  <1>2. PICK t : t = Tail(u)
    OBVIOUS
  <1>3. t # <<>> <=> Len(t) >= 1
    <2>1. t \in Seq(S)
      BY <1>1, <1>2
    <2>2. t # <<>> => Len(t) >= 1
      BY <2>1, WithoutHead
    <2> QED
      BY <2>2
  <1>4. ASSUME 2 <= Len(u) PROVE Head(t) = u[2] /\ u[2] \in S /\ 2 \in 1 .. Len(u)
    <2>1. 1 \in 1 .. Len(t) /\ 1 + 1 = 2
      BY <1>1, <1>2, <1>4
    <2>2. t[1] = u[2] /\ 2 \in 1 .. Len(u)
      BY <1>1, <1>2, <2>1
    <2>3. Head(t) = t[1]
      BY <1>1, <1>2, <1>3, <2>1
    <2> QED
      BY <2>2, <2>3, ElementOfSeq
  <1> QED
    BY <1>1, <1>2, <1>3, <1>4

\* The relay accepts entry e of device d.
TakesEntry(d, e) ==
    /\ Accepts(d, Head(up[d])) /\ Head(up[d]) = up[d][1] /\ up[d][1].entry = e
    /\ up[d] \in Seq(C2s) /\ up[d] # <<>> /\ Ordered(up[d], d, Founders) /\ up'[d] = Tail(up[d])
    /\ e \in Entry /\ e.body \in Body /\ By(d, e) /\ Is(up[d][1], e.body.type)
    /\ relayLog' = Append(relayLog, e) /\ relayLog' \in Log /\ FullyValid(relayLog')
    /\ Len(relayLog) \in Nat /\ Len(relayLog') = Len(relayLog) + 1 /\ Last(relayLog') = e.body
    /\ EpochOf(relayLog) \in Nat
    /\ EpochOf(relayLog') = EpochOf(relayLog) + (IF e.body.type = "epoch" THEN 1 ELSE 0)
    /\ d \in Founders => e.body.type # "add"

LEMMA TakesEntryIf ==
    ASSUME TypeOK, RelayLogValid, CalmBase, NEW d \in Device, RelayCalm(d), Accepts(d, Head(up[d]))
    PROVE  TakesEntry(d, Head(up[d]).entry)
  <1> DEFINE m == Head(up[d])
             e == m.entry
  <1>1. /\ relayLog' = Append(relayLog, e) /\ FullyValid(relayLog') /\ e \in Entry /\ By(d, e)
        /\ m.type = "append"
    BY DEF Accepts
  <1>2. /\ relayLog \in Log /\ relayLog # <<>> /\ FullyValid(relayLog) /\ up[d] \in Seq(C2s)
        /\ up[d] # <<>> /\ up'[d] = Tail(up[d]) /\ Ordered(up[d], d, Founders)
    BY CalmTypes DEF RelayCalm, CalmBase
  <1>3. m = up[d][1] /\ (d \in Founders => m \in Sends)
    <2>1. d \in Founders => up[d] \in Seq(Sends)
      BY DEF CalmBase, Steady
    <2> QED
      BY <1>2, <2>1, WithoutHead
  <1>4. d \in Founders => e.body.type # "add"
    BY <1>1, <1>3 DEF Sends
  <1> HIDE DEF m
  <1>5. PICK R2 : R2 = relayLog'
    OBVIOUS
  <1>6. Extends(R2, relayLog, e)
    BY <1>1, <1>2, <1>5, Grown
  <1>7. R2 \in Log /\ Len(R2) = Len(relayLog) + 1 /\ Len(relayLog) \in Nat /\ R2[Len(relayLog) + 1] = e
    BY <1>6 DEF Extends
  <1>8. EpochOf(R2) = EpochAfter(R2, Len(relayLog) + 1)
    BY <1>1, <1>5, <1>7, ValidLog
  <1>9. EpochOf(relayLog) = EpochAfter(relayLog, Len(relayLog)) /\ EpochOf(relayLog) \in Nat
    BY <1>2, ValidLog
  <1>10. EpochAfter(R2, Len(relayLog) + 1) =
             EpochAfter(relayLog, Len(relayLog)) + (IF e.body.type = "epoch" THEN 1 ELSE 0)
    BY <1>1, <1>2, <1>5, MembersNext
  <1>11. e.body \in Body
    BY <1>1 DEF Entry
  <1>12. Last(R2) = e.body
    BY <1>7 DEF Last
  <1>13. Accepts(d, Head(up[d])) /\ Is(up[d][1], e.body.type) /\ up[d][1].entry = e
    BY <1>1, <1>3 DEF Is
  <1> QED
    BY <1>1, <1>2, <1>3, <1>4, <1>5, <1>7, <1>8, <1>9, <1>10, <1>11, <1>12, <1>13 DEF TakesEntry, m

LEMMA HeadStays ==
    ASSUME NEW S, NEW u \in Seq(S), u # <<>>, NEW ms \in Seq(S)
    PROVE  u \o ms # <<>> /\ Head(u \o ms) = Head(u)
  OBVIOUS

\* The last entry of the relay's log, if the log has grown: a Remove entry is
\* followed by its Epoch entry, a joiner is no founder.
CalmEnd ==
    /\ Len(limit.first) <= Len(relayLog)
    /\ \/ relayLog = limit.first
       \/ LET b == Last(relayLog)
          IN  /\ b.type # "genesis"
              /\ b.type = "add" => b.subject \notin Founders
              /\ b.type = "remove" =>
                     /\ b.target # b.by
                     /\ up[b.by] # <<>> /\ Is(Head(up[b.by]), "epoch")

FirstMade == \E m \in made : m.key.n = 0 /\ m.members = Founders

LEMMA CalmEndInit == Init => CalmEnd /\ FirstMade
  <1> SUFFICES ASSUME NEW f \in Limits, limit = f, InitFrom(f.first)
               PROVE  CalmEnd /\ FirstMade
    BY DEF Init
  <1>1. relayLog = limit.first /\ limit.first \in Log \ {<<>>}
    BY FoundingType DEF InitFrom
  <1>2. Len(limit.first) <= Len(relayLog)
    BY <1>1 DEF Log
  <1>3. \E m \in made : m.key.n = 0 /\ m.members = Founders
    BY DEF InitFrom, FirstKey, Founders
  <1> QED
    BY <1>1, <1>2, <1>3 DEF CalmEnd, FirstMade

LEMMA CalmEndDevice ==
    ASSUME TypeOK, RelayLogValid, CalmEnd, FirstMade, NEW d \in Device, DeviceStep(d), DeviceCalm(d),
           limit' = limit, Founders' = Founders
    PROVE  CalmEnd' /\ FirstMade'
  <1> DEFINE b == Last(relayLog)
  <1>1. /\ relayLog' = relayLog /\ made \subseteq made'
        /\ \A x \in Device \ {d} : up'[x] = up[x]
    BY Aside
  <1>2. b \in Body
    BY CalmTypes, LastSays
  <1>3. ASSUME b.type = "remove", up[b.by] # <<>>, Is(Head(up[b.by]), "epoch")
        PROVE  up'[b.by] # <<>> /\ Is(Head(up'[b.by]), "epoch")
    <2>1. b.by \in Device
      BY <1>2, <1>3 DEF Body
    <2> HIDE DEF b
    <2>2. CASE b.by = d
      <3>1. PICK ms : ms \in Seq(C2s) /\ up'[d] = up[d] \o ms
        BY DEF DeviceCalm, Says
      <3>2. up[d] \in Seq(C2s)
        BY CalmTypes
      <3> QED
        BY <1>3, <2>2, <3>1, <3>2, HeadStays
    <2>3. CASE b.by # d
      BY <1>1, <1>3, <2>1, <2>3
    <2> QED
      BY <2>2, <2>3
  <1>4. b' = b
    BY <1>1 DEF Last
  <1>5. FirstMade'
    BY <1>1 DEF FirstMade
  <1> HIDE DEF b
  <1>6. CASE relayLog = limit.first
    BY <1>1, <1>5, <1>6 DEF CalmEnd
  <1>7. CASE relayLog # limit.first
    <2>1. /\ b.type # "genesis"
          /\ b.type = "add" => b.subject \notin Founders
          /\ b.type = "remove" => b.target # b.by /\ up'[b.by] # <<>> /\ Is(Head(up'[b.by]), "epoch")
      BY <1>3, <1>7 DEF CalmEnd, b
    <2>2. Len(limit.first) <= Len(relayLog)
      BY DEF CalmEnd
    <2> QED
      BY <1>1, <1>4, <1>5, <2>1, <2>2 DEF CalmEnd, b
  <1> QED
    BY <1>5, <1>6, <1>7

LEMMA CalmEndRelay ==
    ASSUME TypeOK, RelayLogValid, CalmBase, CalmEnd, FirstMade, NEW d \in Device, RelayCalm(d),
           limit' = limit, Founders' = Founders
    PROVE  CalmEnd' /\ FirstMade'
  <1>1. /\ made' = made /\ up[d] # <<>> /\ up'[d] = Tail(up[d])
        /\ \A x \in Device \ {d} : up'[x] = up[x]
    BY DEF RelayCalm
  <1>2. FirstMade'
    BY <1>1 DEF FirstMade
  <1>3. Len(limit.first) \in Nat /\ Len(limit.first) <= Len(relayLog)
    <2>1. limit \in Limits
      BY DEF TypeOK, BoundsTypeOK
    <2>2. limit.first \in Log
      BY <2>1, FoundingType
    <2> QED
      BY <2>2 DEF CalmEnd, Log
  <1>4. CASE Accepts(d, Head(up[d]))
    <2>1. PICK e : e = Head(up[d]).entry
      OBVIOUS
    <2>2. TakesEntry(d, e)
      BY <1>4, <2>1, TakesEntryIf
    <2>3. /\ e.body.type # "genesis" /\ (e.body.type = "add" => e.body.subject \notin Founders)
          /\ (e.body.type = "remove" => e.body.by = d)
      BY <2>2 DEF TakesEntry, By, Author
    <2>4. ASSUME e.body.type = "remove"
          PROVE  e.body.target # d /\ up'[d] # <<>> /\ Is(Head(up'[d]), "epoch")
      <3>1. up[d] \in Seq(C2s) /\ up[d] # <<>> /\ Is(up[d][1], "remove") /\ InOrder(up[d], d, Founders, 1)
        <4>1. up[d] \in Seq(C2s) /\ up[d] # <<>>
          BY <2>2 DEF TakesEntry
        <4>2. 1 \in 1 .. Len(up[d])
          BY <4>1
        <4> QED
          BY <2>2, <2>4, <4>2 DEF TakesEntry, Ordered
      <3>2. 2 <= Len(up[d]) /\ Is(up[d][2], "epoch") /\ e.body.target # d
        BY <2>2, <3>1 DEF InOrder, TakesEntry
      <3>3. up'[d] # <<>> /\ Head(up'[d]) = up[d][2]
        <4>1. PICK u : u = up[d]
          OBVIOUS
        <4>2. 2 <= Len(u) /\ u \in Seq(C2s) /\ u # <<>>
          BY <3>1, <3>2, <4>1
        <4>3. Tail(u) # <<>> /\ Head(Tail(u)) = u[2]
          BY <4>2, Second
        <4> QED
          BY <1>1, <4>1, <4>3
      <3> QED
        BY <3>2, <3>3
    <2>5. Len(relayLog) \in Nat /\ Len(relayLog') = Len(relayLog) + 1 /\ Last(relayLog') = e.body
      BY <2>2 DEF TakesEntry
    <2>6. Len(limit'.first) <= Len(relayLog')
      BY <1>3, <2>5
    <2>7. LET b == Last(relayLog')
          IN  /\ b.type # "genesis"
              /\ b.type = "add" => b.subject \notin Founders'
              /\ b.type = "remove" =>
                     b.target # b.by /\ up'[b.by] # <<>> /\ Is(Head(up'[b.by]), "epoch")
      BY <2>3, <2>4, <2>5
    <2> QED
      BY <1>2, <2>6, <2>7 DEF CalmEnd
  <1>5. CASE ~Accepts(d, Head(up[d]))
    <2>1. relayLog' = relayLog /\ Head(up[d]).type # "append"
      BY <1>5 DEF RelayCalm, Forwards, Answers
    <2>2. CASE relayLog = limit.first
      BY <1>2, <1>3, <2>1, <2>2 DEF CalmEnd
    <2>3. CASE relayLog # limit.first
      <3> DEFINE b == Last(relayLog)
      <3>1. b \in Body
        BY CalmTypes, LastSays
      <3>2. /\ b.type # "genesis"
            /\ b.type = "add" => b.subject \notin Founders
            /\ b.type = "remove" => b.target # b.by /\ up[b.by] # <<>> /\ Is(Head(up[b.by]), "epoch")
        BY <2>3 DEF CalmEnd
      <3>3. b.type = "remove" => b.by \in Device /\ b.by # d
        BY <2>1, <3>1, <3>2 DEF Body, Is
      <3>4. b.type = "remove" => up'[b.by] # <<>> /\ Is(Head(up'[b.by]), "epoch")
        BY <1>1, <3>2, <3>3
      <3>5. b' = b
        BY <2>1 DEF Last
      <3> HIDE DEF b
      <3>6. Len(limit'.first) <= Len(relayLog')
        BY <1>3, <2>1
      <3> QED
        BY <1>2, <3>2, <3>4, <3>5, <3>6 DEF CalmEnd, b
    <2> QED
      BY <2>2, <2>3
  <1> QED
    BY <1>4, <1>5

-----------------------------------------------------------------------------
(* The keys of the founders.  k is the key of the latest epoch, b the last *)
(* entry of the relay's log, h the key a founder holds, us all queues to   *)
(* the relay.                                                              *)

\* No wrap tells of a later key than k, nor of another one of its epoch.
Latest(w, k) == w.key.epoch <= k.epoch /\ (w.key.epoch = k.epoch => w.key = k)

HeadLatest(u, F, k) ==
    u # <<>> /\ Head(u).type = "wraps" => \A w \in Head(u).wraps : w.to \in F => Latest(w, k)

ParcelsLatest(q, k) == \A i \in 1 .. Len(q) : q[i].type = "wrap" => Latest(q[i].wrap, k)

NoneBehind(q, i, type) == \A j \in 1 .. Len(q) : j > i => q[j].type # type

\* The last Epoch entry that founder x has sent is for the key it holds.
LastRotation(x, u, h) ==
    \A i \in 1 .. Len(u) :
        Is(u[i], "epoch") /\ NoneBehind(u, i, "append") => h \in GroupKey /\ Rotating(u, x, i, h)

\* The wrap for x of the latest key, in the queue to x or still in its maker's.
Owed(x, k, b) == [to |-> x, from |-> b.rotator, key |-> k, members |-> b.members]

Coming(x, k, b, q) ==
    \E i \in 1 .. Len(q) : q[i] = Parcel(Owed(x, k, b)) /\ NoneBehind(q, i, "appended")

Leaving(k, b, us) == us[b.rotator] # <<>> /\ Head(us[b.rotator]) = WrapsOf(b, k)

HasKey(x, k, b, h, q, us) ==
    \/ h = k /\ Silent(q, "appended")
    \/ b.type = "epoch" /\ b.rotator # x /\ (Coming(x, k, b, q) \/ Leaving(k, b, us))

\* The latest key was made for the members as the relay's log has them.
Settled == relayLog = limit.first \/ Last(relayLog).type = "epoch"

Keyed(x, k) ==
    \/ Doomed(relayLog, log[x], revoking[x], up[x])
    \/ /\ LastRotation(x, up[x], HeldKey(key[x], revoking[x]))
       /\ Settled /\ Silent(up[x], "append") =>
              HasKey(x, k, Last(relayLog), HeldKey(key[x], revoking[x]), down[x], up)

CalmKey(k) ==
    /\ k \in GroupKey /\ k.epoch = EpochOf(relayLog)
    /\ \A y \in Device : HeadLatest(up[y], Founders, k)
    /\ \A x \in Founders : ParcelsLatest(down[x], k)
    /\ \A x \in Founders \cap Roster(relayLog) : Keyed(x, k)

CalmKeys == \E k \in GroupKey : CalmKey(k)

\* Queues that grow and shrink.
LEMMA SilentShrinks ==
    ASSUME NEW S, NEW q \in Seq(S), NEW type
    PROVE  /\ q # <<>> /\ Silent(q, type) => Silent(Tail(q), type)
           /\ q # <<>> /\ Silent(Tail(q), type) /\ Head(q).type # type => Silent(q, type)
           /\ \A ms \in Seq(S) : Silent(q \o ms, type) => Silent(q, type) /\ Silent(ms, type)
  <1>1. ASSUME q # <<>>, Silent(q, type) PROVE Silent(Tail(q), type)
    BY <1>1, WithoutHead DEF Silent
  <1>2. ASSUME q # <<>>, Silent(Tail(q), type), Head(q).type # type PROVE Silent(q, type)
    <2>1. PICK t : t = Tail(q)
      OBVIOUS
    <2>2. /\ Head(q) = q[1] /\ \A i \in 1 .. Len(t) : t[i] = q[i + 1]
          /\ \A i \in 1 .. Len(q) : i # 1 => i - 1 \in 1 .. Len(t) /\ t[i - 1] = q[i]
      BY <1>2, <2>1, WithoutHead
    <2> QED
      BY <1>2, <2>1, <2>2 DEF Silent
  <1>3. ASSUME NEW ms \in Seq(S), Silent(q \o ms, type) PROVE Silent(q, type) /\ Silent(ms, type)
    <2>1. PICK r : r = q \o ms
      OBVIOUS
    <2>2. Spliced(r, q, ms)
      BY <2>1, Behind
    <2> QED
      BY <1>3, <2>1, <2>2 DEF Silent, Spliced
  <1> QED
    BY <1>1, <1>2, <1>3

LEMMA HeadLatestMore ==
    ASSUME NEW u \in Seq(C2s), NEW y, NEW F, NEW ms, Says(y, F, ms), NEW k, HeadLatest(u, F, k)
    PROVE  HeadLatest(u \o ms, F, k)
  <1>1. ms \in Seq(C2s)
    BY DEF Says
  <1>2. CASE u # <<>>
    BY <1>1, <1>2, HeadStays DEF HeadLatest
  <1>3. CASE u = <<>>
    <2>1. u \o ms = ms
      BY <1>1, <1>3
    <2>2. ms # <<>> => Head(ms) = ms[1]
      BY <1>1, WithoutHead
    <2>3. ASSUME ms # <<>>, Head(ms).type = "wraps", NEW w \in Head(ms).wraps PROVE w.to \notin F
      BY <2>2, <2>3 DEF Says, ForAny
    <2> QED
      BY <2>1, <2>3 DEF HeadLatest
  <1> QED
    BY <1>2, <1>3

LEMMA ParcelsMove ==
    ASSUME NEW q \in Seq(S2c), NEW k, ParcelsLatest(q, k)
    PROVE  /\ q # <<>> => ParcelsLatest(Tail(q), k) /\ (Head(q).type = "wrap" => Latest(Head(q).wrap, k))
           /\ \A a \in S2c : (a.type = "wrap" => Latest(a.wrap, k)) => ParcelsLatest(Append(q, a), k)
  <1>1. ASSUME q # <<>>
        PROVE  ParcelsLatest(Tail(q), k) /\ (Head(q).type = "wrap" => Latest(Head(q).wrap, k))
    <2>1. PICK t : t = Tail(q)
      OBVIOUS
    <2>2. /\ Head(q) = q[1] /\ 1 \in 1 .. Len(q)
          /\ \A i \in 1 .. Len(t) : t[i] = q[i + 1] /\ i + 1 \in 1 .. Len(q)
      BY <1>1, <2>1, WithoutHead
    <2> QED
      BY <2>1, <2>2 DEF ParcelsLatest
  <1>2. ASSUME NEW a \in S2c, a.type = "wrap" => Latest(a.wrap, k) PROVE ParcelsLatest(Append(q, a), k)
    <2>1. PICK ms : ms = <<a>>
      OBVIOUS
    <2>2. /\ Append(q, a) = q \o ms /\ ms \in Seq(S2c)
          /\ \A i \in 1 .. Len(ms) : ms[i] = a
      BY <2>1, AppendIsBehind
    <2>3. PICK r : r = q \o ms
      OBVIOUS
    <2>4. Spliced(r, q, ms)
      BY <2>2, <2>3, Behind
    <2> SUFFICES ASSUME NEW i \in 1 .. Len(r), r[i].type = "wrap" PROVE Latest(r[i].wrap, k)
      BY <2>2, <2>3 DEF ParcelsLatest
    <2>5. CASE i \in 1 .. Len(q)
      <3>1. r[i] = q[i]
        BY <2>4, <2>5 DEF Spliced
      <3> QED
        BY <2>5, <3>1 DEF ParcelsLatest
    <2>6. CASE i \notin 1 .. Len(q)
      <3>1. PICK j \in 1 .. Len(ms) : i = Len(q) + j
        BY <2>4, <2>6 DEF Spliced
      <3>2. r[i] = a
        BY <2>2, <2>4, <3>1 DEF Spliced
      <3> QED
        BY <1>2, <3>2
    <2> QED
      BY <2>5, <2>6
  <1> QED
    BY <1>1, <1>2

LEMMA ComingMoves ==
    ASSUME NEW q \in Seq(S2c), NEW x, NEW k, NEW b, Coming(x, k, b, q)
    PROVE  /\ q # <<>> => \/ Coming(x, k, b, Tail(q))
                          \/ Head(q) = Parcel(Owed(x, k, b)) /\ Silent(q, "appended")
           /\ \A a \in S2c : a.type # "appended" => Coming(x, k, b, Append(q, a))
  <1>1. PICK i \in 1 .. Len(q) : q[i] = Parcel(Owed(x, k, b)) /\ NoneBehind(q, i, "appended")
    BY DEF Coming
  <1>2. ASSUME q # <<>>, ~(Head(q) = Parcel(Owed(x, k, b)) /\ Silent(q, "appended"))
        PROVE  Coming(x, k, b, Tail(q))
    <2>1. PICK t : t = Tail(q)
      OBVIOUS
    <2>2. /\ Len(q) \in Nat /\ Len(t) = Len(q) - 1 /\ Head(q) = q[1]
          /\ \A j \in 1 .. Len(t) : t[j] = q[j + 1] /\ j + 1 \in 1 .. Len(q)
          /\ \A j \in 1 .. Len(q) : j # 1 => j - 1 \in 1 .. Len(t) /\ t[j - 1] = q[j]
      BY <1>2, <2>1, WithoutHead
    <2>3. i # 1
      <3> SUFFICES ASSUME i = 1 PROVE Head(q) = Parcel(Owed(x, k, b)) /\ Silent(q, "appended")
        BY <1>2
      <3>1. Head(q) = Parcel(Owed(x, k, b)) /\ q[1].type # "appended"
        BY <1>1, <2>2 DEF Parcel
      <3>2. \A j \in 1 .. Len(q) : j = 1 \/ j > 1
        BY <2>2
      <3> QED
        BY <1>1, <3>1, <3>2 DEF NoneBehind, Silent
    <2>4. i - 1 \in 1 .. Len(t) /\ t[i - 1] = Parcel(Owed(x, k, b))
      BY <1>1, <2>2, <2>3
    <2>5. NoneBehind(t, i - 1, "appended")
      <3> SUFFICES ASSUME NEW j \in 1 .. Len(t), j > i - 1 PROVE t[j].type # "appended"
        BY DEF NoneBehind
      <3>1. t[j] = q[j + 1] /\ j + 1 \in 1 .. Len(q) /\ j + 1 > i
        BY <2>2
      <3> QED
        BY <1>1, <3>1 DEF NoneBehind
    <2> QED
      BY <2>1, <2>4, <2>5 DEF Coming
  <1>3. ASSUME NEW a \in S2c, a.type # "appended" PROVE Coming(x, k, b, Append(q, a))
    <2>1. PICK ms : ms = <<a>>
      OBVIOUS
    <2>2. /\ Append(q, a) = q \o ms /\ ms \in Seq(S2c)
          /\ \A j \in 1 .. Len(ms) : ms[j] = a
      BY <2>1, AppendIsBehind
    <2>3. PICK r : r = q \o ms
      OBVIOUS
    <2>4. Spliced(r, q, ms)
      BY <2>2, <2>3, Behind
    <2>5. i \in 1 .. Len(r) /\ r[i] = Parcel(Owed(x, k, b))
      BY <1>1, <2>4 DEF Spliced
    <2>6. NoneBehind(r, i, "appended")
      BY <1>1, <1>3, <2>2, <2>4 DEF NoneBehind, Spliced
    <2> QED
      BY <2>2, <2>3, <2>5, <2>6 DEF Coming
  <1> QED
    BY <1>2, <1>3

LEMMA LastRotationMoves ==
    ASSUME NEW u \in Seq(C2s), NEW x, NEW h, LastRotation(x, u, h)
    PROVE  /\ u # <<>> => LastRotation(x, Tail(u), h)
           /\ \A ms \in Seq(C2s) : Silent(ms, "append") => LastRotation(x, u \o ms, h)
  <1>1. ASSUME u # <<>> PROVE LastRotation(x, Tail(u), h)
    <2>1. PICK t : t = Tail(u)
      OBVIOUS
    <2> SUFFICES ASSUME NEW i \in 1 .. Len(t), Is(t[i], "epoch"), NoneBehind(t, i, "append")
                 PROVE  h \in GroupKey /\ Rotating(t, x, i, h)
      BY <2>1 DEF LastRotation
    <2>2. /\ Len(u) \in Nat /\ Len(t) = Len(u) - 1
          /\ \A j \in 1 .. Len(t) : t[j] = u[j + 1] /\ j + 1 \in 1 .. Len(u)
          /\ \A j \in 1 .. Len(u) : j # 1 => j - 1 \in 1 .. Len(t) /\ t[j - 1] = u[j]
      BY <1>1, <2>1, WithoutHead
    <2>3. NoneBehind(u, i + 1, "append")
      BY <2>2 DEF NoneBehind
    <2>4. h \in GroupKey /\ Rotating(u, x, i + 1, h)
      BY <2>2, <2>3 DEF LastRotation
    <2> QED
      BY <1>1, <2>1, <2>4, RotatingMoves
  <1>2. ASSUME NEW ms \in Seq(C2s), Silent(ms, "append") PROVE LastRotation(x, u \o ms, h)
    <2>1. PICK r : r = u \o ms
      OBVIOUS
    <2>2. Spliced(r, u, ms)
      BY <2>1, Behind
    <2> SUFFICES ASSUME NEW i \in 1 .. Len(r), Is(r[i], "epoch"), NoneBehind(r, i, "append")
                 PROVE  h \in GroupKey /\ Rotating(r, x, i, h)
      BY <2>1 DEF LastRotation
    <2>3. i \in 1 .. Len(u)
      <3> SUFFICES ASSUME NEW j \in 1 .. Len(ms), i = Len(u) + j PROVE FALSE
        BY <2>2 DEF Spliced
      <3>1. r[i] = ms[j]
        BY <2>2 DEF Spliced
      <3> QED
        BY <1>2, <3>1 DEF Silent, Is
    <2>4. Is(u[i], "epoch") /\ NoneBehind(u, i, "append")
      BY <2>2, <2>3 DEF Spliced, NoneBehind
    <2>5. h \in GroupKey /\ Rotating(u, x, i, h)
      BY <2>3, <2>4 DEF LastRotation
    <2> QED
      BY <2>1, <2>3, <2>5, RotatingMoves
  <1> QED
    BY <1>1, <1>2

\* A log is the relay's if nothing of it is under way.
LEMMA LevelSame ==
    ASSUME NEW R \in Log, FullyValid(R), NEW m \in Log, NEW u, NEW q, Level(R, m, u, q),
           Silent(u, "append"), Silent(q, "appended")
    PROVE  m = R
  <1>1. Len(R) \in Nat /\ Len(m) \in Nat /\ Len(m) <= Len(R) /\ Len(R) <= Len(m)
    BY LevelLengths
  <1>2. Len(m) = Len(R) /\ \A j \in 1 .. Len(m) : j \in 1 .. Len(R) /\ j <= Len(m)
    BY <1>1
  <1>3. \A j \in 1 .. Len(m) : m[j] = R[j]
    BY <1>2 DEF Level
  <1> QED
    BY <1>2, <1>3, SeqEqual DEF Log

\* An Epoch entry still to be read is of a later epoch.
LEMMA LevelLater ==
    ASSUME NEW R \in Log, FullyValid(R), NEW m \in Log, NEW u, NEW q, Level(R, m, u, q),
           NEW i \in 1 .. Len(u), Is(u[i], "epoch")
    PROVE  EpochOf(m) > EpochOf(R)
  <1>1. PICK j \in 1 .. Len(m) : j > Len(R) /\ u[i].entry = m[j]
    BY DEF Level, Tells, Is
  <1>2. m[j].body.type = "epoch"
    BY <1>1 DEF Is
  <1>3. FullyValid(m) /\ \A g \in 1 .. Len(R) : g <= Len(m) => R[g] = m[g]
    BY DEF Level
  <1>4. Len(R) <= Len(m) /\ \A g \in 1 .. Len(R) : g <= Len(m)
    <2>1. Len(R) \in Nat /\ Len(m) \in Nat
      BY LevelLengths
    <2> QED
      BY <1>1, <2>1
  <1>5. \A g \in 1 .. Len(R) : R[g] = m[g]
    BY <1>3, <1>4
  <1> QED
    BY <1>1, <1>2, <1>3, <1>4, <1>5, EpochMore

\* A log that ends with a rotation ends with an entry of the one whose it is.
LEMMA OwnLast ==
    ASSUME NEW x, NEW l \in Log, NEW r \in Revocation, r.entries # <<>>,
           \A e \in All(r.entries) : By(x, e)
    PROVE  Author(Last(l \o r.entries)) = x
  <1>1. l \in Seq(Entry) /\ r.entries \in Seq(Entry)
    BY DEF Log, Revocation
  <1>2. PICK s : s = r.entries
    OBVIOUS
  <1>3. PICK R : R = l \o s
    OBVIOUS
  <1>4. Spliced(R, l, s)
    BY <1>1, <1>2, <1>3, Behind
  <1>5. Len(s) \in 1 .. Len(s)
    BY <1>1, <1>2
  <1>6. R[Len(R)] = s[Len(s)]
    BY <1>4, <1>5 DEF Spliced
  <1>7. By(x, s[Len(s)])
    BY <1>2, <1>5 DEF All, Entries
  <1> QED
    BY <1>2, <1>3, <1>6, <1>7 DEF By, Last

\* The latest key is taken from its wrap.
LEMMA OwedFits ==
    ASSUME NEW R \in Log, FullyValid(R), NEW k, k.epoch = EpochOf(R), NEW x,
           Last(R).type = "epoch", NEW w, w = Owed(x, k, Last(R))
    PROVE  WrapFits(w, R) /\ w.to = x /\ w.key = k
  <1>1. Last(R).rotator \in MembersOf(R) /\ Last(R).members = MembersOf(R) /\ Verifies(R)
    BY LastSays, ValidLog
  <1> QED
    BY <1>1 DEF Owed, WrapFits

\* What a founder with key gk has after it has heard a wrap: key gk2.
LEMMA KeyedHears ==
    ASSUME NEW x, NEW R \in Log, FullyValid(R), NEW l \in Log, NEW r \in Revocation \cup {None},
           NEW u \in Seq(C2s), NEW q \in Seq(S2c), q # <<>>, NEW w \in Wrap, Head(q) = Parcel(w),
           Level(R, Mine(l, r), u, q),
           r # None => r.entries # <<>> /\ \A e \in All(r.entries) : By(x, e),
           NEW k \in GroupKey, k.epoch = EpochOf(R), Latest(w, k), NEW gk, NEW gk2,
           gk2 = IF WrapFits(w, l) /\ w.to = x THEN w.key ELSE gk, NEW us
    PROVE  /\ LastRotation(x, u, HeldKey(gk, r)) => LastRotation(x, u, HeldKey(gk2, r))
           /\ Silent(u, "append") /\ HasKey(x, k, Last(R), HeldKey(gk, r), q, us)
                  => HasKey(x, k, Last(R), HeldKey(gk2, r), Tail(q), us)
  <1>1. Mine(l, r) \in Log /\ (r = None => Mine(l, r) = l)
    BY MineType
  <1>2. Head(q).type = "wrap" /\ Head(q).wrap = w
    BY DEF Parcel
  <1>3. r # None => HeldKey(gk2, r) = HeldKey(gk, r)
    BY DEF HeldKey
  <1>4. ASSUME r = None, gk2 # gk PROVE w.key = gk2 /\ gk2.epoch = EpochOf(l) /\ EpochOf(l) <= EpochOf(R)
    BY <1>4 DEF WrapFits, Latest
  <1>5. ASSUME LastRotation(x, u, HeldKey(gk, r)) PROVE LastRotation(x, u, HeldKey(gk2, r))
    <2>1. CASE r # None \/ gk2 = gk
      BY <1>3, <1>5, <2>1 DEF HeldKey
    <2>2. CASE r = None /\ gk2 # gk
      <3>1. \A i \in 1 .. Len(u) : ~Is(u[i], "epoch")
        <4> SUFFICES ASSUME NEW i \in 1 .. Len(u), Is(u[i], "epoch") PROVE FALSE
          OBVIOUS
        <4>1. EpochOf(l) > EpochOf(R)
          BY <1>1, <2>2, LevelLater
        <4>2. EpochOf(R) \in Nat /\ EpochOf(l) \in Nat
          <5>1. FullyValid(l)
            BY <1>1, <2>2 DEF Level
          <5> QED
            BY <5>1, ValidLog
        <4> QED
          BY <1>4, <2>2, <4>1, <4>2
      <3> QED
        BY <3>1 DEF LastRotation
    <2> QED
      BY <2>1, <2>2
  <1>6. ASSUME Silent(u, "append"), HasKey(x, k, Last(R), HeldKey(gk, r), q, us)
        PROVE  HasKey(x, k, Last(R), HeldKey(gk2, r), Tail(q), us)
    <2>1. ASSUME Silent(q, "appended") PROVE Mine(l, r) = R /\ Silent(Tail(q), "appended")
      BY <1>1, <1>6, <2>1, LevelSame, SilentShrinks
    <2>2. CASE HeldKey(gk, r) = k /\ Silent(q, "appended")
      <3>1. HeldKey(gk2, r) = k
        <4>1. CASE r # None \/ gk2 = gk
          BY <1>3, <2>2, <4>1 DEF HeldKey
        <4>2. CASE r = None /\ gk2 # gk
          <5>1. l = R
            BY <1>1, <2>1, <2>2, <4>2
          <5>2. w.key = gk2 /\ w.key.epoch = k.epoch
            BY <1>4, <4>2, <5>1
          <5> QED
            BY <4>2, <5>2 DEF Latest, HeldKey
        <4> QED
          BY <4>1, <4>2
      <3> QED
        BY <2>1, <2>2, <3>1 DEF HasKey
    <2>3. CASE Last(R).type = "epoch" /\ Last(R).rotator # x /\ Coming(x, k, Last(R), q)
      <3>1. CASE Coming(x, k, Last(R), Tail(q))
        BY <2>3, <3>1 DEF HasKey
      <3>2. CASE Head(q) = Parcel(Owed(x, k, Last(R))) /\ Silent(q, "appended")
        <4>1. w = Owed(x, k, Last(R))
          BY <1>2, <3>2 DEF Parcel
        <4>2. WrapFits(w, R) /\ w.to = x /\ w.key = k
          BY <2>3, <4>1, OwedFits
        <4>3. r = None
          <5> SUFFICES ASSUME r # None PROVE FALSE
            OBVIOUS
          <5>1. r \in Revocation /\ Mine(l, r) = l \o r.entries
            BY DEF Mine
          <5>2. Author(Last(l \o r.entries)) = x
            BY <5>1, OwnLast
          <5>3. Author(Last(R)) = x
            BY <2>1, <3>2, <5>1, <5>2
          <5> QED
            BY <2>3, <5>3 DEF Author
        <4>4. gk2 = k
          BY <1>1, <2>1, <3>2, <4>2, <4>3
        <4> QED
          BY <2>1, <3>2, <4>3, <4>4 DEF HasKey, HeldKey
      <3> QED
        BY <2>3, <3>1, <3>2, ComingMoves
    <2>4. CASE Last(R).type = "epoch" /\ Last(R).rotator # x /\ Leaving(k, Last(R), us)
      BY <2>4 DEF HasKey
    <2>5. \/ HeldKey(gk, r) = k /\ Silent(q, "appended")
          \/ /\ Last(R).type = "epoch" /\ Last(R).rotator # x
             /\ Coming(x, k, Last(R), q) \/ Leaving(k, Last(R), us)
      BY <1>6 DEF HasKey
    <2> QED
      BY <2>2, <2>3, <2>4, <2>5
  <1> QED
    BY <1>5, <1>6

\* The rotation sent last is for the key that is then held.
LEMMA KeyedRevokes ==
    ASSUME NEW u \in Seq(C2s), NEW y, NEW remove \in Entry, NEW rotate \in Entry, NEW k \in GroupKey,
           NEW ms, Revocations(ms, remove, rotate, k),
           remove.body.type = "remove", remove.body.target # y,
           rotate.body.type = "epoch", rotate.body.rotator = y, rotate.body.number = k.epoch
    PROVE  LastRotation(y, u \o ms, k) /\ ~Silent(u \o ms, "append")
  <1>1. ms \in Seq(C2s) /\ ms[1].type = "append"
    BY DEF Revocations
  <1>2. /\ Rotating(ms, y, 2, k) /\ 2 \in 1 .. Len(ms)
        /\ \A i \in 1 .. Len(ms) : Is(ms[i], "epoch") => i = 2
    <2>1. PICK F : F = {}
      OBVIOUS
    <2>2. Ordered(ms, y, F) /\ RotatesSecond(ms, y, k)
      BY RevocationsOrdered
    <2> QED
      BY <2>2 DEF RotatesSecond
  <1>3. 1 \in 1 .. Len(ms)
    BY <1>2
  <1>4. PICK r : r = u \o ms
    OBVIOUS
  <1>5. Spliced(r, u, ms)
    BY <1>1, <1>4, Behind
  <1>6. r[Len(u) + 1].type = "append" /\ Len(u) + 1 \in 1 .. Len(r) /\ Len(u) \in Nat
    BY <1>1, <1>3, <1>5 DEF Spliced
  <1>7. ASSUME NEW i \in 1 .. Len(r), Is(r[i], "epoch"), NoneBehind(r, i, "append")
        PROVE  k \in GroupKey /\ Rotating(r, y, i, k)
    <2>1. i \notin 1 .. Len(u)
      <3> SUFFICES ASSUME i \in 1 .. Len(u) PROVE FALSE
        OBVIOUS
      <3>1. Len(u) + 1 > i
        BY <1>6
      <3> QED
        BY <1>6, <1>7, <3>1 DEF NoneBehind
    <2>2. PICK j \in 1 .. Len(ms) : i = Len(u) + j
      BY <1>5, <2>1 DEF Spliced
    <2>3. r[i] = ms[j]
      BY <1>5, <2>2 DEF Spliced
    <2>4. j = 2
      BY <1>2, <1>7, <2>3
    <2>5. Rotating(u \o ms, y, Len(u) + 2, k)
      BY <1>1, <1>2, RotatingMoves
    <2> QED
      BY <1>4, <2>2, <2>4, <2>5
  <1> QED
    BY <1>4, <1>6, <1>7 DEF LastRotation, Silent

\* A device does not take back what is at the head of its queue.
LEMMA LeavingStays ==
    ASSUME TypeOK, NEW d \in Device, DeviceStep(d), DeviceCalm(d), NEW b, b.rotator \in Device, NEW k,
           Leaving(k, b, up)
    PROVE  Leaving(k, b, up')
  <1>1. CASE b.rotator = d
    <2>1. PICK ms : ms \in Seq(C2s) /\ up'[d] = up[d] \o ms
      BY DEF DeviceCalm, Says
    <2>2. up[d] \in Seq(C2s)
      BY DEF TypeOK, NetTypeOK
    <2>3. PICK u : u = up[d]
      OBVIOUS
    <2>4. u # <<>> /\ Head(u) = WrapsOf(b, k)
      BY <1>1, <2>3 DEF Leaving
    <2>5. u \o ms # <<>> /\ Head(u \o ms) = Head(u)
      BY <2>1, <2>2, <2>3, <2>4, HeadStays
    <2> QED
      BY <1>1, <2>1, <2>3, <2>4, <2>5 DEF Leaving
  <1>2. CASE b.rotator # d
    BY <1>2, Aside DEF Leaving
  <1> QED
    BY <1>1, <1>2

\* What founder x must have after a step that leaves the relay's log alone.
KeyedAfter(x, k) ==
    /\ LastRotation(x, up'[x], HeldKey(key'[x], revoking'[x]))
    /\ Settled /\ Silent(up'[x], "append") =>
           HasKey(x, k, Last(relayLog), HeldKey(key'[x], revoking'[x]), down'[x], up')

\* What founder x has before it, when it is not bound to have an entry turned down.
KeyedBefore(x, k) ==
    /\ LastRotation(x, up[x], HeldKey(key[x], revoking[x]))
    /\ Settled /\ Silent(up[x], "append") =>
           HasKey(x, k, Last(relayLog), HeldKey(key[x], revoking[x]), down[x], up)
    /\ Level(relayLog, Mine(log[x], revoking[x]), up[x], down[x])
    /\ Last(relayLog).type = "epoch" /\ Leaving(k, Last(relayLog), up) => Leaving(k, Last(relayLog), up')

LEMMA KeyedHearsAppended ==
    ASSUME TypeOK, CalmBase, NEW d \in Device, HearAppended(d), NEW k, KeyedBefore(d, k)
    PROVE  KeyedAfter(d, k)
  <1> DEFINE u == up[d]
             q == down[d]
             h == HeldKey(key[d], revoking[d])
             b == Last(relayLog)
  <1>1. u \in Seq(C2s) /\ q \in Seq(S2c)
    BY DEF TypeOK, NetTypeOK
  <1>2. PICK ms : ms \in Seq(C2s) /\ Silent(ms, "append") /\ up'[d] = u \o ms
    BY HearAppendedSays DEF Says
  <1>3. /\ q # <<>> /\ Head(q).type = "appended" /\ down'[d] = Tail(q)
        /\ HeldKey(key'[d], revoking'[d]) = h
    BY DEF HearAppended, Received, Consume, HeldKey, TypeOK, NetTypeOK
  <1>4. LastRotation(d, u, h) /\ (Settled /\ Silent(u, "append") => HasKey(d, k, b, h, q, up))
    BY DEF KeyedBefore
  <1>5. b.type = "epoch" /\ Leaving(k, b, up) => Leaving(k, b, up')
    BY DEF KeyedBefore
  <1> HIDE DEF u, q, h, b
  <1>6. LastRotation(d, u \o ms, h)
    BY <1>1, <1>2, <1>4, LastRotationMoves
  <1>7. ASSUME Settled, Silent(u \o ms, "append") PROVE HasKey(d, k, b, h, Tail(q), up')
    <2>1. HasKey(d, k, b, h, q, up)
      BY <1>1, <1>2, <1>4, <1>7, SilentShrinks
    <2>2. ~Silent(q, "appended")
      BY <1>1, <1>3, WithoutHead DEF Silent
    <2>3. Coming(d, k, b, q) => Coming(d, k, b, Tail(q))
      BY <1>1, <1>3, <2>2, ComingMoves
    <2> QED
      BY <1>5, <2>1, <2>2, <2>3 DEF HasKey
  <1> QED
    BY <1>2, <1>3, <1>6, <1>7 DEF KeyedAfter, h, b

LEMMA KeyedHearsWrap ==
    ASSUME TypeOK, RelayLogValid, KeyInv, GreetInv, CalmBase, NEW d \in Founders, HearWrap(d),
           NEW k \in GroupKey, k.epoch = EpochOf(relayLog), ParcelsLatest(down[d], k), KeyedBefore(d, k)
    PROVE  KeyedAfter(d, k)
  <1>1. d \in Device /\ wid[d]
    BY DEF CalmBase, Steady
  <1> DEFINE l == log[d]
             r == revoking[d]
             u == up[d]
             q == down[d]
             w == Head(q).wrap
             gk == key[d]
             gk2 == key'[d]
             b == Last(relayLog)
  <1>2. /\ u \in Seq(C2s) /\ q \in Seq(S2c) /\ l \in Log /\ r \in Revocation \cup {None}
        /\ relayLog \in Log /\ FullyValid(relayLog)
    BY <1>1, CalmTypes
  <1>3. /\ q # <<>> /\ Head(q).type = "wrap" /\ up' = up /\ revoking' = revoking
        /\ down'[d] = Tail(q) /\ gk2 = KeyFrom(d, w, l)
    BY <1>1 DEF HearWrap, Received, Consume, TypeOK, NetTypeOK, DeviceTypeOK
  <1>4. w \in Wrap /\ Head(q) = Parcel(w)
    <2>1. Head(q) \in S2c
      BY <1>2, <1>3, WithoutHead
    <2> HIDE DEF q
    <2> QED
      BY <1>3, <2>1 DEF S2c, Parcel
  <1>5. gk2 = IF WrapFits(w, l) /\ w.to = d THEN w.key ELSE gk
    <2>1. w # None
      BY <1>4, NoneAssumption
    <2> QED
      BY <1>1, <1>3, <2>1 DEF KeyFrom, Takes
  <1>6. r # None => r.entries # <<>> /\ \A e \in All(r.entries) : By(d, e)
    <2>1. Rotates(r, relayLog[1])
      BY <1>1 DEF GreetInv
    <2>2. RevokingOK(OfRelay, made, d, r, q)
      BY <1>1 DEF KeyInv, DeviceOK
    <2> QED
      BY <2>1, <2>2 DEF Rotates, RotationOf, RevokingOK
  <1>7. Latest(w, k)
    BY <1>2, <1>3, ParcelsMove
  <1>8. /\ LastRotation(d, u, HeldKey(gk, r)) /\ Level(relayLog, Mine(l, r), u, q)
        /\ Settled /\ Silent(u, "append") => HasKey(d, k, b, HeldKey(gk, r), q, up)
    BY DEF KeyedBefore
  <1> HIDE DEF l, r, u, q, w, gk, gk2, b
  <1>9. /\ LastRotation(d, u, HeldKey(gk, r)) => LastRotation(d, u, HeldKey(gk2, r))
        /\ Silent(u, "append") /\ HasKey(d, k, Last(relayLog), HeldKey(gk, r), q, up)
               => HasKey(d, k, Last(relayLog), HeldKey(gk2, r), Tail(q), up)
    BY <1>2, <1>3, <1>4, <1>5, <1>6, <1>7, <1>8, KeyedHears
  <1>10. up'[d] = u /\ revoking'[d] = r
    BY <1>3 DEF u, r
  <1> QED
    BY <1>3, <1>8, <1>9, <1>10 DEF KeyedAfter, b, gk2

LEMMA KeyedSendsRevocation ==
    ASSUME TypeOK, NEW d \in Device, NEW t \in Device, RevokeSends(d, t), NEW k
    PROVE  KeyedAfter(d, k)
  <1>1. PICK F : F = {}
    OBVIOUS
  <1>2. PICK remove, l2, rotate, k2, ms : Revokes(d, t, F, remove, l2, rotate, k2, ms)
    BY RevokeSendsSays
  <1>3. /\ remove \in Entry /\ rotate \in Entry /\ k2 \in GroupKey /\ Revocations(ms, remove, rotate, k2)
        /\ up'[d] = up[d] \o ms /\ revoking'[d].key = k2 /\ revoking'[d] \in Revocation
    <2>1. Revocations(ms, remove, rotate, k2) /\ up'[d] = up[d] \o ms /\ revoking'[d].key = k2
      BY <1>2 DEF Revokes
    <2>2. remove \in Entry /\ rotate \in Entry /\ k2 \in GroupKey
      BY <1>2 DEF Revokes, Rotation
    <2>3. revoking'[d] \in Revocation
      <3>1. log[d] \in Log /\ Len(log[d]) \in Nat /\ <<remove, rotate>> \in Log
        BY <2>2 DEF TypeOK, DeviceTypeOK, Log
      <3>2. revoking'[d] = [length |-> Len(log[d]), entries |-> <<remove, rotate>>, key |-> k2]
        BY <1>2 DEF Revokes
      <3> QED
        BY <2>2, <3>1, <3>2 DEF Revocation
    <2> QED
      BY <2>1, <2>2, <2>3
  <1>4. /\ remove.body.type = "remove" /\ remove.body.target # d
        /\ rotate.body.type = "epoch" /\ rotate.body.rotator = d /\ rotate.body.number = k2.epoch
    <2>1. t # d
      BY DEF RevokeSends
    <2>2. Rotation(d, t, log[d], remove, l2, rotate, k2)
      BY <1>2 DEF Revokes
    <2> QED
      BY <2>1, <2>2, RotationBodies
  <1>5. up[d] \in Seq(C2s)
    BY DEF TypeOK, NetTypeOK
  <1>6. LastRotation(d, up[d] \o ms, k2) /\ ~Silent(up[d] \o ms, "append")
    BY <1>3, <1>4, <1>5, KeyedRevokes
  <1>7. HeldKey(key'[d], revoking'[d]) = k2
    BY <1>3, NoneAssumption DEF HeldKey
  <1> QED
    BY <1>3, <1>6, <1>7 DEF KeyedAfter

LEMMA KeyedStays ==
    ASSUME NEW x, NEW k, KeyedBefore(x, k), up'[x] = up[x], down'[x] = down[x],
           HeldKey(key'[x], revoking'[x]) = HeldKey(key[x], revoking[x])
    PROVE  KeyedAfter(x, k)
  <1> DEFINE b == Last(relayLog)
             h == HeldKey(key[x], revoking[x])
             q == down[x]
  <1>1. HasKey(x, k, b, h, q, up) => HasKey(x, k, b, h, q, up')
    BY DEF HasKey, KeyedBefore
  <1> QED
    BY <1>1 DEF KeyedBefore, KeyedAfter

LEMMA KeyedDevice ==
    ASSUME TypeOK, RelayLogValid, KeyInv, GreetInv, CalmBase, CalmLogs, NEW k \in GroupKey, CalmKey(k),
           NEW d \in Device, DeviceStep(d), DeviceCalm(d), limit' = limit,
           NEW x \in Founders \cap Roster(relayLog)
    PROVE  Keyed(x, k)'
  <1>1. StillFollows(x) /\ relayLog' = relayLog
    BY LogsDevice
  <1>2. CASE Doomed(relayLog, log[x], revoking[x], up[x])
    BY <1>1, <1>2 DEF StillFollows, Keyed
  <1>3. CASE ~Doomed(relayLog, log[x], revoking[x], up[x])
    <2>1. KeyedBefore(x, k)
      <3>1. Level(relayLog, Mine(log[x], revoking[x]), up[x], down[x])
        BY <1>3 DEF CalmLogs, Follows
      <3>2. Keyed(x, k)
        BY DEF CalmKey
      <3>3. Last(relayLog).type = "epoch" => Last(relayLog).rotator \in Device
        <4>1. Last(relayLog) \in Body
          BY CalmTypes, LastSays
        <4> QED
          BY <4>1 DEF Body
      <3>4. Last(relayLog).type = "epoch" /\ Leaving(k, Last(relayLog), up) => Leaving(k, Last(relayLog), up')
        BY <3>3, LeavingStays
      <3> QED
        BY <1>3, <3>1, <3>2, <3>4 DEF KeyedBefore, Keyed
    <2>2. KeyedAfter(x, k)
      <3>1. ASSUME log'[x] = log[x], revoking'[x] = revoking[x], key'[x] = key[x],
                   up'[x] = up[x], down'[x] = down[x]
            PROVE  KeyedAfter(x, k)
        BY <2>1, <3>1, KeyedStays
      <3>2. CASE x # d
        BY <3>1, <3>2, Aside DEF CalmBase
      <3>3. CASE x = d
        <4>1. FounderStep(d)
          BY <3>3 DEF DeviceCalm
        <4>2. CASE HearAppended(d)
          BY <2>1, <3>3, <4>2, KeyedHearsAppended
        <4>3. CASE HearWrap(d)
          <5>1. k.epoch = EpochOf(relayLog) /\ ParcelsLatest(down[d], k)
            BY <3>3 DEF CalmKey
          <5> QED
            BY <2>1, <3>3, <4>3, <5>1, KeyedHearsWrap
        <4>4. ASSUME NEW t \in Device, RevokeSends(d, t) PROVE KeyedAfter(x, k)
          BY <3>3, <4>4, KeyedSendsRevocation
        <4>5. CASE RevokeAdopts(d) /\ Len(log[d]) = revoking[d].length
          <5>1. HeldKey(key'[d], revoking'[d]) = HeldKey(key[d], revoking[d])
            BY <4>5 DEF RevokeAdopts, HeldKey, TypeOK, DeviceTypeOK
          <5>2. up' = up /\ down' = down
            BY <4>5 DEF RevokeAdopts, netVars
          <5> QED
            BY <2>1, <3>3, <5>1, <5>2, KeyedStays
        <4> QED
          BY <3>1, <3>3, <4>1, <4>2, <4>3, <4>4, <4>5 DEF FounderStep
      <3> QED
        BY <3>2, <3>3
    <2>3. Settled' => Settled
      BY <1>1 DEF Settled, Last
    <2> QED
      BY <1>1, <2>2, <2>3 DEF KeyedAfter, Keyed
  <1> QED
    BY <1>2, <1>3

LEMMA CalmKeyDevice ==
    ASSUME TypeOK, RelayLogValid, KeyInv, GreetInv, CalmBase, CalmLogs, NEW k \in GroupKey, CalmKey(k),
           NEW d \in Device, DeviceStep(d), DeviceCalm(d), limit' = limit, Founders' = Founders
    PROVE  CalmKey(k)'
  <1>1. /\ relayLog' = relayLog
        /\ \A x \in Device \ {d} : up'[x] = up[x] /\ down'[x] = down[x]
    BY Aside
  <1>2. up \in [Device -> Seq(C2s)] /\ down \in [Device -> Seq(S2c)]
    BY CalmTypes
  <1>3. ASSUME NEW y \in Device PROVE HeadLatest(up'[y], Founders, k)
    <2>1. HeadLatest(up[y], Founders, k)
      BY DEF CalmKey
    <2>2. CASE y = d
      <3>1. PICK ms : Says(d, Founders, ms) /\ up'[d] = up[d] \o ms
        BY DEF DeviceCalm
      <3>2. up[d] \in Seq(C2s) /\ HeadLatest(up[d], Founders, k)
        BY <1>2, <2>1, <2>2
      <3>3. HeadLatest(up[d] \o ms, Founders, k)
        BY <3>1, <3>2, HeadLatestMore
      <3> QED
        BY <2>2, <3>1, <3>3
    <2>3. CASE y # d
      BY <1>1, <2>1, <2>3
    <2> QED
      BY <2>2, <2>3
  <1>4. ASSUME NEW x \in Founders PROVE ParcelsLatest(down'[x], k)
    <2>1. ParcelsLatest(down[x], k) /\ x \in Device
      BY DEF CalmKey, CalmBase
    <2>2. CASE x = d
      <3>1. down[d] \in Seq(S2c) /\ ParcelsLatest(down[d], k)
        BY <1>2, <2>1, <2>2
      <3>2. down[d] # <<>> => ParcelsLatest(Tail(down[d]), k)
        BY <3>1, ParcelsMove
      <3> QED
        BY <2>2, <3>1, <3>2 DEF DeviceCalm
    <2>3. CASE x # d
      BY <1>1, <2>1, <2>3
    <2> QED
      BY <2>2, <2>3
  <1>5. \A x \in Founders \cap Roster(relayLog) : Keyed(x, k)'
    BY KeyedDevice
  <1>6. k.epoch = EpochOf(relayLog)
    BY DEF CalmKey
  <1> QED
    BY <1>1, <1>3, <1>4, <1>5, <1>6 DEF CalmKey

\* Wraps for founders are behind the Epoch entry they go with, or next.
LEMMA NextLatest ==
    ASSUME NEW u \in Seq(C2s), u # <<>>, NEW y, NEW F, Ordered(u, y, F), NEW k
    PROVE  \/ HeadLatest(Tail(u), F, k)
           \/ Is(Head(u), "epoch") /\ Head(u).entry.body.members \ {y} # {}
  <1> SUFFICES ASSUME ~HeadLatest(Tail(u), F, k)
               PROVE  Is(Head(u), "epoch") /\ Head(u).entry.body.members \ {y} # {}
    OBVIOUS
  <1>1. PICK t : t = Tail(u)
    OBVIOUS
  <1>2. t # <<>> /\ ForAny(Head(t), F)
    BY <1>1 DEF HeadLatest, ForAny
  <1>3. Head(t) = u[2] /\ 2 \in 1 .. Len(u) /\ Head(u) = u[1]
    BY <1>1, <1>2, Second, WithoutHead
  <1>4. InOrder(u, y, F, 2)
    BY <1>3 DEF Ordered
  <1>5. 2 > 1 /\ 2 - 1 = 1
    OBVIOUS
  <1> QED
    BY <1>2, <1>3, <1>4, <1>5 DEF InOrder

LEMMA SilentAppend ==
    ASSUME NEW S, NEW q \in Seq(S), NEW a \in S, NEW type, a.type # type, Silent(q, type)
    PROVE  Silent(Append(q, a), type)
  <1>1. PICK ms : ms = <<a>>
    OBVIOUS
  <1>2. Append(q, a) = q \o ms /\ ms \in Seq(S) /\ \A i \in 1 .. Len(ms) : ms[i] = a
    BY <1>1, AppendIsBehind
  <1>3. Silent(ms, type)
    BY <1>2 DEF Silent
  <1> QED
    BY <1>2, <1>3, SilentBehind

\* The wrap for x among those of a rotation.
LEMMA WrapOfRotation ==
    ASSUME NEW b, NEW k, NEW x \in b.members \ {b.rotator}
    PROVE  /\ x \in {w.to : w \in WrapsOf(b, k).wraps}
           /\ WrapFor(WrapsOf(b, k).wraps, x) = Owed(x, k, b)
  <1> DEFINE ws == WrapsOf(b, k).wraps
  <1>1. ws = {[to |-> y, from |-> b.rotator, key |-> k, members |-> b.members] : y \in b.members \ {b.rotator}}
    BY DEF WrapsOf, Wraps
  <1>2. Owed(x, k, b) \in ws /\ Owed(x, k, b).to = x
    BY <1>1 DEF Owed
  <1>3. \A w \in ws : w.to = x => w = Owed(x, k, b)
    BY <1>1 DEF Owed
  <1> HIDE DEF ws
  <1>4. WrapFor(ws, x) = Owed(x, k, b)
    BY <1>2, <1>3 DEF WrapFor
  <1> QED
    BY <1>2, <1>4 DEF ws

LEMMA ComesLast ==
    ASSUME NEW q \in Seq(S2c), NEW x, NEW k, NEW b, Parcel(Owed(x, k, b)) \in S2c
    PROVE  Coming(x, k, b, Append(q, Parcel(Owed(x, k, b))))
  <1>1. PICK a : a = Parcel(Owed(x, k, b))
    OBVIOUS
  <1>2. PICK r : r = Append(q, a)
    OBVIOUS
  <1>3. Len(q) \in Nat /\ Len(r) = Len(q) + 1 /\ r[Len(q) + 1] = a
    BY <1>1, <1>2
  <1>4. Len(q) + 1 \in 1 .. Len(r) /\ \A j \in 1 .. Len(r) : ~(j > Len(q) + 1)
    BY <1>3
  <1>5. NoneBehind(r, Len(q) + 1, "appended")
    BY <1>4 DEF NoneBehind
  <1> QED
    BY <1>1, <1>2, <1>3, <1>4, <1>5 DEF Coming

\* The relay reads a message that is no entry.
LEMMA KeyedRelayQuiet ==
    ASSUME TypeOK, RelayLogValid, CalmBase, CalmLogs, NEW k \in GroupKey, CalmKey(k),
           NEW d \in Device, RelayCalm(d), ~Accepts(d, Head(up[d])), limit' = limit,
           NEW x \in Founders \cap Roster(relayLog)
    PROVE  Keyed(x, k)'
  <1> DEFINE m == Head(up[d])
             b == Last(relayLog)
             h == HeldKey(key[x], revoking[x])
  <1>1. relayLog' = relayLog /\ m.type # "append" /\ (Forwards(d, m) \/ Answers(d, m))
    BY DEF RelayCalm, Forwards, Answers
  <1>2. StillFollows(x)
    BY <1>1, LogsRelay
  <1>3. CASE Doomed(relayLog, log[x], revoking[x], up[x])
    BY <1>1, <1>2, <1>3 DEF StillFollows, Keyed
  <1>4. CASE ~Doomed(relayLog, log[x], revoking[x], up[x])
    <2>1. LastRotation(x, up[x], h) /\ (Settled /\ Silent(up[x], "append") => HasKey(x, k, b, h, down[x], up))
      BY <1>4 DEF CalmKey, Keyed
    <2>2. /\ up[d] # <<>> /\ up'[d] = Tail(up[d]) /\ \A y \in Device \ {d} : up'[y] = up[y]
          /\ HeldKey(key'[x], revoking'[x]) = h /\ x \in Device
      BY DEF RelayCalm, HeldKey, CalmBase
    <2>3. up \in [Device -> Seq(C2s)] /\ down[x] \in Seq(S2c)
      BY <2>2, CalmTypes
    <2>4. /\ LastRotation(x, up'[x], h)
          /\ Silent(up'[x], "append") => Silent(up[x], "append")
      <3>1. up[d] \in Seq(C2s)
        BY <2>3
      <3>2. Silent(Tail(up[d]), "append") => Silent(up[d], "append")
        BY <1>1, <2>2, <3>1, SilentShrinks
      <3>3. x = d => LastRotation(x, Tail(up[d]), h)
        BY <2>1, <2>2, <3>1, LastRotationMoves
      <3> QED
        BY <2>1, <2>2, <3>2, <3>3
    <2>5. \/ down'[x] = down[x]
          \/ \E w \in Wrap : down'[x] = Append(down[x], Parcel(w)) /\ Parcel(w) \in S2c
      <3>1. CASE Answers(d, m)
        BY <3>1 DEF Answers
      <3>2. CASE Forwards(d, m) /\ down'[x] # down[x]
        <4>1. m.wraps \in SUBSET Wrap /\ x \in {w.to : w \in m.wraps} /\ down'[x] = Append(down[x], Parcel(WrapFor(m.wraps, x)))
          BY <3>2 DEF Forwards
        <4>2. WrapFor(m.wraps, x) \in Wrap
          BY <4>1 DEF WrapFor
        <4>3. Parcel(WrapFor(m.wraps, x)) \in S2c
          BY <4>2 DEF Parcel, S2c
        <4> QED
          BY <4>1, <4>2, <4>3
      <3> QED
        BY <1>1, <3>1, <3>2
    <2>6. ASSUME Silent(down[x], "appended") PROVE Silent(down'[x], "appended")
      <3>1. ASSUME NEW w, down'[x] = Append(down[x], Parcel(w)), Parcel(w) \in S2c
            PROVE  Silent(down'[x], "appended")
        BY <2>3, <2>6, <3>1, SilentAppend DEF Parcel
      <3> QED
        BY <2>5, <2>6, <3>1
    <2>7. ASSUME Coming(x, k, b, down[x]) PROVE Coming(x, k, b, down'[x])
      <3>1. ASSUME NEW w, down'[x] = Append(down[x], Parcel(w)), Parcel(w) \in S2c
            PROVE  Coming(x, k, b, down'[x])
        BY <2>3, <2>7, <3>1, ComingMoves DEF Parcel
      <3> QED
        BY <2>5, <2>7, <3>1
    <2>8. ASSUME b.type = "epoch", b.rotator # x, Leaving(k, b, up)
          PROVE  Leaving(k, b, up') \/ Coming(x, k, b, down'[x])
      <3>1. /\ b.rotator \in Roster(relayLog) /\ b.members = Roster(relayLog) /\ b.rotator \in Device
            /\ Roster(relayLog) \subseteq Device
        <4>1. relayLog \in Log /\ FullyValid(relayLog) /\ Roster(relayLog) = MembersOf(relayLog)
          BY CalmTypes
        <4>2. Last(relayLog) \in Body
          BY <4>1, LastSays
        <4>3. b.rotator \in MembersOf(relayLog) /\ b.members = MembersOf(relayLog)
          BY <2>8, <4>1, LastSays
        <4>4. MembersOf(relayLog) \subseteq Device
          BY DEF MembersOf, MembersAfter
        <4> QED
          BY <4>1, <4>3, <4>4
      <3>2. CASE b.rotator # d
        BY <2>2, <2>8, <3>1, <3>2 DEF Leaving
      <3>3. CASE b.rotator = d
        <4>1. m = WrapsOf(b, k)
          BY <2>8, <3>3 DEF Leaving
        <4>2. m.type = "wraps"
          BY <4>1 DEF WrapsOf
        <4>3. Forwards(d, m)
          BY <1>1, <4>2 DEF Answers
        <4>4. x \in b.members \ {b.rotator}
          BY <2>8, <3>1
        <4>5. x \in {w.to : w \in m.wraps} /\ WrapFor(m.wraps, x) = Owed(x, k, b)
          BY <4>1, <4>4, WrapOfRotation
        <4>6. down'[x] = Append(down[x], Parcel(Owed(x, k, b))) /\ m.wraps \in SUBSET Wrap
          BY <3>1, <3>3, <4>3, <4>5 DEF Forwards
        <4>7. Parcel(Owed(x, k, b)) \in S2c
          <5>1. Owed(x, k, b) \in Wrap
            BY <4>5, <4>6 DEF WrapFor
          <5> QED
            BY <5>1 DEF Parcel, S2c
        <4> QED
          BY <2>3, <4>6, <4>7, ComesLast
      <3> QED
        BY <3>2, <3>3
    <2>9. ASSUME HasKey(x, k, b, h, down[x], up) PROVE HasKey(x, k, b, h, down'[x], up')
      BY <2>6, <2>7, <2>8, <2>9 DEF HasKey
    <2>10. Settled' = Settled /\ b' = b
      BY <1>1 DEF Settled, Last
    <2> HIDE DEF b, h, m
    <2>11. Settled' /\ Silent(up'[x], "append") => HasKey(x, k, b, h, down'[x], up')
      BY <2>1, <2>4, <2>9, <2>10
    <2> QED
      BY <1>1, <2>2, <2>4, <2>10, <2>11 DEF Keyed, b
  <1> QED
    BY <1>3, <1>4

\* The relay accepts an entry that is no Epoch entry.
LEMMA KeyedRelayAccepts ==
    ASSUME TypeOK, RelayLogValid, CalmBase, CalmLogs, CalmEnd, NEW k \in GroupKey, CalmKey(k),
           NEW d \in Device, RelayCalm(d), NEW e, TakesEntry(d, e), e.body.type # "epoch",
           limit' = limit, NEW x \in Founders \cap Roster(relayLog')
    PROVE  Keyed(x, k)'
  <1>1. StillFollows(x) /\ x \in Roster(relayLog) /\ x \in Device
    BY LogsRelay, RosterFounders DEF CalmBase
  <1>2. CASE Doomed(relayLog, log[x], revoking[x], up[x])
    BY <1>1, <1>2 DEF StillFollows, Keyed
  <1>3. CASE ~Doomed(relayLog, log[x], revoking[x], up[x])
    <2> DEFINE h == HeldKey(key[x], revoking[x])
    <2>1. LastRotation(x, up[x], h)
      BY <1>1, <1>3 DEF CalmKey, Keyed
    <2>2. /\ up[d] # <<>> /\ up'[d] = Tail(up[d]) /\ \A y \in Device \ {d} : up'[y] = up[y]
          /\ HeldKey(key'[x], revoking'[x]) = h
      BY DEF RelayCalm, HeldKey
    <2>3. LastRotation(x, up'[x], h)
      <3>1. up[d] \in Seq(C2s)
        BY CalmTypes
      <3>2. x = d => LastRotation(x, Tail(up[d]), h)
        BY <2>1, <2>2, <3>1, LastRotationMoves
      <3> QED
        BY <1>1, <2>1, <2>2, <3>2
    <2>4. ~Settled'
      <3>1. Last(relayLog') = e.body /\ Len(relayLog') = Len(relayLog) + 1 /\ Len(relayLog) \in Nat
        BY DEF TakesEntry
      <3>2. Len(limit.first) <= Len(relayLog) /\ Len(limit.first) \in Nat
        <4>1. limit \in Limits
          BY DEF TypeOK, BoundsTypeOK
        <4>2. limit.first \in Log
          BY <4>1, FoundingType
        <4> QED
          BY <4>2 DEF CalmEnd, Log
      <3>3. relayLog' # limit.first
        BY <3>1, <3>2
      <3> QED
        BY <3>1, <3>3 DEF Settled
    <2> HIDE DEF h
    <2> QED
      BY <2>2, <2>3, <2>4 DEF Keyed
  <1> QED
    BY <1>2, <1>3

\* What founders are sent by the relay.
LEMMA ParcelsRelay ==
    ASSUME TypeOK, RelayLogValid, CalmBase, NEW k, CalmKey(k), NEW d \in Device, RelayCalm(d),
           NEW x \in Founders
    PROVE  ParcelsLatest(down'[x], k)
  <1> DEFINE m == Head(up[d])
  <1>1. down[x] \in Seq(S2c) /\ ParcelsLatest(down[x], k)
    BY CalmTypes DEF CalmKey, CalmBase
  <1>2. CASE Accepts(d, m)
    <2>1. m.entry \in Entry /\ (down'[x] = down[x] \/ down'[x] = Append(down[x], News(m.entry)))
      BY <1>2 DEF Accepts
    <2>2. News(m.entry) \in S2c /\ News(m.entry).type # "wrap"
      BY <2>1 DEF News, S2c
    <2> QED
      BY <1>1, <2>1, <2>2, ParcelsMove
  <1>3. CASE Forwards(d, m)
    <2>1. CASE down'[x] # down[x]
      <3>1. /\ m.wraps \in SUBSET Wrap /\ x \in {w.to : w \in m.wraps} /\ m.type = "wraps"
            /\ down'[x] = Append(down[x], Parcel(WrapFor(m.wraps, x)))
        BY <1>3, <2>1 DEF Forwards
      <3>2. WrapFor(m.wraps, x) \in m.wraps /\ WrapFor(m.wraps, x).to = x
        BY <3>1 DEF WrapFor
      <3>3. HeadLatest(up[d], Founders, k) /\ up[d] # <<>>
        BY DEF CalmKey, RelayCalm
      <3>4. Latest(WrapFor(m.wraps, x), k)
        BY <3>1, <3>2, <3>3 DEF HeadLatest
      <3>5. PICK a : a = Parcel(WrapFor(m.wraps, x))
        OBVIOUS
      <3>6. a \in S2c /\ a.type = "wrap" /\ Latest(a.wrap, k)
        BY <3>1, <3>2, <3>4, <3>5 DEF Parcel, S2c
      <3> QED
        BY <1>1, <3>1, <3>5, <3>6, ParcelsMove
    <2> QED
      BY <1>1, <2>1
  <1>4. CASE Answers(d, m)
    BY <1>1, <1>4 DEF Answers
  <1> QED
    BY <1>2, <1>3, <1>4 DEF RelayCalm

\* A step of the relay but for an Epoch entry leaves the latest key what it is.
LEMMA CalmKeyRelay ==
    ASSUME TypeOK, RelayLogValid, CalmBase, CalmLogs, CalmEnd, NEW k \in GroupKey, CalmKey(k),
           NEW d \in Device, RelayCalm(d), limit' = limit, Founders' = Founders,
           Accepts(d, Head(up[d])) => ~Is(Head(up[d]), "epoch")
    PROVE  CalmKey(k)'
  <1>1. /\ EpochOf(relayLog') = EpochOf(relayLog)
        /\ \A x \in Founders \cap Roster(relayLog') : Keyed(x, k)'
    <2>1. CASE Accepts(d, Head(up[d]))
      <3>1. PICK e : e = Head(up[d]).entry
        OBVIOUS
      <3>2. TakesEntry(d, e)
        BY <2>1, <3>1, TakesEntryIf
      <3>3. e.body.type # "epoch"
        BY <2>1, <3>1 DEF Accepts, Is
      <3>4. EpochOf(relayLog) \in Nat /\ EpochOf(relayLog') = EpochOf(relayLog) + 0
        BY <3>2, <3>3 DEF TakesEntry
      <3>5. EpochOf(relayLog') = EpochOf(relayLog)
        BY <3>4
      <3> QED
        BY <3>2, <3>3, <3>5, KeyedRelayAccepts
    <2>2. CASE ~Accepts(d, Head(up[d]))
      <3>1. relayLog' = relayLog
        BY <2>2 DEF RelayCalm, Forwards, Answers
      <3> QED
        BY <2>2, <3>1, KeyedRelayQuiet
    <2> QED
      BY <2>1, <2>2
  <1>2. ~Is(Head(up[d]), "epoch")
    BY DEF RelayCalm, Forwards, Answers, Is
  <1>3. /\ up[d] \in Seq(C2s) /\ up[d] # <<>> /\ Ordered(up[d], d, Founders)
        /\ up'[d] = Tail(up[d]) /\ \A y \in Device \ {d} : up'[y] = up[y]
    BY CalmTypes DEF RelayCalm, CalmBase
  <1>4. HeadLatest(Tail(up[d]), Founders, k)
    BY <1>2, <1>3, NextLatest
  <1>5. \A y \in Device : HeadLatest(up'[y], Founders, k)
    BY <1>3, <1>4 DEF CalmKey
  <1>6. \A x \in Founders : ParcelsLatest(down'[x], k)
    BY ParcelsRelay
  <1>7. k.epoch = EpochOf(relayLog)
    BY DEF CalmKey
  <1> QED
    BY <1>1, <1>5, <1>6, <1>7 DEF CalmKey

\* What is no later than a key is no later than a key of a later epoch.
LEMMA LatestLater ==
    ASSUME NEW k \in GroupKey, NEW k2 \in GroupKey, k2.epoch > k.epoch
    PROVE  /\ \A w \in Wrap : Latest(w, k) => Latest(w, k2)
           /\ \A u \in Seq(C2s) : \A F : HeadLatest(u, F, k) => HeadLatest(u, F, k2)
           /\ \A q \in Seq(S2c) : ParcelsLatest(q, k) => ParcelsLatest(q, k2)
  <1>1. ASSUME NEW w \in Wrap, Latest(w, k) PROVE Latest(w, k2)
    <2>1. w.key.epoch \in Nat /\ k.epoch \in Nat /\ k2.epoch \in Nat
      BY DEF Wrap, GroupKey
    <2>2. w.key.epoch <= k.epoch
      BY <1>1 DEF Latest
    <2>3. w.key.epoch <= k2.epoch /\ w.key.epoch # k2.epoch
      BY <2>1, <2>2
    <2> QED
      BY <2>3 DEF Latest
  <1>2. ASSUME NEW u \in Seq(C2s), NEW F, HeadLatest(u, F, k) PROVE HeadLatest(u, F, k2)
    <2> SUFFICES ASSUME u # <<>>, Head(u).type = "wraps", NEW w \in Head(u).wraps, w.to \in F
                 PROVE  Latest(w, k2)
      BY DEF HeadLatest
    <2>1. Head(u) \in C2s
      BY WithoutHead
    <2>2. w \in Wrap
      BY <2>1 DEF C2s
    <2>3. Latest(w, k)
      BY <1>2 DEF HeadLatest
    <2> QED
      BY <1>1, <2>2, <2>3
  <1>3. ASSUME NEW q \in Seq(S2c), ParcelsLatest(q, k) PROVE ParcelsLatest(q, k2)
    <2> SUFFICES ASSUME NEW i \in 1 .. Len(q), q[i].type = "wrap" PROVE Latest(q[i].wrap, k2)
      BY DEF ParcelsLatest
    <2>1. q[i] \in S2c
      BY ElementOfSeq
    <2>2. q[i].wrap \in Wrap
      BY <2>1 DEF S2c
    <2>3. Latest(q[i].wrap, k)
      BY <1>3 DEF ParcelsLatest
    <2> QED
      BY <1>1, <2>2, <2>3
  <1> QED
    BY <1>1, <1>2, <1>3

\* Key k is that of the Epoch entry at the head of the queue of d, which is the one d
\* holds if it is a founder that has sent no entry since.
MakesKey(d, k) ==
    /\ Rotating(up[d], d, 1, k)
    /\ d \in Founders \cap Roster(relayLog) /\ NoneBehind(up[d], 1, "append")
       /\ ~Doomed(relayLog, log[d], revoking[d], up[d])
           => k = HeldKey(key[d], revoking[d])

LEMMA RotatesSome ==
    ASSUME NEW k, CalmKey(k), NEW d \in Device, NEW e, TakesEntry(d, e), e.body.type = "epoch"
    PROVE  \E k2 \in GroupKey : MakesKey(d, k2)
  <1> DEFINE h == HeldKey(key[d], revoking[d])
  <1>1. Is(up[d][1], "epoch") /\ 1 \in 1 .. Len(up[d])
    <2>1. up[d] \in Seq(C2s) /\ up[d] # <<>> /\ Is(up[d][1], "epoch")
      BY DEF TakesEntry
    <2>2. Len(up[d]) \in Nat /\ Len(up[d]) >= 1
      BY <2>1, WithoutHead
    <2> QED
      BY <2>1, <2>2
  <1>2. InOrder(up[d], d, Founders, 1)
    BY <1>1 DEF TakesEntry, Ordered
  <1>3. PICK k0 \in GroupKey : Rotating(up[d], d, 1, k0)
    BY <1>1, <1>2 DEF InOrder
  <1>4. ASSUME d \in Founders \cap Roster(relayLog), NoneBehind(up[d], 1, "append"),
               ~Doomed(relayLog, log[d], revoking[d], up[d])
        PROVE  h \in GroupKey /\ Rotating(up[d], d, 1, h)
    <2>1. LastRotation(d, up[d], h)
      BY <1>4 DEF CalmKey, Keyed
    <2> HIDE DEF h
    <2> QED
      BY <1>1, <1>4, <2>1 DEF LastRotation
  <1> HIDE DEF h
  <1> QED
    BY <1>3, <1>4 DEF MakesKey, h

\* The relay accepts an Epoch entry: its key is the latest.
LEMMA KeyedRelayRotates ==
    ASSUME TypeOK, RelayLogValid, CalmBase, CalmLogs, NEW k \in GroupKey, CalmKey(k),
           NEW d \in Device, RelayCalm(d), NEW e, TakesEntry(d, e), e.body.type = "epoch",
           NEW k2 \in GroupKey, MakesKey(d, k2), limit' = limit, NEW x \in Founders \cap Roster(relayLog')
    PROVE  Keyed(x, k2)'
  <1>1. StillFollows(x) /\ x \in Roster(relayLog) /\ x \in Device
    BY LogsRelay, RosterFounders DEF CalmBase
  <1>2. CASE Doomed(relayLog, log[x], revoking[x], up[x])
    BY <1>1, <1>2 DEF StillFollows, Keyed
  <1>3. CASE ~Doomed(relayLog, log[x], revoking[x], up[x])
    <2> DEFINE h == HeldKey(key[x], revoking[x])
               b == e.body
    <2>1. LastRotation(x, up[x], h)
      BY <1>1, <1>3 DEF CalmKey, Keyed
    <2>2. /\ up[d] # <<>> /\ up'[d] = Tail(up[d]) /\ \A y \in Device \ {d} : up'[y] = up[y]
          /\ HeldKey(key'[x], revoking'[x]) = h /\ up[d] \in Seq(C2s)
      BY CalmTypes DEF RelayCalm, HeldKey
    <2>3. LastRotation(x, up'[x], h)
      <3>1. x = d => LastRotation(x, Tail(up[d]), h)
        BY <2>1, <2>2, LastRotationMoves
      <3> QED
        BY <1>1, <2>1, <2>2, <3>1
    <2>4. /\ Last(relayLog') = b /\ b.rotator = d /\ up[d][1].entry = e /\ Head(up[d]) = up[d][1]
          /\ Head(up[d]).type = "append"
      BY DEF TakesEntry, By, Author, Is
    <2>5. Rotating(up[d], d, 1, k2)
      BY DEF MakesKey
    <2>6. ASSUME x = d, Silent(up'[x], "append") PROVE HasKey(x, k2, b, h, down'[x], up')
      <3>1. NoneBehind(up[d], 1, "append")
        <4>1. Silent(Tail(up[d]), "append")
          BY <2>2, <2>6
        <4>2. PICK u : u = up[d]
          OBVIOUS
        <4>3. PICK t : t = Tail(u)
          OBVIOUS
        <4>4. \A i \in 1 .. Len(u) : i # 1 => i - 1 \in 1 .. Len(t) /\ t[i - 1] = u[i]
          BY <2>2, <4>2, <4>3, WithoutHead
        <4>5. \A i \in 1 .. Len(u) : i > 1 => i # 1
          OBVIOUS
        <4> QED
          BY <4>1, <4>2, <4>3, <4>4, <4>5 DEF NoneBehind, Silent
      <3>2. h = k2
        BY <1>1, <1>3, <2>6, <3>1 DEF MakesKey
      <3>3. down'[d] = down[d]
        BY <2>6 DEF TakesEntry, Accepts
      <3>4. Level(relayLog, Mine(log[x], revoking[x]), up[d], down[d])
        BY <1>1, <1>3, <2>6 DEF CalmLogs, Follows
      <3>5. /\ relayLog \in Log /\ FullyValid(relayLog) /\ Mine(log[x], revoking[x]) \in Log
        BY <1>1, CalmTypes, MineType
      <3>6. PICK m : m = Mine(log[x], revoking[x])
        OBVIOUS
      <3>7. Len(relayLog) < Len(m)
        <4>1. PICK R2 : R2 = Append(relayLog, Head(up[d]).entry)
          OBVIOUS
        <4>2. Level(R2, m, Tail(up[d]), down[d]) /\ Len(relayLog) < Len(m)
          BY <2>2, <2>4, <3>4, <3>5, <3>6, <4>1, LevelRead
        <4> QED
          BY <4>2
      <3>8. Len(relayLog) <= Len(m)
        <4>1. Len(relayLog) \in Nat /\ Len(m) \in Nat
          BY <3>5, <3>6 DEF Log
        <4> QED
          BY <3>7, <4>1
      <3>9. Silent(down[d], "appended")
        BY <3>4, <3>5, <3>6, <3>8, LevelLengths
      <3> QED
        BY <2>6, <3>2, <3>3, <3>9 DEF HasKey
    <2>7. ASSUME x # d PROVE HasKey(x, k2, b, h, down'[x], up')
      <3>1. relayLog' \in Log /\ FullyValid(relayLog') /\ b.type = "epoch"
        BY DEF TakesEntry
      <3>2. PICK R2 : R2 = relayLog'
        OBVIOUS
      <3>3. b.members = MembersOf(R2) /\ Roster(R2) = MembersOf(R2)
        BY <2>4, <3>1, <3>2, LastSays, ValidLog
      <3>4. b.members \ {d} # {}
        BY <2>7, <3>2, <3>3
      <3>5. 2 <= Len(up[d]) /\ up[d][2] = WrapsOf(b, k2)
        <4>1. 1 + 1 = 2
          OBVIOUS
        <4> QED
          BY <2>4, <2>5, <3>4, <4>1 DEF Rotating
      <3>6. Tail(up[d]) # <<>> /\ Head(Tail(up[d])) = WrapsOf(b, k2)
        BY <2>2, <3>5, Second
      <3>7. Leaving(k2, b, up')
        BY <2>2, <2>4, <3>6 DEF Leaving
      <3> QED
        BY <2>4, <2>7, <3>1, <3>7 DEF HasKey
    <2> HIDE DEF h
    <2>8. Silent(up'[x], "append") => HasKey(x, k2, Last(relayLog'), h, down'[x], up')
      BY <2>4, <2>6, <2>7
    <2> QED
      BY <2>2, <2>3, <2>8 DEF Keyed
  <1> QED
    BY <1>2, <1>3

LEMMA CalmKeyRotates ==
    ASSUME TypeOK, RelayLogValid, CalmBase, CalmLogs, NEW k \in GroupKey, CalmKey(k),
           NEW d \in Device, RelayCalm(d), Accepts(d, Head(up[d])), Is(Head(up[d]), "epoch"),
           limit' = limit, Founders' = Founders
    PROVE  CalmKeys'
  <1>1. PICK e : e = Head(up[d]).entry
    OBVIOUS
  <1>2. TakesEntry(d, e) /\ e.body.type = "epoch"
    BY <1>1, TakesEntryIf DEF Is
  <1>3. PICK k2 \in GroupKey : MakesKey(d, k2)
    BY <1>2, RotatesSome
  <1>4. /\ Rotating(up[d], d, 1, k2) /\ up[d][1].entry = e /\ Head(up[d]) = up[d][1]
        /\ up[d] \in Seq(C2s) /\ up[d] # <<>> /\ Ordered(up[d], d, Founders)
        /\ e.body.rotator = d /\ up'[d] = Tail(up[d])
        /\ \A y \in Device \ {d} : up'[y] = up[y]
    BY <1>2, <1>3 DEF MakesKey, TakesEntry, By, Author, RelayCalm
  <1>5. k2.epoch = EpochOf(relayLog') /\ k2.epoch > k.epoch
    <2>1. k2.epoch = e.body.number
      BY <1>4 DEF Rotating
    <2>2. relayLog' \in Log /\ FullyValid(relayLog') /\ Last(relayLog') = e.body
      BY <1>2 DEF TakesEntry
    <2>3. e.body.number = EpochOf(relayLog')
      BY <1>2, <2>2, LastSays
    <2>4. k.epoch = EpochOf(relayLog) /\ EpochOf(relayLog) \in Nat /\ EpochOf(relayLog') = EpochOf(relayLog) + 1
      BY <1>2 DEF TakesEntry, CalmKey
    <2> QED
      BY <2>1, <2>3, <2>4
  <1>6. ASSUME NEW y \in Device PROVE HeadLatest(up'[y], Founders, k2)
    <2>1. CASE y # d
      <3>1. up'[y] = up[y] /\ up[y] \in Seq(C2s) /\ HeadLatest(up[y], Founders, k)
        BY <1>4, <2>1, CalmTypes DEF CalmKey
      <3> QED
        BY <1>5, <3>1, LatestLater
    <2>2. CASE y = d /\ e.body.members \ {d} = {}
      BY <1>1, <1>4, <2>2, NextLatest
    <2>3. CASE y = d /\ e.body.members \ {d} # {}
      <3>1. 2 <= Len(up[d]) /\ up[d][2] = WrapsOf(e.body, k2)
        <4>1. 1 + 1 = 2
          OBVIOUS
        <4> QED
          BY <1>4, <2>3, <4>1 DEF Rotating
      <3>2. Head(Tail(up[d])) = WrapsOf(e.body, k2)
        BY <1>4, <3>1, Second
      <3>3. \A w \in WrapsOf(e.body, k2).wraps : w.key = k2
        BY DEF WrapsOf, Wraps
      <3>4. k2.epoch <= k2.epoch
        BY DEF GroupKey
      <3> QED
        BY <1>4, <2>3, <3>2, <3>3, <3>4 DEF HeadLatest, Latest
    <2> QED
      BY <2>1, <2>2, <2>3
  <1>7. ASSUME NEW x \in Founders PROVE ParcelsLatest(down'[x], k2)
    <2>1. ParcelsLatest(down'[x], k)
      BY ParcelsRelay
    <2>2. down'[x] \in Seq(S2c)
      <3>1. down[x] \in Seq(S2c)
        BY CalmTypes DEF CalmBase
      <3>2. down'[x] = down[x] \/ down'[x] = Append(down[x], News(e))
        BY <1>1 DEF Accepts
      <3>3. News(e) \in S2c
        BY <1>2 DEF TakesEntry, News, S2c
      <3> QED
        BY <3>1, <3>2, <3>3
    <2> QED
      BY <1>5, <2>1, <2>2, LatestLater
  <1>8. \A x \in Founders \cap Roster(relayLog') : Keyed(x, k2)'
    BY <1>2, <1>3, KeyedRelayRotates
  <1>9. CalmKey(k2)'
    BY <1>5, <1>6, <1>7, <1>8 DEF CalmKey
  <1> QED
    BY <1>9 DEF CalmKeys

-----------------------------------------------------------------------------
(* All that holds while nothing goes wrong, and where it comes to rest.    *)

CalmInv == Calm => CalmBase /\ CalmLogs /\ CalmEnd /\ FirstMade /\ CalmKeys

LEMMA SilentNone ==
    /\ \A type : Silent(<<>>, type)
    /\ \A x, h : LastRotation(x, <<>>, h)
    /\ \A F, k : HeadLatest(<<>>, F, k)
    /\ \A k : ParcelsLatest(<<>>, k)
    /\ \A x, k, b : ~Coming(x, k, b, <<>>)
    /\ \A R : ~Late(R, <<>>)
  <1>1. Len(<<>>) = 0 /\ \A i : ~(i \in 1 .. 0)
    OBVIOUS
  <1> QED
    BY <1>1 DEF Silent, LastRotation, HeadLatest, ParcelsLatest, Coming, Late

LEMMA CalmKeysInit == Init => CalmKeys
  <1> SUFFICES ASSUME NEW f \in Limits, limit = f, InitFrom(f.first)
               PROVE  CalmKeys
    BY DEF Init
  <1> DEFINE k == FirstKey(f.first)
  <1>1. k \in GroupKey /\ relayLog = f.first /\ k.epoch = EpochOf(relayLog) /\ Founders = MembersOf(f.first)
    BY FoundingType DEF InitFrom, FirstKey, Founders
  <1>2. \A y \in Device : HeadLatest(up[y], Founders, k)
    BY SilentNone DEF InitFrom
  <1>3. Founders \subseteq Device
    BY DEF Founders, MembersOf, MembersAfter
  <1>4. \A x \in Founders : ParcelsLatest(down[x], k)
    BY <1>3, SilentNone DEF InitFrom
  <1>5. ASSUME NEW x \in Founders PROVE Keyed(x, k)
    <2>1. x \in Device /\ x \in MembersOf(f.first)
      BY <1>1, <1>3
    <2>2. up[x] = <<>> /\ down[x] = <<>> /\ HeldKey(key[x], revoking[x]) = k
      BY <2>1 DEF InitFrom, HeldKey
    <2> HIDE DEF k
    <2>3. LastRotation(x, up[x], HeldKey(key[x], revoking[x])) /\ Silent(down[x], "appended")
      BY <2>2, SilentNone
    <2> QED
      BY <2>2, <2>3 DEF Keyed, HasKey
  <1> HIDE DEF k
  <1>6. CalmKey(k)
    BY <1>1, <1>2, <1>4, <1>5 DEF CalmKey
  <1> QED
    BY <1>1, <1>6 DEF CalmKeys

LEMMA CalmInvInit == Init => CalmInv
  BY CalmBaseInit, CalmLogsInit, CalmEndInit, CalmKeysInit DEF CalmInv

LEMMA CalmInvStep ==
    ASSUME TypeOK, RelayLogValid, KeyInv, GreetInv, CalmInv, [Next]_vars
    PROVE  CalmInv'
  <1> SUFFICES ASSUME Calm'
               PROVE  CalmBase' /\ CalmLogs' /\ CalmEnd' /\ FirstMade' /\ CalmKeys'
    BY DEF CalmInv
  <1>1. Calm /\ limit' = limit /\ Founders' = Founders
    BY CalmBefore
  <1>2. CalmBase /\ CalmLogs /\ CalmEnd /\ FirstMade /\ CalmKeys
    BY <1>1 DEF CalmInv
  <1>3. CalmBase' /\ CalmLogs'
    BY <1>2, CalmBaseStep, CalmLogsStep
  <1>4. PICK k \in GroupKey : CalmKey(k)
    BY <1>2 DEF CalmKeys
  <1>5. ASSUME NEW d \in Device, DeviceStep(d), DeviceCalm(d)
        PROVE  CalmEnd' /\ FirstMade' /\ CalmKeys'
    <2>1. CalmEnd' /\ FirstMade'
      BY <1>1, <1>2, <1>5, CalmEndDevice
    <2>2. CalmKey(k)'
      BY <1>1, <1>2, <1>4, <1>5, CalmKeyDevice
    <2> QED
      BY <2>1, <2>2 DEF CalmKeys
  <1>6. ASSUME NEW d \in Device, RelayCalm(d)
        PROVE  CalmEnd' /\ FirstMade' /\ CalmKeys'
    <2>1. CalmEnd' /\ FirstMade'
      BY <1>1, <1>2, <1>6, CalmEndRelay
    <2>2. CASE Accepts(d, Head(up[d])) /\ Is(Head(up[d]), "epoch")
      BY <1>1, <1>2, <1>4, <1>6, <2>1, <2>2, CalmKeyRotates
    <2>3. CASE ~(Accepts(d, Head(up[d])) /\ Is(Head(up[d]), "epoch"))
      <3>1. CalmKey(k)'
        BY <1>1, <1>2, <1>4, <1>6, <2>3, CalmKeyRelay
      <3> QED
        BY <2>1, <3>1 DEF CalmKeys
    <2> QED
      BY <2>2, <2>3
  <1>7. ASSUME UNCHANGED vars PROVE CalmEnd' /\ FirstMade' /\ CalmKeys'
    <2>1. /\ relayLog' = relayLog /\ up' = up /\ down' = down /\ log' = log /\ key' = key
          /\ revoking' = revoking /\ made' = made
      BY <1>7 DEF vars, relayVars, netVars, deviceVars, history
    <2>2. CalmEnd' /\ FirstMade'
      BY <1>1, <1>2, <2>1 DEF CalmEnd, FirstMade, Last
    <2>3. Settled' = Settled
      BY <1>1, <2>1 DEF Settled, Last
    <2>4. \A x : Keyed(x, k)' = Keyed(x, k)
      BY <2>1, <2>3 DEF Keyed, Last
    <2>5. CalmKey(k)'
      BY <1>1, <1>4, <2>1, <2>4 DEF CalmKey
    <2> QED
      BY <2>2, <2>5 DEF CalmKeys
  <1>8. \/ \E d \in Device : DeviceStep(d) /\ DeviceCalm(d)
        \/ \E d \in Device : RelayCalm(d)
        \/ UNCHANGED vars
    BY <1>2, CalmSteps
  <1>9. CalmEnd' /\ FirstMade' /\ CalmKeys'
    BY <1>5, <1>6, <1>7, <1>8
  <1> QED
    BY <1>3, <1>9

\* At rest the relay's log ends with the Epoch entry of a key that all have.
LEMMA RestSettled ==
    ASSUME TypeOK, RelayLogValid, CalmEnd, AtRest, Roster(relayLog) \subseteq Founders
    PROVE  Settled
  <1> DEFINE b == Last(relayLog)
  <1> SUFFICES ASSUME relayLog # limit.first PROVE b.type = "epoch"
    BY DEF Settled
  <1>1. /\ b.type # "genesis" /\ (b.type = "add" => b.subject \notin Founders)
        /\ (b.type = "remove" => b.target # b.by /\ up[b.by] # <<>>)
    BY DEF CalmEnd
  <1>2. relayLog \in Log /\ FullyValid(relayLog) /\ Roster(relayLog) = MembersOf(relayLog)
    BY CalmTypes
  <1>3. b \in Body
    BY <1>2, LastSays
  <1>4. b.type = "add" => b.subject \in Roster(relayLog)
    BY <1>2, LastSays
  <1>5. b.type = "remove" => b.by \in Roster(relayLog)
    BY <1>1, <1>2, LastSays
  <1>6. \A x \in Roster(relayLog) : up[x] = <<>>
    BY DEF AtRest
  <1> HIDE DEF b
  <1> QED
    BY <1>1, <1>3, <1>4, <1>5, <1>6 DEF Body

LEMMA RestAgrees ==
    ASSUME TypeOK, RelayLogValid, CalmInv
    PROVE  AgreeUndisturbed
  <1> SUFFICES ASSUME AtRest, Undisturbed
               PROVE  \A d \in Roster(relayLog) :
                          /\ log[d] = relayLog
                          /\ key[d] # None
                          /\ key[d].epoch = EpochOf(relayLog)
                          /\ \A e \in Roster(relayLog) : key[d] = key[e]
    BY DEF AgreeUndisturbed
  <1>1. CalmBase /\ CalmLogs /\ CalmEnd /\ FirstMade /\ CalmKeys
    BY DEF Undisturbed, Calm, CalmInv
  <1>2. Roster(relayLog) \subseteq Founders
    BY <1>1 DEF Undisturbed, FirstMade
  <1>3. Settled
    BY <1>1, <1>2, RestSettled
  <1>4. PICK k \in GroupKey : CalmKey(k)
    BY <1>1 DEF CalmKeys
  <1>5. /\ relayLog \in Log /\ FullyValid(relayLog) /\ Roster(relayLog) = MembersOf(relayLog)
        /\ log \in [Device -> Log]
    BY CalmTypes
  <1>6. ASSUME NEW d \in Roster(relayLog) PROVE log[d] = relayLog /\ key[d] = k
    <2>1. d \in Founders /\ d \in Device
      BY <1>1, <1>2 DEF CalmBase
    <2>2. revoking[d] = None /\ up[d] = <<>> /\ down[d] = <<>>
      BY DEF AtRest
    <2>3. /\ ~Doomed(relayLog, log[d], revoking[d], up[d])
          /\ Silent(up[d], "append") /\ Silent(down[d], "appended")
      BY <2>2, SilentNone DEF Doomed
    <2>4. Level(relayLog, log[d], up[d], down[d])
      <3>1. Follows(d, relayLog, log[d], revoking[d], up[d], down[d])
        BY <1>1, <2>1 DEF CalmLogs
      <3> QED
        BY <2>2, <2>3, <3>1 DEF Follows, Mine
    <2>5. log[d] = relayLog
      <3>1. log[d] \in Log
        BY <1>5, <2>1
      <3> QED
        BY <1>5, <2>3, <2>4, <3>1, LevelSame
    <2>6. HasKey(d, k, Last(relayLog), HeldKey(key[d], revoking[d]), down[d], up)
      BY <1>3, <1>4, <2>1, <2>3 DEF CalmKey, Keyed
    <2>7. ~Coming(d, k, Last(relayLog), down[d])
      BY <2>2, SilentNone
    <2>8. Last(relayLog).type = "epoch" => ~Leaving(k, Last(relayLog), up)
      <3>1. Last(relayLog).type = "epoch" => Last(relayLog).rotator \in Roster(relayLog)
        BY <1>5, LastSays
      <3> QED
        BY <3>1 DEF AtRest, Leaving
    <2>9. key[d] = k
      BY <2>2, <2>6, <2>7, <2>8 DEF HasKey, HeldKey
    <2> QED
      BY <2>5, <2>9
  <1>7. k # None /\ k.epoch = EpochOf(relayLog)
    BY <1>4, MembershipAssumption DEF CalmKey
  <1> QED
    BY <1>6, <1>7

\* Undisturbed, all members come to rest with the log of the relay and one key of
\* its epoch, whoever revokes whom and when, however many do so, and in whatever
\* order entries and wraps reach the others.
THEOREM AgreeUndisturbedAlways == Spec => []AgreeUndisturbed
  <1>1. Spec => [](TypeOK /\ RelayLogValid /\ KeyInv /\ GreetInv)
    BY MembershipTypeCorrect, RelayLogAlwaysValid, KeyInvAlways, GreetInvAlways, PTL
  <1>2. Init => CalmInv
    BY CalmInvInit
  <1>3. TypeOK /\ RelayLogValid /\ KeyInv /\ GreetInv /\ CalmInv /\ [Next]_vars => CalmInv'
    BY CalmInvStep
  <1>4. TypeOK /\ RelayLogValid /\ CalmInv => AgreeUndisturbed
    BY RestAgrees
  <1> QED
    BY <1>1, <1>2, <1>3, <1>4, PTL DEF Spec
=============================================================================
