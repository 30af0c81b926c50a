----------------------------- MODULE Membership -----------------------------
(***************************************************************************)
(* Members and keys: how devices join a workspace and are revoked, and how *)
(* the group key reaches them.  On one side the relay with the workspace   *)
(* log and the mailbox of wrapped keys (crates/sb-server/src/lib.rs), on   *)
(* the other every device with its copy of the log, its key and its        *)
(* session (src-tauri/src/worker.rs, revoke_member in commands.rs).        *)
(*                                                                         *)
(* A connection is a pair of ordered queues that break together; both ends *)
(* notice at once (ClipSync has the late notice).  A wrap opens only for   *)
(* the device it is made for.  Clips, profiles and presence are left out,  *)
(* and of the invitations all but the sponsor: the relay holds the sealed  *)
(* certificate from the moment the link is handed out.                     *)
(***************************************************************************)
EXTENDS WsLog

CONSTANTS
    None,             \* Option::None
    Limits            \* bounds on what happens, of which a behaviour has one

\* The log at the start, the devices that may join and the invitations in play,
\* the entries the relay accepts, and how often each device revokes a member,
\* loses its connection and is restarted, and how often the relay is.
Limit ==
    [first : Seq(Entry), joiners : SUBSET Device, invitations : SUBSET Grant, length : Nat,
     revokes : [Device -> Nat], breaks : [Device -> Nat], restarts : [Device -> Nat],
     relayRestarts : Nat]

\* A group key: random bytes, told apart by the device that made it and when.
GroupKey == [epoch : Nat, by : Device, n : Nat]

ASSUME MembershipAssumption ==
    /\ Limits \subseteq Limit
    /\ \A l \in Limits : FullyValid(l.first)
    /\ None \notin Device \cup Grant \cup GroupKey

\* The key of the members at the start.
FirstKey(first) == [epoch |-> EpochOf(first), by |-> first[1].body.creator, n |-> 0]

\* A RotationBlob, sealed for device to.
Wrap == [to : Device, from : Device, key : GroupKey, members : SUBSET Device]

VARIABLES
    relayLog,   \* Inner.log
    mailbox,    \* Inner.mailbox
    invites,    \* Inner.invites: the sponsor of an invitation, None before it is issued
    phase,      \* phase[d]: where the session of d is
    up, down,   \* up[d], down[d]: messages under way to and from the relay
    server,     \* server[d]: the settings name the relay
    code,       \* code[d]: Core.pending, the invitation to join with
    draft,      \* draft[d]: what guest_join will make the log of d
    log,        \* log[d]: Core.log
    wid,        \* wid[d]: Core.workspace_id is known
    key,        \* key[d]: Core.current_gk
    revoking,   \* revoking[d]: revoke_member between its sends and its last lock
    revokes, breaks, restarts, relayRestarts,  \* how much of each bound is used
    limit,      \* the bounds of this behaviour
    rejected,   \* history: who had an entry turned down or gave up a revocation
    made        \* history: every key, whom it was made for, the entries its maker had
                \* verified, and whether those were all its maker had

relayVars == <<relayLog, mailbox, invites>>
netVars == <<phase, up, down>>
joinVars == <<server, code, draft>>
deviceVars == <<log, wid, key, revoking>>
history == <<rejected, made>>
bounds == <<revokes, breaks, restarts, relayRestarts, limit>>
vars == <<relayVars, netVars, joinVars, deviceVars, bounds, history>>

Log == Seq(Entry)

\* The first n entries of a log, as a set.
Entries(l, n) == {l[i] : i \in 1 .. n}

\* The messages of a device to the relay, and of the relay to a device.
C2s ==
    [type : {"hello"}, length : Nat]
        \cup [type : {"getlog"}]
        \cup [type : {"append"}, entry : Entry]
        \cup [type : {"wraps"}, wraps : SUBSET Wrap]

S2c ==
    [type : {"welcome"}, tail : Log, wrap : Wrap \cup {None}]
        \cup [type : {"log"}, entries : Log \ {<<>>}]
        \cup [type : {"appended"}, entry : Entry]
        \cup [type : {"wrap"}, wrap : Wrap]
        \cup [type : {"ack", "reject"}]

\* off: no session.  fetching, adding: guest_join waits for the log, for the
\* answer to its Add entry.  online: the receive loop.
Phase == {"off", "fetching", "adding", "online"}

\* What revoke_member keeps between its two locks.
Revocation == [length : Nat, entries : Log, key : GroupKey]

\* What is absent is told from what is there: Option::None is no wrap, and no
\* revocation under way.
ASSUME NoneAssumption == None \notin Wrap \cup Revocation

\* A wrap is kept for whom it is made for.
RelayTypeOK ==
    /\ relayLog \in Log \ {<<>>}
    /\ mailbox \in [Device -> Wrap \cup {None}]
    /\ \A d \in Device : mailbox[d] # None => mailbox[d].to = d
    /\ invites \in [Grant -> Device \cup {None}]

NetTypeOK ==
    /\ phase \in [Device -> Phase]
    /\ up \in [Device -> Seq(C2s)]
    /\ down \in [Device -> Seq(S2c)]

JoinTypeOK ==
    /\ server \in [Device -> BOOLEAN]
    /\ code \in [Device -> Grant \cup {None}]
    /\ draft \in [Device -> Log]

DeviceTypeOK ==
    /\ log \in [Device -> Log]
    /\ wid \in [Device -> BOOLEAN]
    /\ key \in [Device -> GroupKey \cup {None}]
    /\ revoking \in [Device -> Revocation \cup {None}]

BoundsTypeOK ==
    /\ {revokes, breaks, restarts} \subseteq [Device -> Nat]
    /\ relayRestarts \in Nat
    /\ limit \in Limits

\* Nobody waits for the log without an invitation.
TypeOK ==
    /\ RelayTypeOK /\ NetTypeOK /\ JoinTypeOK /\ DeviceTypeOK /\ BoundsTypeOK
    /\ \A d \in Device : phase[d] = "fetching" => code[d] # None
    /\ rejected \subseteq Device

\* The sponsor named by the invitation a log has used, None for an unused one.
SponsorIn(l, g) ==
    IF g \in GrantsAfter(l, Len(l))
    THEN CHOOSE x \in Device : \E i \in 1 .. Len(l) :
             l[i].body.type = "add" /\ l[i].body.grant = g /\ l[i].body.sponsor = x
    ELSE None

\* The members are online and up to date; the others have never joined.
InitFrom(first) ==
    LET M == MembersOf(first)
    IN  /\ relayLog = first
        /\ mailbox = [d \in Device |-> None]
        /\ invites = [g \in Grant |-> SponsorIn(first, g)]
        /\ phase = [d \in Device |-> IF d \in M THEN "online" ELSE "off"]
        /\ up = [d \in Device |-> <<>>]
        /\ down = [d \in Device |-> <<>>]
        /\ server = [d \in Device |-> d \in M]
        /\ code = [d \in Device |-> None]
        /\ draft = [d \in Device |-> <<>>]
        /\ log = [d \in Device |-> IF d \in M THEN first ELSE <<>>]
        /\ wid = [d \in Device |-> d \in M]
        /\ key = [d \in Device |-> IF d \in M THEN FirstKey(first) ELSE None]
        /\ revoking = [d \in Device |-> None]
        /\ revokes = [d \in Device |-> 0]
        /\ breaks = [d \in Device |-> 0]
        /\ restarts = [d \in Device |-> 0]
        /\ relayRestarts = 0
        /\ rejected = {}
        /\ made = {[key |-> FirstKey(first), members |-> M,
                    seen |-> Entries(first, Len(first)), clean |-> TRUE]}

Init == \E l \in Limits : limit = l /\ InitFrom(l.first)

-----------------------------------------------------------------------------
(* The relay.  One lock: a message is handled in one step.                 *)

Member(d) == d \in Roster(relayLog)

\* The queues to the devices after message to[x] has gone to every x with a
\* session.
Sent(to) ==
    [x \in Device |-> IF x \in DOMAIN to /\ phase[x] # "off"
                      THEN Append(down[x], to[x]) ELSE down[x]]

\* Hello of a member: the entries it does not have and the wrap kept for it.
HandleHello(d, m) ==
    /\ IF Member(d)
       THEN LET welcome == [type |-> "welcome",
                            tail |-> SubSeq(relayLog, m.length + 1, Len(relayLog)),
                            wrap |-> mailbox[d]]
            IN  /\ down' = Sent([x \in {d} |-> welcome])
                /\ mailbox' = [mailbox EXCEPT ![d] = None]
       ELSE UNCHANGED <<down, mailbox>>
    /\ UNCHANGED <<relayLog, rejected>>

HandleGetLog(d) ==
    /\ down' = Sent([x \in {d} |-> [type |-> "log", entries |-> relayLog]])
    /\ UNCHANGED <<relayLog, mailbox, rejected>>

\* A plausible slip: it is enough that the chain verifies up to some entry.
MayAppendIfOk(d, e) ==
    /\ Member(d) \/ e.body.type = "add"
    /\ Verifies(Append(relayLog, e))

\* The trial verification of AppendEntry, and what a guest may append.
MayAppend(d, e) ==
    /\ Member(d) \/ e.body.type = "add"
    /\ Verifies(Append(relayLog, e))
    /\ Accepted(Append(relayLog, e)) = Len(Append(relayLog, e))

\* Who gets the answer to an entry of d.  Outside guest_join it is not looked
\* at, and so not queued.
Asker(d) == {x \in {d} : phase[x] = "adding"}

\* A plausible slip: the members get the entry before it is verified.
HandleAppendUnverified(d, e) ==
    /\ down' = Sent([x \in (Roster(relayLog) \ {d}) \cup Asker(d) |->
                        IF x # d THEN [type |-> "appended", entry |-> e]
                        ELSE [type |-> IF MayAppend(d, e) THEN "ack" ELSE "reject"]])
    /\ IF MayAppend(d, e)
       THEN relayLog' = Append(relayLog, e) /\ UNCHANGED rejected
       ELSE rejected' = rejected \cup {d} /\ UNCHANGED relayLog
    /\ UNCHANGED mailbox

\* AppendEntry: the sender gets the answer, all other members the entry.
HandleAppend(d, e) ==
    IF MayAppend(d, e)
    THEN /\ relayLog' = Append(relayLog, e)
         /\ down' = Sent([x \in (Roster(relayLog') \ {d}) \cup Asker(d) |->
                             IF x = d THEN [type |-> "ack"]
                             ELSE [type |-> "appended", entry |-> e]])
         /\ UNCHANGED <<mailbox, rejected>>
    ELSE /\ down' = Sent([x \in Asker(d) |-> [type |-> "reject"]])
         /\ rejected' = rejected \cup {d}
         /\ UNCHANGED <<relayLog, mailbox>>

\* The wrap for device x among those of an update.
WrapFor(ws, x) == CHOOSE w \in ws : w.to = x

\* A plausible slip: kept for everyone, pushed to nobody.
HandleKeyUpdateKept(d, ws) ==
    /\ IF Member(d)
       THEN mailbox' = [x \in Device |-> IF \E w \in ws : w.to = x THEN WrapFor(ws, x)
                                        ELSE mailbox[x]]
       ELSE UNCHANGED mailbox
    /\ UNCHANGED <<relayLog, down, rejected>>

\* A plausible slip: kept for everyone without a session, addressed or not.
HandleKeyUpdateForAll(d, ws) ==
    /\ IF Member(d)
       THEN LET to == {w.to : w \in ws}
            IN  /\ down' = Sent([x \in to |-> [type |-> "wrap", wrap |-> WrapFor(ws, x)]])
                /\ mailbox' = [x \in Device |-> IF phase[x] = "off"
                                                THEN CHOOSE w \in ws : TRUE ELSE mailbox[x]]
       ELSE UNCHANGED <<down, mailbox>>
    /\ UNCHANGED <<relayLog, rejected>>

\* PutKeyUpdate of a member: pushed to who has a session, else kept, the
\* newest only.
HandleKeyUpdate(d, ws) ==
    /\ IF Member(d)
       THEN LET to == {w.to : w \in ws}
            IN  /\ down' = Sent([x \in to |-> [type |-> "wrap", wrap |-> WrapFor(ws, x)]])
                /\ mailbox' = [x \in Device |-> IF x \in to /\ phase[x] = "off"
                                                THEN WrapFor(ws, x) ELSE mailbox[x]]
       ELSE UNCHANGED <<down, mailbox>>
    /\ UNCHANGED <<relayLog, rejected>>

RelayReads(d) ==
    /\ up[d] # <<>>
    /\ LET m == Head(up[d])
       IN  \/ m.type = "hello" /\ HandleHello(d, m)
           \/ m.type = "getlog" /\ HandleGetLog(d)
           \/ m.type = "append" /\ Len(relayLog) < limit.length /\ HandleAppend(d, m.entry)
           \/ m.type = "wraps" /\ HandleKeyUpdate(d, m.wraps)
    /\ up' = [up EXCEPT ![d] = Tail(@)]
    /\ UNCHANGED <<invites, phase, joinVars, deviceVars, bounds, made>>

-----------------------------------------------------------------------------
(* Sessions.                                                               *)

ToRelay(d, ms) == up' = [up EXCEPT ![d] = @ \o ms]

Received(d, type) == down[d] # <<>> /\ Head(down[d]).type = type

Consume(d) == down' = [down EXCEPT ![d] = Tail(@)]

\* Client::log_head, of which the relay uses the number of entries only.
Hello(l) == [type |-> "hello", length |-> Len(l)]

\* The connection of d is gone and what was under way on it.
Sever(d) ==
    /\ phase' = [phase EXCEPT ![d] = "off"]
    /\ up' = [up EXCEPT ![d] = <<>>]
    /\ down' = [down EXCEPT ![d] = <<>>]

\* fail_onboarding: the intent to join and the address of the relay are forgotten.
Dropped(d) ==
    /\ code' = [code EXCEPT ![d] = None]
    /\ server' = [server EXCEPT ![d] = FALSE]
    /\ UNCHANGED draft

\* session up to its first message: Hello, or GetLog of a guest.
Connect(d) ==
    /\ phase[d] = "off" /\ server[d]
    /\ IF code[d] = None
       THEN /\ phase' = [phase EXCEPT ![d] = "online"]
            /\ ToRelay(d, <<Hello(log[d])>>)
       ELSE /\ phase' = [phase EXCEPT ![d] = "fetching"]
            /\ ToRelay(d, <<[type |-> "getlog"]>>)
    /\ UNCHANGED <<relayVars, down, joinVars, deviceVars, bounds, history>>

\* The user of d is given an invitation and joins.
Join(d, g) ==
    /\ phase[d] = "off" /\ code[d] = None
    /\ invites[g] # None
    /\ d \in limit.joiners /\ g \in limit.invitations
    /\ code' = [code EXCEPT ![d] = g]
    /\ server' = [server EXCEPT ![d] = TRUE]
    /\ UNCHANGED <<relayVars, netVars, draft, deviceVars, bounds, history>>

\* The user of d makes an invitation (issue_invite).
Invite(d, g) ==
    /\ phase[d] = "online" /\ wid[d]
    /\ Member(d) /\ invites[g] = None
    /\ g \in limit.invitations
    /\ invites' = [invites EXCEPT ![g] = d]
    /\ UNCHANGED <<relayLog, mailbox, netVars, joinVars, deviceVars, bounds, history>>

\* guest_join has the log: it builds its Add entry on the head it verified.
GuestGetsLog(d) ==
    /\ phase[d] = "fetching" /\ Received(d, "log")
    /\ invites[code[d]] # None
    /\ LET entries == Head(down[d]).entries
           add == BuildOn(entries, AddBody(d, invites[code[d]], code[d]))
       IN  /\ draft' = [draft EXCEPT ![d] = Append(entries, add)]
           /\ ToRelay(d, <<[type |-> "append", entry |-> add]>>)
    /\ phase' = [phase EXCEPT ![d] = "adding"]
    /\ Consume(d)
    /\ UNCHANGED <<relayVars, server, code, deviceVars, bounds, history>>

\* GetInviteBlob finds nothing, the relay having restarted: fail_onboarding.
GuestGivesUp(d) ==
    /\ phase[d] = "fetching" /\ Received(d, "log")
    /\ invites[code[d]] = None
    /\ Sever(d)
    /\ Dropped(d)
    /\ UNCHANGED <<relayVars, deviceVars, bounds, history>>

\* The end of guest_join: the Add entry is taken for accepted.
Joined(d) ==
    /\ log' = [log EXCEPT ![d] = draft[d]]
    /\ wid' = [wid EXCEPT ![d] = TRUE]
    /\ code' = [code EXCEPT ![d] = None]
    /\ draft' = [draft EXCEPT ![d] = <<>>]
    /\ UNCHANGED <<server, key, revoking>>

\* recv_ack: whatever the answer, guest_join goes on and session says Hello.
GuestGetsAnswer(d) ==
    /\ phase[d] = "adding"
    /\ Received(d, "ack") \/ Received(d, "reject")
    /\ Joined(d)
    /\ ToRelay(d, <<Hello(draft[d])>>)
    /\ phase' = [phase EXCEPT ![d] = "online"]
    /\ Consume(d)
    /\ UNCHANGED <<relayVars, bounds, history>>

\* recv_log, recv_ack: other messages are skipped.
GuestSkips(d) ==
    /\ \/ phase[d] = "fetching" /\ ~Received(d, "log")
       \/ phase[d] = "adding" /\ ~Received(d, "ack") /\ ~Received(d, "reject")
    /\ down[d] # <<>>
    /\ Consume(d)
    /\ UNCHANGED <<relayVars, phase, up, joinVars, deviceVars, bounds, history>>

\* The connection breaks.  A guest that waits for the log gives up, one that
\* waits for its answer goes on as if it had come.
Break(d) ==
    /\ phase[d] # "off"
    /\ breaks[d] < limit.breaks[d]
    /\ breaks' = [breaks EXCEPT ![d] = @ + 1]
    /\ Sever(d)
    /\ \/ phase[d] = "online" /\ UNCHANGED <<joinVars, deviceVars>>
       \/ phase[d] = "fetching" /\ Dropped(d) /\ UNCHANGED deviceVars
       \/ phase[d] = "adding" /\ Joined(d)
    /\ UNCHANGED <<relayVars, revokes, restarts, relayRestarts, limit, history>>

-----------------------------------------------------------------------------
(* The receive loop.                                                       *)

\* A plausible slip: a wrap is opened without being verified.
WrapFitsUnverified(w, l) == Verifies(l)

\* verify_rotation: the wrap is of a member, of this epoch and these members.
WrapFits(w, l) ==
    /\ Verifies(l)
    /\ w.from \in MembersOf(l)
    /\ w.key.epoch = EpochOf(l)
    /\ w.members = MembersOf(l)

\* try_set_gk_from_wrap against log l may take wrap w: it is there, the
\* workspace is known, it is verified and opens.
Takes(d, w, l) == IF w = None THEN FALSE ELSE wid[d] /\ WrapFits(w, l) /\ w.to = d

\* The key d then holds.
KeyFrom(d, w, l) == IF Takes(d, w, l) THEN w.key ELSE key[d]

\* handle_msg, Welcome: the entries received replace the log, then the wrap
\* is tried, then the workspace becomes known.
HearWelcome(d) ==
    /\ phase[d] = "online" /\ Received(d, "welcome")
    /\ LET m == Head(down[d])
           l == IF m.tail = <<>> THEN log[d] ELSE m.tail
       IN  /\ log' = [log EXCEPT ![d] = l]
           /\ key' = [key EXCEPT ![d] = KeyFrom(d, m.wrap, l)]
           /\ wid' = [wid EXCEPT ![d] = @ \/ Verifies(l)]
    /\ Consume(d)
    /\ UNCHANGED <<relayVars, phase, up, joinVars, revoking, bounds, history>>

\* The key of d wrapped for the members of set S, as the members ms see it.
Wraps(d, S, k, ms) == {[to |-> x, from |-> d, key |-> k, members |-> ms] : x \in S}

\* on_log_appended: the entry is added to the log; whoever sees a device
\* added wraps its key for it.
HearAppended(d) ==
    /\ phase[d] = "online" /\ Received(d, "appended")
    /\ LET e == Head(down[d]).entry
           l == Append(log[d], e)
       IN  /\ log' = [log EXCEPT ![d] = l]
           /\ IF /\ Verifies(l) /\ e.body.type = "add" /\ e.body.subject # d
                 /\ key[d] # None /\ wid[d]
              THEN ToRelay(d, <<[type |-> "wraps",
                                 wraps |-> Wraps(d, {e.body.subject}, key[d], MembersOf(l))]>>)
              ELSE UNCHANGED up
    /\ Consume(d)
    /\ UNCHANGED <<relayVars, phase, joinVars, wid, key, revoking, bounds, history>>

\* handle_msg, KeyUpdatePush.
HearWrap(d) ==
    /\ phase[d] = "online" /\ Received(d, "wrap")
    /\ key' = [key EXCEPT ![d] = KeyFrom(d, Head(down[d]).wrap, log[d])]
    /\ Consume(d)
    /\ UNCHANGED <<relayVars, phase, up, joinVars, log, wid, revoking, bounds, history>>

-----------------------------------------------------------------------------
(* Revocation.                                                             *)

\* revoke_member up to its sends: Remove, Epoch and the wraps of a new key,
\* all built on a snapshot of the log.
RevokeSends(d, target) ==
    /\ phase[d] = "online" /\ wid[d] /\ key[d] # None /\ revoking[d] = None
    /\ revokes[d] < limit.revokes[d]
    /\ target # d
    /\ Verifies(log[d]) /\ target \in MembersOf(log[d])
    /\ LET l == log[d]
           remove == BuildOn(l, RemoveBody(d, target))
           l2 == Append(l, remove)
           new == [epoch |-> EpochOf(l) + 1, by |-> d, n |-> revokes[d] + 1]
           rotate == BuildOn(l2, EpochBody(d, EpochOf(l) + 1, MembersOf(l2)))
           wraps == Wraps(d, MembersOf(l2) \ {d}, new, MembersOf(l2))
       IN  /\ ToRelay(d, <<[type |-> "append", entry |-> remove],
                           [type |-> "append", entry |-> rotate]>>
                         \o IF wraps = {} THEN <<>> ELSE <<[type |-> "wraps", wraps |-> wraps]>>)
           /\ revoking' = [revoking EXCEPT
                             ![d] = [length |-> Len(l), entries |-> <<remove, rotate>>, key |-> new]]
           /\ made' = made \cup {[key |-> new, members |-> MembersOf(l) \ {target},
                                 seen |-> Entries(l, Accepted(l)),
                                 clean |-> Accepted(l) = Len(l)]}
    /\ revokes' = [revokes EXCEPT ![d] = @ + 1]
    /\ UNCHANGED <<relayVars, phase, down, joinVars, log, wid, key, breaks, restarts,
                   relayRestarts, limit, rejected>>

\* A send fails, the session being over: revoke_member returns before it takes
\* anything over, whatever the relay has read by then.
RevokeFails(d) ==
    /\ revoking[d] # None /\ phase[d] = "off"
    /\ revoking' = [revoking EXCEPT ![d] = None]
    /\ rejected' = rejected \cup {d}
    /\ UNCHANGED <<relayVars, netVars, joinVars, log, wid, key, bounds, made>>

\* The rest of revoke_member: entries and key are taken over, whatever the
\* relay will answer, unless the log has grown since the snapshot.
RevokeAdopts(d) ==
    /\ revoking[d] # None
    /\ IF Len(log[d]) = revoking[d].length
       THEN /\ log' = [log EXCEPT ![d] = @ \o revoking[d].entries]
            /\ key' = [key EXCEPT ![d] = revoking[d].key]
            /\ UNCHANGED rejected
       ELSE /\ rejected' = rejected \cup {d}
            /\ UNCHANGED <<log, key>>
    /\ revoking' = [revoking EXCEPT ![d] = None]
    /\ UNCHANGED <<relayVars, netVars, joinVars, wid, bounds, made>>

-----------------------------------------------------------------------------
(* Restarts.                                                               *)

\* The app of d starts again: the key and the relay's address are on disk.
Restart(d) ==
    /\ restarts[d] < limit.restarts[d]
    /\ restarts' = [restarts EXCEPT ![d] = @ + 1]
    /\ Sever(d)
    /\ code' = [code EXCEPT ![d] = None]
    /\ draft' = [draft EXCEPT ![d] = <<>>]
    /\ log' = [log EXCEPT ![d] = <<>>]
    /\ wid' = [wid EXCEPT ![d] = FALSE]
    /\ revoking' = [revoking EXCEPT ![d] = None]
    /\ UNCHANGED <<relayVars, server, key, revokes, breaks, relayRestarts, limit, history>>

\* The relay starts again with the log of its disk and nothing else: sessions,
\* mailbox and invitations are gone.
RelayRestart ==
    /\ relayRestarts < limit.relayRestarts
    /\ \A d \in Device : phase[d] \in {"off", "online"}
    /\ relayRestarts' = relayRestarts + 1
    /\ mailbox' = [d \in Device |-> None]
    /\ invites' = [g \in Grant |-> None]
    /\ phase' = [d \in Device |-> "off"]
    /\ up' = [d \in Device |-> <<>>]
    /\ down' = [d \in Device |-> <<>>]
    /\ UNCHANGED <<relayLog, joinVars, deviceVars, revokes, breaks, restarts, limit, history>>

-----------------------------------------------------------------------------

DeviceStep(d) ==
    \/ Connect(d)
    \/ \E g \in Grant : Join(d, g) \/ Invite(d, g)
    \/ GuestGetsLog(d)
    \/ GuestGivesUp(d)
    \/ GuestGetsAnswer(d)
    \/ GuestSkips(d)
    \/ Break(d)
    \/ HearWelcome(d)
    \/ HearAppended(d)
    \/ HearWrap(d)
    \/ \E t \in Device : RevokeSends(d, t)
    \/ RevokeFails(d)
    \/ RevokeAdopts(d)
    \/ Restart(d)

Next == (\E d \in Device : DeviceStep(d) \/ RelayReads(d)) \/ RelayRestart

Spec == Init /\ [][Next]_vars

-----------------------------------------------------------------------------
(* Safety.                                                                 *)

\* Whatever is appended, by whom and in what order, the log of the relay is
\* accepted to its last entry by all who verify it: every member was invited
\* by a member with an unused invitation, the epochs count up one by one.
RelayLogValid == FullyValid(relayLog)

\* The device that signed an entry, or is admitted by it.
Author(b) ==
    CASE b.type = "genesis" -> b.creator
      [] b.type = "add" -> b.subject
      [] b.type = "remove" -> b.by
      [] b.type = "epoch" -> b.rotator

\* The log a device has verified differs from the relay's only from an entry
\* of its own on that the relay turned down or has still to handle: no device
\* is led astray by another.
OnlyOwnForks ==
    \A d \in Device :
        Verifies(log[d]) =>
            \A i \in 1 .. Accepted(log[d]) :
                (i <= Len(relayLog) /\ log[d][i] = relayLog[i])
                    \/ \E j \in 1 .. i : /\ Author(log[d][j].body) = d
                                         /\ j <= Len(relayLog) => log[d][j] # relayLog[j]

\* Device d made key m, is one it was made for, or was admitted by an entry its
\* maker had not seen.
Entitled(d, m) ==
    \/ d \in m.members \cup {m.key.by}
    \/ \E e \in Entries(relayLog, Len(relayLog)) \ m.seen : Admits(e.body, d)

\* Whoever holds a group key is entitled to it; a device that was removed never
\* gets a key made without it, as long as the maker's log held nothing that
\* does not verify.
KeysOnlyToMembers ==
    \A d \in Device :
        key[d] # None => \E m \in made : m.key = key[d] /\ (Entitled(d, m) \/ ~m.clean)

\* Nothing is on its way, everyone is online.
AtRest ==
    \A d \in Roster(relayLog) :
        /\ phase[d] = "online" /\ revoking[d] = None
        /\ up[d] = <<>> /\ down[d] = <<>>

\* The rotation under way was built on the log that d has now.
BuiltOnLog(d) == Verifies(log[d]) /\ revoking[d].entries[1].prev = HeadOf(log[d])

\* The key of a device is never lost, and never replaced by one of an earlier
\* epoch, in whatever order pushes, mailbox and its own rotation come; unless
\* the log it has verified never reached the epoch of the key it holds, as
\* after its own rotation was turned down, or it adopts its own rotation on a
\* log that has been replaced by one as long as that it was built on:
\* revoke_member compares the lengths only.
KeyEpochsGrow ==
    [][\A d \in Device :
           key[d] # None =>
               /\ key'[d] # None
               /\ \/ key'[d].epoch >= key[d].epoch
                  \/ Verifies(log[d]) /\ EpochOf(log[d]) < key[d].epoch
                  \/ RevokeAdopts(d) /\ ~BuiltOnLog(d)]_vars

\* No entry was turned down or given up, nobody has been away, and the members
\* are among those for whom the first key was made: nobody has joined.
Undisturbed ==
    /\ rejected = {}
    /\ \A m \in made : m.key.n = 0 => Roster(relayLog) \subseteq m.members
    /\ relayRestarts = 0
    /\ \A d \in Device : breaks[d] + restarts[d] = 0

\* Undisturbed, all members come to rest with the log of the relay and one key
\* of its epoch, whoever revokes whom and when.
AgreeUndisturbed ==
    AtRest /\ Undisturbed =>
        \A d \in Roster(relayLog) :
            /\ log[d] = relayLog
            /\ key[d] # None
            /\ key[d].epoch = EpochOf(relayLog)
            /\ \A e \in Roster(relayLog) : key[d] = key[e]

-----------------------------------------------------------------------------
(* What docs and comments say and the code does not keep.                  *)

\* PLAN.md: a wrap is bound to the Epoch entry it belongs to, so wraps of an
\* entry that lost a race do not split the group key.
OneKeyPerEpoch ==
    AtRest =>
        \A d, e \in Roster(relayLog) :
            key[d] # None /\ key[e] # None =>
                (key[d].epoch = key[e].epoch => key[d] = key[e])

\* handle_msg, Welcome: the log that comes with it is the newest, so that a
\* wrap that waited verifies against it.
MembersCatchUp == AtRest => \A d \in Roster(relayLog) : log[d] = relayLog
=============================================================================
