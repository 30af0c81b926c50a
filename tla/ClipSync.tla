------------------------------ MODULE ClipSync ------------------------------
(***************************************************************************)
(* Clipboard synchronisation end to end: on every device the user, the OS  *)
(* clipboard, the polling watcher (crates/sb-clipboard/src/lib.rs), the    *)
(* sync engine and the two tasks of src-tauri/src/worker.rs that drive it; *)
(* between them the relay of crates/sb-server/src/lib.rs, reached over one *)
(* ordered connection.                                                     *)
(*                                                                         *)
(* The clipboard loop takes the watcher lock, reads, releases it, and only *)
(* then takes the core lock; the session task decides under the core lock, *)
(* releases it, and only then writes the clipboard.  polled and writing    *)
(* hold what is in flight between the two steps of each task.              *)
(*                                                                         *)
(* When a connection dies, the relay learns of it later than the device:   *)
(* closing holds what the relay has still to read from the dead one, while *)
(* the device may already have a new one.                                  *)
(*                                                                         *)
(* The pull of a body is abstracted to its outcome: it completes at some   *)
(* later time, while connected, or never.  So is key rotation: a device    *)
(* may install the next group key at any time, at the earliest just before *)
(* the relay has the Epoch entry (the rotator).                            *)
(***************************************************************************)
EXTENDS SyncEngine, Sequences

CONSTANTS
    HeadDepth,    \* HEAD_CACHE_DEPTH, 4 in the code
    Images,       \* clips that are images: the OS clipboard may re-encode them
    Files,        \* clips that are files: they may get other names on disk
    Limits        \* bounds on what happens, of which a behaviour has one

\* The devices in play, what their wall clocks may read, the clips users copy,
\* the epochs of the key, and how often on each device a clip is copied, a
\* connection lost, the app restarted, sync switched on or off, a write to the
\* clipboard fails, and the clipboard reads otherwise than the watcher noted.
Limit ==
    [devices : SUBSET Device, wall : SUBSET Wall, clips : SUBSET Content, epoch : Nat,
     copies : [Device -> Nat], drops : [Device -> Nat], restarts : [Device -> Nat],
     toggles : [Device -> Nat], failures : [Device -> Nat], altered : [Device -> Nat]]

ASSUME ClipSyncAssumption ==
    /\ HeadDepth \in Nat \ {0}
    /\ Images \cup Files \subseteq Fetched
    /\ Images \cap Files = {}
    /\ Limits \subseteq Limit
    /\ None \notin Signal

VARIABLES
    os,          \* os[d]: what the OS clipboard of d holds
    seen,        \* seen[d]: PollingWatcher.last, the clip last seen or written
    polled,      \* polled[d]: read by the clipboard loop, not yet in the engine
    inHand,      \* inHand[d]: signals of the message in hand still to handle
    writing,     \* writing[d]: decided by the session task, not yet on the clipboard
    conn,        \* conn[d]: a session is up, core.out is set
    registered,  \* registered[d]: Inner.sessions[d] leads to that session
    up,          \* up[d]: messages of the session the relay has not read
    closing,     \* closing[d]: the same for a dead session, None once it is over
    down,        \* down[d]: messages the device has not read, each a list of signals
    head,        \* Inner.head_cache of the relay
    relayEpoch,  \* Inner.epoch of the relay
    dropped,     \* history: the relay dropped a cached signal to make room
    issued,      \* history: the keys of all signals emitted
    copied,      \* history: copied[d] clips the user of d copied
    published,   \* history: published[d] signals the engine of d emitted
    restarted,   \* history: restarted[d] restarts of the app
    altered,     \* history: altered[d] writes that read otherwise than noted
    lost,        \* history: the keys of signals that did not reach the relay
    drops, toggles, failures,  \* how much of each bound is used
    limit        \* the bounds of this behaviour

clientVars == <<os, seen, polled, inHand, writing>>
netVars == <<conn, registered, up, closing, down>>
relayVars == <<head, relayEpoch, dropped>>
history == <<issued, copied, published, restarted, altered, lost>>
bounds == <<drops, toggles, failures, limit>>
vars == <<engineVars, clientVars, netVars, relayVars, history, bounds>>

\* What the relay sends: a fanned out signal, or those of a Welcome.
Batch == Seq(Signal) \ {<<>>}

ToRelay == [type : {"hello"}] \cup [type : {"signal"}, sig : Signal]

\* None is no list.  TLC evaluates this on every run.
ASSUME NoListAssumption == None \notin Seq(ToRelay)

ClientTypeOK ==
    /\ os \in [Device -> Content \cup {None}]
    /\ seen \in [Device -> Content \cup {None}]
    /\ polled \in [Device -> Content \cup {None}]
    /\ inHand \in [Device -> Seq(Signal)]
    /\ writing \in [Device -> Signal \cup {None}]

NetTypeOK ==
    /\ conn \in [Device -> BOOLEAN]
    /\ registered \in [Device -> BOOLEAN]
    /\ up \in [Device -> Seq(ToRelay)]
    /\ closing \in [Device -> Seq(ToRelay) \cup {None}]
    /\ down \in [Device -> Seq(Batch)]

RelayTypeOK ==
    /\ head \in Seq(Signal) /\ Len(head) <= HeadDepth
    /\ relayEpoch \in Epoch
    /\ dropped \in BOOLEAN

HistoryTypeOK ==
    /\ issued \subseteq Key
    /\ lost \subseteq Key
    /\ copied \in [Device -> Nat]
    /\ published \in [Device -> Nat]
    /\ restarted \in [Device -> Nat]
    /\ altered \in [Device -> Nat]

BoundsTypeOK ==
    /\ drops \in [Device -> Nat]
    /\ toggles \in [Device -> Nat]
    /\ failures \in [Device -> Nat]
    /\ limit \in Limits

TypeOK ==
    /\ EngineTypeOK
    /\ ClientTypeOK
    /\ NetTypeOK
    /\ RelayTypeOK
    /\ HistoryTypeOK
    /\ BoundsTypeOK

\* The apps have started, the relay is up, nothing has been copied yet.
Init ==
    /\ EngineInit
    /\ os = [d \in Device |-> None]
    /\ seen = [d \in Device |-> None]
    /\ polled = [d \in Device |-> None]
    /\ inHand = [d \in Device |-> <<>>]
    /\ writing = [d \in Device |-> None]
    /\ conn = [d \in Device |-> FALSE]
    /\ registered = [d \in Device |-> FALSE]
    /\ up = [d \in Device |-> <<>>]
    /\ closing = [d \in Device |-> None]
    /\ down = [d \in Device |-> <<>>]
    /\ head = <<>>
    /\ relayEpoch = 0
    /\ dropped = FALSE
    /\ issued = {}
    /\ lost = {}
    /\ copied = [d \in Device |-> 0]
    /\ published = [d \in Device |-> 0]
    /\ restarted = [d \in Device |-> 0]
    /\ altered = [d \in Device |-> 0]
    /\ drops = [d \in Device |-> 0]
    /\ toggles = [d \in Device |-> 0]
    /\ failures = [d \in Device |-> 0]
    /\ limit \in Limits

-----------------------------------------------------------------------------
(* The user and the clipboard loop.                                        *)

\* The user puts a clip on the OS clipboard: in another program, or with
\* copy_history_item, which writes past the watcher.
UserCopy(d, c) ==
    /\ copied[d] < limit.copies[d]
    /\ c \in limit.clips
    /\ copied' = [copied EXCEPT ![d] = @ + 1]
    /\ os' = [os EXCEPT ![d] = c]
    /\ UNCHANGED <<engineVars, seen, polled, inHand, writing, netVars, relayVars,
                   issued, published, restarted, altered, lost, bounds>>

\* PollingWatcher::poll under the watcher lock: a clip that differs from the
\* one last seen is handed out once.
Poll(d) ==
    /\ polled[d] = None
    /\ os[d] # None
    /\ os[d] # seen[d]
    /\ polled' = [polled EXCEPT ![d] = os[d]]
    /\ seen' = [seen EXCEPT ![d] = os[d]]
    /\ UNCHANGED <<engineVars, os, inHand, writing, netVars, relayVars, history, bounds>>

\* The rest of poll_clipboard under the core lock: a signal is published, and
\* sent if a session is up.
PublishCopy(d, w) ==
    /\ polled[d] # None
    /\ w \in limit.wall
    /\ EmitLocal(d, polled[d], w)
    /\ LET s == LocalSignal(d, polled[d], w)
       IN  /\ issued' = issued \cup {s.key}
           /\ IF conn[d]
              THEN /\ up' = [up EXCEPT ![d] = Append(@, [type |-> "signal", sig |-> s])]
                   /\ UNCHANGED lost
              ELSE /\ lost' = lost \cup {s.key}
                   /\ UNCHANGED up
    /\ published' = [published EXCEPT ![d] = @ + 1]
    /\ polled' = [polled EXCEPT ![d] = None]
    /\ UNCHANGED <<os, seen, inHand, writing, conn, registered, closing, down,
                   relayVars, copied, restarted, altered, bounds>>

\* The rest of poll_clipboard for a clip that stays at home.
KeepCopy(d) ==
    /\ polled[d] # None
    /\ KeepLocal(d, polled[d])
    /\ polled' = [polled EXCEPT ![d] = None]
    /\ UNCHANGED <<os, seen, inHand, writing, netVars, relayVars, history, bounds>>

-----------------------------------------------------------------------------
(* The session task.  It handles one message at a time, the signals of a   *)
(* Welcome in turn, and finishes writing the clipboard before it goes on.  *)

\* Ready for the next message.
Idle(d) == conn[d] /\ writing[d] = None /\ inHand[d] = <<>>

\* The signals to handle next: the rest of the message in hand, else the
\* next message.
Heard(d) == IF inHand[d] # <<>> THEN inHand[d] ELSE Head(down[d])

HasNext(d) ==
    /\ conn[d]
    /\ writing[d] = None
    /\ inHand[d] # <<>> \/ down[d] # <<>>

\* The first of them is taken off.
TakeSignal(d) ==
    /\ inHand' = [inHand EXCEPT ![d] = Tail(Heard(d))]
    /\ down' = IF inHand[d] # <<>> THEN down ELSE [down EXCEPT ![d] = Tail(@)]

\* apply_signal without a decision to write, or with one to fetch.
HearSignal(d) ==
    /\ HasNext(d)
    /\ LET s == Head(Heard(d))
       IN RejectSignal(d, s) \/ SupersededSignal(d, s) \/ NeedFetch(d, s)
    /\ TakeSignal(d)
    /\ UNCHANGED <<os, seen, polled, writing, conn, registered, up, closing,
                   relayVars, history, bounds>>

\* apply_signal deciding to apply; the core lock is released before the write.
HearInline(d) ==
    /\ HasNext(d)
    /\ ApplyInline(d, Head(Heard(d)))
    /\ writing' = [writing EXCEPT ![d] = Head(Heard(d))]
    /\ TakeSignal(d)
    /\ UNCHANGED <<os, seen, polled, conn, registered, up, closing,
                   relayVars, history, bounds>>

\* finish_fetch: the body of a pending signal is complete.
FinishFetch(d, p) ==
    /\ Idle(d)
    /\ \/ /\ ApplyFetched(d, p)
          /\ writing' = [writing EXCEPT ![d] = p]
       \/ /\ DropFetched(d, p)
          /\ UNCHANGED writing
    /\ UNCHANGED <<os, seen, polled, inHand, netVars, relayVars, history, bounds>>

\* A plausible slip: the watcher is not told what was written.
WriteClipboardUnnoted(d) ==
    /\ writing[d] # None
    /\ os' = [os EXCEPT ![d] = writing[d].content]
    /\ writing' = [writing EXCEPT ![d] = None]
    /\ UNCHANGED <<engineVars, seen, polled, inHand, netVars, relayVars, history, bounds>>

\* What the OS clipboard may give back of clip c once it is written: an image is
\* decoded for it and encoded anew when read, files are bundled anew from disk
\* under the names they were given there, text is text.
ReadsAs(c) ==
    IF c \in Images THEN Images ELSE IF c \in Files THEN Files ELSE {c}

\* The clipboard now reads as clip c, the watcher has noted clip last.  (Bound:
\* how often the two differ.)
Noted(d, c, last) ==
    /\ os' = [os EXCEPT ![d] = c]
    /\ seen' = [seen EXCEPT ![d] = last]
    /\ IF c = last
       THEN UNCHANGED altered
       ELSE /\ altered[d] < limit.altered[d]
            /\ altered' = [altered EXCEPT ![d] = @ + 1]

\* PollingWatcher::write of text or an image: what was received is noted, not
\* what the clipboard makes of it.
WriteContent(d) ==
    /\ writing[d].content \notin Files
    /\ \E c \in ReadsAs(writing[d].content) : Noted(d, c, writing[d].content)
    /\ UNCHANGED copied

\* PollingWatcher::write_file_paths: the clipboard is read back, and what it
\* reads as is noted, or nothing when that fails.
WriteFiles(d) ==
    /\ writing[d].content \in Files
    /\ \E c \in ReadsAs(writing[d].content) : Noted(d, c, c) \/ Noted(d, c, None)
    /\ UNCHANGED copied

\* The same when the user copies clip c before the clipboard is read back: the
\* copy is noted as what the app has written.
WriteFilesLate(d, c) ==
    /\ writing[d].content \in Files
    /\ copied[d] < limit.copies[d]
    /\ c \in limit.clips
    /\ copied' = [copied EXCEPT ![d] = @ + 1]
    /\ Noted(d, c, c)

\* apply_to_clipboard under the watcher lock.
WriteClipboard(d) ==
    /\ writing[d] # None
    /\ WriteContent(d) \/ WriteFiles(d) \/ \E c \in Content : WriteFilesLate(d, c)
    /\ writing' = [writing EXCEPT ![d] = None]
    /\ UNCHANGED <<engineVars, polled, inHand, netVars, relayVars, issued, published,
                   restarted, lost, bounds>>

\* The same when the files cannot be stored or the OS refuses: logged, no retry.
WriteFails(d) ==
    /\ writing[d] # None
    /\ failures[d] < limit.failures[d]
    /\ failures' = [failures EXCEPT ![d] = @ + 1]
    /\ writing' = [writing EXCEPT ![d] = None]
    /\ UNCHANGED <<engineVars, os, seen, polled, inHand, netVars, relayVars, history,
                   drops, toggles, limit>>

-----------------------------------------------------------------------------
(* The relay.  One lock: a message is handled in one step.                 *)

\* The queues of the devices after the relay has sent message m to those of S.
Sent(S, m) ==
    [d \in Device |-> IF d \in S /\ registered[d] THEN Append(down[d], m) ELSE down[d]]

\* A plausible slip: the cache is never trimmed.
CachedAll(s) == Append(head, s)

\* head_cache after signal s: at most HeadDepth, the oldest arrivals go first.
Cached(s) ==
    LET h == Append(head, s)
    IN  IF Len(h) > HeadDepth THEN Tail(h) ELSE h

\* A plausible slip: the Welcome leaves the cached signals out.
HandleHelloBare(d) == UNCHANGED <<head, dropped, down>>

\* Hello from d: the Welcome carries the cached signals, oldest first, to
\* whatever session is registered for d.
HandleHello(d) ==
    /\ down' = IF head = <<>> THEN down ELSE Sent({d}, head)
    /\ UNCHANGED <<head, dropped>>

\* A plausible slip: the fan-out goes back to the sender.
HandleSignalBack(d, s) ==
    /\ head' = Cached(s)
    /\ dropped' = (dropped \/ Len(head) = HeadDepth)
    /\ down' = Sent({d}, <<s>>)

\* ClipSignal from d: cached, then fanned out to everyone else.
HandleSignal(d, s) ==
    /\ head' = Cached(s)
    /\ dropped' = (dropped \/ Len(head) = HeadDepth)
    /\ down' = Sent(Device \ {d}, <<s>>)

Handle(d, m) ==
    \/ m.type = "hello" /\ HandleHello(d)
    \/ m.type = "signal" /\ HandleSignal(d, m.sig)

\* The relay handles the next message of a live session.
RelayReads(d) ==
    /\ up[d] # <<>>
    /\ Handle(d, Head(up[d]))
    /\ up' = [up EXCEPT ![d] = Tail(@)]
    /\ UNCHANGED <<engineVars, clientVars, conn, registered, closing, relayEpoch,
                   history, bounds>>

\* The relay handles a message a dead session left behind.
RelayReadsLate(d) ==
    /\ closing[d] \notin {None, <<>>}
    /\ Handle(d, Head(closing[d]))
    /\ closing' = [closing EXCEPT ![d] = Tail(@)]
    /\ UNCHANGED <<engineVars, clientVars, conn, registered, up, relayEpoch,
                   history, bounds>>

\* on_disconnect of a dead session: whatever session is registered for the
\* device goes, its own or a newer one.
RelayHangsUp(d) ==
    /\ closing[d] = <<>>
    /\ closing' = [closing EXCEPT ![d] = None]
    /\ registered' = [registered EXCEPT ![d] = FALSE]
    /\ UNCHANGED <<engineVars, clientVars, conn, up, down, relayVars, history, bounds>>

\* AppendEntry with an Epoch entry: the cache of the old key is dropped.
RelayRotates ==
    /\ relayEpoch < MaxEpoch /\ relayEpoch < limit.epoch
    /\ relayEpoch' = relayEpoch + 1
    /\ head' = <<>>
    /\ UNCHANGED <<engineVars, clientVars, netVars, dropped, history, bounds>>

-----------------------------------------------------------------------------
(* Keys, connections, settings, time.                                      *)

\* try_set_gk_from_wrap of a later epoch, or the rotator's own new key.
AdoptKey(d, e) ==
    /\ d \in limit.devices
    /\ e \in epoch[d] + 1 .. relayEpoch + 1
    /\ e \in Epoch /\ e <= limit.epoch
    /\ SetGroupKey(d, e)
    /\ UNCHANGED <<clientVars, netVars, relayVars, history, bounds>>

\* The keys of the signals among messages to the relay.
KeysOf(q) == {q[i].sig.key : i \in {j \in 1 .. Len(q) : q[j].type = "signal"}}

\* The session of d is gone, some of its last messages with it; the relay
\* has not noticed.  (Bound: one dead session at a time.)
Sever(d) ==
    /\ closing[d] = None
    /\ \E n \in 0 .. Len(up[d]) :
          /\ closing' = [closing EXCEPT ![d] = SubSeq(up[d], 1, n)]
          /\ lost' = lost \cup KeysOf(SubSeq(up[d], n + 1, Len(up[d])))
    /\ conn' = [conn EXCEPT ![d] = FALSE]
    /\ registered' = [registered EXCEPT ![d] = FALSE]
    /\ up' = [up EXCEPT ![d] = <<>>]
    /\ down' = [down EXCEPT ![d] = <<>>]

\* The connection breaks or the reconnect button is pressed: session ends
\* between two messages.
Disconnect(d) ==
    /\ Idle(d)
    /\ drops[d] < limit.drops[d]
    /\ drops' = [drops EXCEPT ![d] = @ + 1]
    /\ Sever(d)
    /\ UNCHANGED <<engineVars, clientVars, relayVars, issued, copied, published,
                   restarted, altered, toggles, failures, limit>>

\* sb_net::connect, on_connect on the relay, and session up to its Hello.
Connect(d) ==
    /\ d \in limit.devices
    /\ ~conn[d]
    /\ conn' = [conn EXCEPT ![d] = TRUE]
    /\ registered' = [registered EXCEPT ![d] = TRUE]
    /\ up' = [up EXCEPT ![d] = <<[type |-> "hello"]>>]
    /\ UNCHANGED <<engineVars, clientVars, closing, down, relayVars, history, bounds>>

\* The app quits and starts again; the OS clipboard keeps its content.
Restart(d) ==
    /\ restarted[d] < limit.restarts[d]
    /\ restarted' = [restarted EXCEPT ![d] = @ + 1]
    /\ EngineRestart(d)
    /\ seen' = [seen EXCEPT ![d] = None]
    /\ polled' = [polled EXCEPT ![d] = None]
    /\ inHand' = [inHand EXCEPT ![d] = <<>>]
    /\ writing' = [writing EXCEPT ![d] = None]
    /\ IF conn[d] THEN Sever(d) ELSE UNCHANGED <<netVars, lost>>
    /\ UNCHANGED <<os, relayVars, issued, copied, published, altered, bounds>>

\* set_sync_enabled.
Toggle(d) ==
    /\ toggles[d] < limit.toggles[d]
    /\ toggles' = [toggles EXCEPT ![d] = @ + 1]
    /\ SetEnabled(d)
    /\ UNCHANGED <<clientVars, netVars, relayVars, history, drops, failures, limit>>

\* Two seconds pass for one id.
Expire(d, id) ==
    /\ GraceExpires(d, id)
    /\ UNCHANGED <<clientVars, netVars, relayVars, history, bounds>>

-----------------------------------------------------------------------------

DeviceStep(d) ==
    \/ \E c \in Content : UserCopy(d, c)
    \/ Poll(d)
    \/ \E w \in Wall : PublishCopy(d, w)
    \/ KeepCopy(d)
    \/ HearSignal(d)
    \/ HearInline(d)
    \/ \E p \in pending[d] : FinishFetch(d, p)
    \/ WriteClipboard(d)
    \/ WriteFails(d)
    \/ \E e \in Epoch : AdoptKey(d, e)
    \/ Disconnect(d)
    \/ Connect(d)
    \/ Restart(d)
    \/ Toggle(d)
    \/ \E id \in grace[d] : Expire(d, id)

RelayStep(d) ==
    \/ RelayReads(d)
    \/ RelayReadsLate(d)
    \/ RelayHangsUp(d)

Next == (\E d \in Device : DeviceStep(d) \/ RelayStep(d)) \/ RelayRotates

Spec == Init /\ [][Next]_vars

\* What the scheduling gives: both tasks of a device keep running, the worker
\* redials until it has a session, the relay reads what arrives.  No body has
\* to arrive, no id has to expire, nobody has to copy.
Fairness ==
    \A d \in Device :
        /\ WF_vars(Poll(d))
        /\ WF_vars(KeepCopy(d) \/ \E w \in Wall : PublishCopy(d, w))
        /\ WF_vars(HearSignal(d) \/ HearInline(d))
        /\ WF_vars(WriteClipboard(d))
        /\ WF_vars(Connect(d))
        /\ WF_vars(RelayReads(d))

FairSpec == Spec /\ Fairness

-----------------------------------------------------------------------------
(* Safety.                                                                 *)

\* The clock of a device never falls behind a key it applied or has asked the
\* body of; the next local copy therefore beats them all.  on_local_clipboard
\* makes its key current without comparing (engine.rs), which is only right
\* because of this.
LamportDominates ==
    \A d \in Device :
        /\ current[d] # None => current[d].lamport <= lamport[d]
        /\ \A p \in pending[d] : p.key.lamport <= lamport[d]

\* Every fetch under way is for a body sealed under the key now held: a body
\* of an older epoch is never waited for, nor opened with the wrong key
\* (set_group_key and on_content_fetched).
PendingUnderCurrentKey ==
    \A d \in Device : \A p \in pending[d] : p.epoch = epoch[d]

\* A received clip is published again only where the clipboard gave back something
\* else than PollingWatcher noted: a device publishes at most once for every clip
\* its user copied, every start of the app, which reads the clipboard afresh, and
\* every write that reads otherwise than noted, that is an image the OS re-encodes
\* or files that could not be read back.  Text is never sent back.  "clients never
\* republish what they received" (PLAN.md:600) holds as far as that.  A write and
\* the poll after it must agree on PollingWatcher.last for this, whatever happens
\* between the two.
NoEcho ==
    \A d \in Device : published[d] <= copied[d] + restarted[d] + altered[d]

\* Nothing of d is on its way.
AtRest(d) ==
    /\ Idle(d)
    /\ registered[d]
    /\ <<up[d], down[d], closing[d], polled[d]>> = <<<<>>, <<>>, None, None>>
    /\ os[d] \in {None, seen[d]}

\* No key has been rotated; d has not switched sync off and pulls no body.
Undisturbed(d) ==
    /\ relayEpoch = 0 /\ \A e \in Device : epoch[e] = 0
    /\ toggles[d] = 0
    /\ pending[d] = {}

\* A device that is connected and idle has taken, or holds something newer
\* than, every inline signal of another device that the relay still caches,
\* however often it was offline or restarted meanwhile (Hello and Welcome).
RelayCatchUp ==
    \A d \in Device :
        AtRest(d) /\ Undisturbed(d) =>
            \A i \in 1 .. Len(head) :
                LET s == head[i]
                IN  s.content \in Inline /\ s.key.origin # d
                        => ~WouldApply(current[d], s.key)

\* Two connected, idle devices hold the same key, unless one of them holds a
\* copy that never reached the relay or was restarted, the relay has dropped a
\* signal to make room, or there is a body to pull.  This rests on the tie
\* breakers of LwwKey.  That few keys were issued would not do: an app that was
\* restarted may issue a key once more.
AgreeAtRest ==
    \A d, e \in Device :
        (/\ AtRest(d) /\ Undisturbed(d) /\ restarted[d] = 0
         /\ AtRest(e) /\ Undisturbed(e) /\ restarted[e] = 0
         /\ {current[d], current[e]} \cap lost = {}
         /\ ~dropped
         /\ \A i \in 1 .. Len(head) : head[i].content \in Inline)
            => current[d] = current[e]

\* The engines of all devices implement the last-writer-wins register: keys
\* only grow, and only published keys are taken.
Register == INSTANCE LwwRegister WITH current <- current, issued <- issued
ImplementsRegister == Register!Spec

-----------------------------------------------------------------------------
(* Liveness.                                                               *)

\* Nothing breaks or fails, the clipboards give back what was written, and the
\* key and the switch stay as they are.
Peaceful ==
    /\ limit.epoch = 0
    /\ \A d \in Device :
          limit.drops[d] + limit.restarts[d] + limit.toggles[d] + limit.failures[d]
             + limit.altered[d] = 0

\* In peace all devices end up with the same key for good, unless a signal was
\* lost.
EventuallyAgree ==
    \/ ~Peaceful
    \/ <>(lost # {})
    \/ <>[](\A d, e \in limit.devices : current[d] = current[e])

-----------------------------------------------------------------------------
(* What documents of the repository say and the code does not do.          *)

\* "key(incoming) > key(current_applied) only then is the local clipboard
\* changed" (crates/sb-proto/src/ids.rs:38): a clip the session task decides
\* to write beats the one applied at that moment.
AppliesOnlyWinners ==
    [][\A d \in Device :
          (writing[d] = None /\ writing'[d] # None)
              => WouldApply(current[d], writing'[d].key)]_vars

\* "a second connection of the same device_id replaces the first" (PLAN.md:381):
\* the relay can always reach the session a device has.
NewSessionReplacesOld ==
    \A d \in Device : conn[d] => registered[d]
=============================================================================
