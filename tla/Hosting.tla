------------------------------ MODULE Hosting ------------------------------
(***************************************************************************)
(* How an app gets to its relay and how it serves one: the onboarding      *)
(* commands and the embedded relay (src-tauri/src/commands.rs), the worker *)
(* with its session (worker.rs), the relay's side of it with its log on    *)
(* disk (crates/sb-server/src/lib.rs, main.rs), and what the app finds on  *)
(* disk when it starts (main.rs, sb-store).                                *)
(*                                                                         *)
(* There are one app, its embedded relay, an sb-server on another machine, *)
(* and another device that uses the embedded relay.  Each action is what a *)
(* task does between two awaits.  The commands of the window come one at a *)
(* time (busy in App.svelte), the reset and a link at any moment.  An      *)
(* address stands for itself and the fingerprint set along with it.  How   *)
(* members treat each other's log entries is in Membership.                *)
(***************************************************************************)
EXTENDS Naturals, Sequences, SequencesExt

CONSTANTS
    None,    \* Option::None
    Limits   \* bounds on what happens, of which a behaviour has one

\* How often the user hosts, creates a workspace on sb-server, joins, follows a
\* link, resets, stops or restarts hosting, switches sync and saves the
\* settings page; how often the app and sb-server are restarted, a connection
\* breaks and a file cannot be written; how many entries other devices append;
\* and whether sb-server has a workspace at the start.
Count == {"host", "create", "join", "link", "reset", "stop", "switch", "page", "app", "relay",
          "break", "file", "entry"}
Limit == [count : [Count -> Nat], taken : BOOLEAN]

ASSUME HostingAssumption == Limits \subseteq Limit

VARIABLES
    settings,   \* addr, fp and host of Core.settings.server, sync.enabled; fp is
                \* Core.server_fp too, which is set wherever this is
    enabled,    \* SyncEngine.enabled
    page,       \* the settings the window has read, None until it has
    core,       \* log, pending, joining, hosting and connected of Core, and the
                \* workspace made here that current_gk is of
    permit,     \* Core.reconnect: a wake-up is stored
    session,    \* where the worker is, and its connection
    jobs,       \* how far each command that awaits in the middle has come
    relays,     \* the instances of Shared: of sb-server, and of the embedded relay
    listener,   \* the instance that accepts connections of others here, 0 for none
    peer,       \* the instance the other device is connected to, 0 for none
    disk,       \* settings.json, group.key, server.signing and server.kem, wslog.cbor
                \* of both relays
    used,       \* how much of each bound is used
    limit,      \* the bounds of this behaviour
    pinned,     \* history: the fingerprint the other device has seen, 0 for none
    claimed,    \* history: the workspaces a relay has taken
    stray,      \* history: the claim of a workspace was replaced or cleared unsent
    twin,       \* history: an embedded relay that was stopped went on taking entries
    blind       \* history: a workspace was made here by an app that has not seen the
                \* log of the one its embedded relay has

appVars == <<settings, enabled, page, core, permit>>
relayVars == <<relays, listener, peer>>
past == <<pinned, claimed, stray, twin, blind>>
hostVars == <<appVars, session, jobs, relayVars, disk, used, limit, past>>

Addr == {"own", "ext"}

\* fp: whose fingerprint it is.
SetUp == [addr : Addr \cup {None}, fp : Addr \cup {None}, host : BOOLEAN, sync : BOOLEAN]

\* An entry of a workspace log, as far as told apart here.
Entry == [kind : {"create", "add", "other"}, by : {"me", "they"}, n : Nat]

\* Core.pending: a workspace to claim, or None; a join has no data.
Pending == [claims : Entry \cup {None}, token : Nat]

\* Option::None is neither of them.
ASSUME NoneAssumption == None \notin Entry \cup Pending

\* An instance of Shared.  A token of 0 is none.
Relay == [log : Seq(Entry), token : Nat, fp : Nat]
Ext == 1
At(i) == IF i = Ext THEN "ext" ELSE "own"
SetupToken == 1

\* loop: where a turn begins.  wait: for a wake-up.  dial: connecting to target.
\* open: before the pending action is read.  claim, claimed, refused; fetch,
\* add, added: of claim_workspace and guest_join.  hello: before the Hello is
\* sent.  greet: before the core is told.  online: the receive loop.  down:
\* before the next turn.
Phase == {"loop", "wait", "dial", "open", "claim", "claimed", "refused", "fetch",
          "add", "added", "hello", "greet", "online", "down"}
Claiming == {"claim", "claimed", "refused"}
Joining == {"fetch", "add", "added"}

NoSession == [phase |-> "down", target |-> None, pin |-> None, relay |-> 0, up |-> FALSE,
              copy |-> None, draft |-> <<>>, inbox |-> <<>>]

Step == {"idle", "asked", "signing", "bind", "bound", "rest"}
Job == {"startup", "host", "restart", "join", "reset"}

HostTypeOK ==
    /\ settings \in SetUp
    /\ enabled \in BOOLEAN
    /\ page = None \/ page \in SetUp
    /\ core.log \in Seq(Entry)
    /\ core.key = None \/ core.key \in Entry
    /\ core.pending = None \/ core.pending \in Pending
    /\ {core.joining, core.hosting, core.connected, permit, stray, twin, blind} \subseteq BOOLEAN
    /\ session.phase \in Phase
    /\ session.relay \in 0 .. Len(relays)
    /\ session.phase \in {"open", "hello", "greet", "online"} \cup Claiming \cup Joining
          => session.relay # 0
    /\ \A j \in Job : jobs[j].step \in Step /\ jobs[j].id \in Nat
    /\ relays \in Seq(Relay) /\ relays # <<>>
    /\ {listener, peer} \subseteq 0 .. Len(relays) \ {Ext}
    /\ disk.settings \in SetUp
    /\ used \in [Count -> Nat] /\ limit \in Limits /\ pinned \in Nat
    /\ claimed \subseteq Entry

-----------------------------------------------------------------------------

First == [kind |-> "create", by |-> "they", n |-> 0]

\* A new installation; sb-server is new or has the workspace of others.
HostInit ==
    /\ limit \in Limits
    /\ settings = [addr |-> None, fp |-> None, host |-> FALSE, sync |-> TRUE]
    /\ enabled = TRUE
    /\ page = None
    /\ core = [log |-> <<>>, key |-> None, pending |-> None, joining |-> FALSE,
               hosting |-> FALSE, connected |-> FALSE]
    /\ permit = FALSE
    /\ session = [NoSession EXCEPT !.phase = "loop"]
    /\ jobs = [j \in Job |-> [step |-> "idle", id |-> 0]]
    /\ relays = <<[log |-> IF limit.taken THEN <<First>> ELSE <<>>, token |-> SetupToken, fp |-> 0]>>
    /\ listener = 0
    /\ peer = 0
    /\ disk = [settings |-> settings, key |-> None, signing |-> 0, kem |-> 0,
               ext |-> relays[Ext].log, own |-> <<>>]
    /\ used = [c \in Count |-> 0]
    /\ pinned = 0
    /\ claimed = {}
    /\ stray = FALSE
    /\ twin = FALSE
    /\ blind = FALSE

-----------------------------------------------------------------------------
(* Helpers.                                                                *)

\* Some things that are bounded have happened.
Spend(counts) ==
    /\ \A c \in counts : used[c] < limit.count[c]
    /\ used' = [c \in Count |-> used[c] + (IF c \in counts THEN 1 ELSE 0)]

\* A file operation that fails is one of them.
File(ok) == IF ok THEN {} ELSE {"file"}

\* What this device has been asked to do.
Asked == used.host + used.create + used.join + used.link

Mine(kind, n) == [kind |-> kind, by |-> "me", n |-> n]

\* The workspace of a log; None when verify_chain refuses the log.
WorkspaceOf(log) == IF log # <<>> /\ log[1].kind = "create" THEN log[1] ELSE None

\* Whether the log makes this device a member.
Member(log) == \E i \in DOMAIN log : log[i].by = "me"

\* save_json: the file is replaced, or it stays.
Saved(s, ok) == [disk EXCEPT !.settings = IF ok THEN s ELSE @]

\* A plausible slip: what the relay was told stays in memory.
LoggedOnly(i, log, ok) ==
    /\ relays' = [relays EXCEPT ![i].log = log]
    /\ UNCHANGED disk

\* The log of instance i, written in place by save_log; when that fails the
\* file is as it was or torn, and a torn one reads as an empty log.
Logged(i, log, ok) ==
    /\ relays' = [relays EXCEPT ![i].log = log]
    /\ \E written \in IF ok THEN {log} ELSE {disk[At(i)], <<>>} :
          disk' = [disk EXCEPT ![At(i)] = written]

Goes(j, step) == [jobs EXCEPT ![j].step = step]
Busy == \E j \in {"host", "restart", "join"} : jobs[j].step # "idle"

\* An embedded relay after which another one was started.
Replaced(i) == i \notin {Ext, Len(relays)}

\* A claim in Core.pending that no session is making: dropped, it is never made.
Unsent ==
    /\ core.pending # None /\ core.pending.claims # None
    /\ ~(session.phase \in Claiming /\ session.copy = core.pending)

-----------------------------------------------------------------------------
(* The embedded relay.                                                     *)

\* Where a command goes on when the relay is up.
Done(j) == IF j = "startup" THEN "idle" ELSE "rest"

\* start_embedded_server: hosting already, or with the identity on disk, or
\* with one to be made, of which the first of two files is written.
StartReads(j) ==
    /\ jobs[j].step = "asked"
    /\ \/ /\ core.hosting
          /\ jobs' = Goes(j, Done(j))
          /\ UNCHANGED <<disk, used>>
       \/ /\ ~core.hosting /\ disk.signing # 0 /\ disk.kem # 0
          /\ jobs' = [jobs EXCEPT ![j] = [step |-> "bind", id |-> disk.signing]]
          /\ UNCHANGED <<disk, used>>
       \/ /\ ~core.hosting /\ (disk.signing = 0 \/ disk.kem = 0)
          /\ jobs' = [jobs EXCEPT ![j] = [step |-> "signing", id |-> disk.signing + 1]]
          /\ disk' = [disk EXCEPT !.signing = @ + 1]
          /\ UNCHANGED used
    /\ UNCHANGED <<appVars, session, relayVars, limit, past>>

\* A plausible slip: a relay whose identity could not be kept is started.
StartKeepsAnyway(j) ==
    /\ jobs[j].step = "signing"
    /\ \E ok \in BOOLEAN :
          /\ Spend(File(ok))
          /\ jobs' = Goes(j, "bind")
          /\ disk' = [disk EXCEPT !.kem = IF ok THEN jobs[j].id ELSE @]
    /\ UNCHANGED <<appVars, session, relayVars, limit, past>>

\* The second file of the identity: without it nothing is started.
StartKeeps(j) ==
    /\ jobs[j].step = "signing"
    /\ \E ok \in BOOLEAN :
          /\ Spend(File(ok))
          /\ jobs' = Goes(j, IF ok THEN "bind" ELSE "idle")
          /\ disk' = [disk EXCEPT !.kem = IF ok THEN jobs[j].id ELSE @]
    /\ UNCHANGED <<appVars, session, relayVars, limit, past>>

\* The port is bound, the log read from disk, and the relay runs; the core does
\* not know yet.
StartBinds(j) ==
    /\ jobs[j].step = "bind" /\ listener = 0
    /\ relays' = Append(relays, [log |-> disk.own, fp |-> jobs[j].id,
                                 token |-> IF j = "host" THEN used.host + SetupToken ELSE 0])
    /\ listener' = Len(relays')
    /\ jobs' = Goes(j, "bound")
    /\ UNCHANGED <<appVars, session, peer, disk, used, limit, past>>

\* The port is taken, by a relay of this app or by another program, or the
\* identity cannot be read.
StartFails(j) ==
    /\ \/ jobs[j].step = "bind" /\ listener # 0 /\ UNCHANGED used
       \/ jobs[j].step = "bind" /\ Spend({"file"})
       \/ jobs[j].step = "asked" /\ ~core.hosting /\ Spend({"file"})
    /\ jobs' = Goes(j, "idle")
    /\ UNCHANGED <<appVars, session, relayVars, disk, limit, past>>

\* The second lock of start_embedded_server.
Started(j) ==
    /\ jobs[j].step = "bound"
    /\ settings' = [settings EXCEPT !.addr = "own", !.fp = "own", !.host = TRUE]
    /\ core' = [core EXCEPT !.hosting = TRUE]
    /\ \E ok \in BOOLEAN : Spend(File(ok)) /\ disk' = Saved(settings', ok)
    /\ jobs' = Goes(j, Done(j))
    /\ UNCHANGED <<enabled, page, permit, session, relayVars, limit, past>>

\* A plausible slip: the task is let go of and not aborted.
StoppedNot == core' = [core EXCEPT !.hosting = FALSE] /\ UNCHANGED listener

\* stop_embedded_server: the task the core knows of ends, and with it the
\* listener; whoever is connected to the relay stays connected.
Stopped ==
    /\ core' = [core EXCEPT !.hosting = FALSE]
    /\ listener' = IF core.hosting THEN 0 ELSE listener

\* stop_hosting, and the first part of restart_hosting and of reset_onboarding.
Stop(count, jobs_) ==
    /\ Stopped
    /\ settings' = [settings EXCEPT !.host = FALSE]
    /\ \E ok \in BOOLEAN : Spend({count} \cup File(ok)) /\ disk' = Saved(settings', ok)
    /\ jobs' = jobs_
    /\ UNCHANGED <<enabled, page, permit, session, relays, peer, limit, past>>

StopHosting == ~Busy /\ core.hosting /\ Stop("stop", jobs)

RestartHosting == ~Busy /\ core.hosting /\ Stop("stop", Goes("restart", "asked"))

\* The rest of restart_hosting.
Restarted ==
    /\ jobs["restart"].step = "rest"
    /\ jobs' = Goes("restart", "idle")
    /\ permit' = TRUE
    /\ UNCHANGED <<settings, enabled, page, core, session, relayVars, disk, used, limit, past>>

-----------------------------------------------------------------------------
(* Onboarding: the window shows it while no relay is set.                  *)

HostWorkspace ==
    /\ ~Busy /\ settings.addr = None
    /\ Spend({"host"})
    /\ jobs' = Goes("host", "asked")
    /\ UNCHANGED <<appVars, session, relayVars, disk, limit, past>>

\* A plausible slip: a workspace is made each time.
HostedAnew ==
    /\ jobs["host"].step = "rest"
    /\ jobs' = Goes("host", "idle")
    /\ LET ws == Mine("create", Asked)
       IN  /\ core' = [core EXCEPT !.log = <<ws>>, !.key = ws,
                                   !.pending = [claims |-> ws, token |-> used.host + SetupToken]]
           /\ disk' = [disk EXCEPT !.settings = settings, !.key = ws]
    /\ permit' = TRUE
    /\ blind' = (blind \/ (core.log = <<>> /\ disk.own # <<>>))
    /\ UNCHANGED <<settings, enabled, page, session, relayVars, used, limit, pinned, claimed,
                   stray, twin>>

\* The rest of host_workspace: the app that has a log only reconnects; another
\* makes a workspace and its key and asks the worker to claim it, or gives up
\* when the key cannot be kept.
Hosted ==
    /\ jobs["host"].step = "rest"
    /\ jobs' = Goes("host", "idle")
    /\ \E ok \in BOOLEAN :
          LET ws == Mine("create", Asked)
          IN  /\ Spend(File(ok))
              /\ \/ /\ core.log # <<>>
                    /\ permit' = TRUE
                    /\ disk' = Saved(settings, ok)
                    /\ UNCHANGED <<core, blind>>
                 \/ /\ core.log = <<>> /\ ~ok
                    /\ UNCHANGED <<core, permit, disk, blind>>
                 \/ /\ core.log = <<>>
                    /\ core' = [core EXCEPT !.log = <<ws>>, !.key = ws,
                                   !.pending = [claims |-> ws, token |-> used.host + SetupToken]]
                    /\ permit' = TRUE
                    /\ disk' = [Saved(settings, ok) EXCEPT !.key = ws]
                    /\ blind' = (blind \/ disk.own # <<>>)
    /\ UNCHANGED <<settings, enabled, page, session, relayVars, limit, pinned, claimed, stray, twin>>

\* create_workspace on sb-server, with the right setup token or a wrong one;
\* nothing is done when the key cannot be kept.
CreateWorkspace ==
    /\ ~Busy /\ settings.addr = None /\ ~core.hosting
    /\ settings' = [settings EXCEPT !.addr = "ext", !.fp = "ext"]
    /\ \E ok \in BOOLEAN, token \in {SetupToken, 0} :
          LET ws == Mine("create", Asked + 1)
          IN  /\ Spend({"create"} \cup File(ok))
              /\ core' = [core EXCEPT !.log = <<ws>>, !.key = ws, !.joining = TRUE,
                                      !.pending = [claims |-> ws, token |-> token]]
              /\ disk' = [Saved(settings', ok) EXCEPT !.key = ws]
    /\ permit' = TRUE
    /\ UNCHANGED <<enabled, page, session, jobs, relayVars, limit, past>>

\* configure_server, with which a join by hand begins: nothing follows when the
\* settings cannot be saved.
ConfigureServer ==
    /\ ~Busy /\ settings.addr = None
    /\ settings' = [settings EXCEPT !.addr = "ext", !.fp = "ext"]
    /\ \E ok \in BOOLEAN :
          /\ Spend({"join"} \cup File(ok))
          /\ disk' = Saved(settings', ok)
          /\ permit' = (permit \/ ok)
          /\ jobs' = IF ok THEN Goes("join", "rest") ELSE jobs
    /\ UNCHANGED <<enabled, page, core, session, relayVars, limit, past>>

ToJoin == [core EXCEPT !.pending = [claims |-> None, token |-> 0], !.joining = TRUE]

\* join_workspace.
JoinWorkspace ==
    /\ jobs["join"].step = "rest"
    /\ jobs' = Goes("join", "idle")
    /\ core' = ToJoin
    /\ permit' = TRUE
    /\ stray' = (stray \/ Unsent)
    /\ UNCHANGED <<settings, enabled, page, session, relayVars, disk, used, limit, pinned, claimed,
                   twin, blind>>

\* A plausible slip: the worker is not woken.
LinkUnnoticed ==
    /\ settings' = [settings EXCEPT !.addr = "ext", !.fp = "ext"]
    /\ \E ok \in BOOLEAN : Spend({"link"} \cup File(ok)) /\ disk' = Saved(settings', ok)
    /\ core' = ToJoin
    /\ stray' = (stray \/ Unsent)
    /\ UNCHANGED <<enabled, page, permit, session, jobs, relayVars, limit, pinned, claimed, twin,
                   blind>>

\* apply_join_link: a link of a member of sb-server.
JoinByLink ==
    /\ settings' = [settings EXCEPT !.addr = "ext", !.fp = "ext"]
    /\ \E ok \in BOOLEAN : Spend({"link"} \cup File(ok)) /\ disk' = Saved(settings', ok)
    /\ core' = ToJoin
    /\ permit' = TRUE
    /\ stray' = (stray \/ Unsent)
    /\ UNCHANGED <<enabled, page, session, jobs, relayVars, limit, pinned, claimed, twin, blind>>

ResetOnboarding ==
    /\ settings.addr # None /\ jobs["reset"].step = "idle"
    /\ Stop("reset", Goes("reset", "rest"))

\* The rest of reset_onboarding: the log, the key and the session stay.
Reset ==
    /\ jobs["reset"].step = "rest"
    /\ jobs' = Goes("reset", "idle")
    /\ settings' = [settings EXCEPT !.addr = None, !.fp = None, !.host = FALSE]
    /\ core' = [core EXCEPT !.pending = None, !.joining = FALSE]
    /\ \E ok \in BOOLEAN : Spend(File(ok)) /\ disk' = Saved(settings', ok)
    /\ stray' = (stray \/ Unsent)
    /\ UNCHANGED <<enabled, page, permit, session, relayVars, limit, pinned, claimed, twin, blind>>

-----------------------------------------------------------------------------
(* The settings page and the switch of the tray.                           *)

\* set_sync_enabled, toggle_sync.
SwitchSync ==
    /\ settings' = [settings EXCEPT !.sync = ~@]
    /\ enabled' = settings'.sync
    /\ \E ok \in BOOLEAN : Spend({"switch"} \cup File(ok)) /\ disk' = Saved(settings', ok)
    /\ UNCHANGED <<page, core, permit, session, jobs, relayVars, limit, past>>

\* The window reads the settings when it is opened.
OpenPage ==
    /\ page = None /\ limit.count.page > 0
    /\ page' = settings
    /\ UNCHANGED <<settings, enabled, core, permit, session, jobs, relayVars, disk, used, limit, past>>

\* A plausible slip, and once the case: the page is taken as a whole.
MergeWhole(incoming) == incoming

\* merge_settings: what commands of their own set is kept.
Merge(incoming) ==
    [incoming EXCEPT !.addr = settings.addr, !.fp = settings.fp, !.host = settings.host]

\* update_settings, with what the window has read: nobody is woken when the
\* settings cannot be saved or name no relay.
SavePage ==
    /\ page # None
    /\ settings' = Merge(page)
    /\ enabled' = settings'.sync
    /\ \E ok \in BOOLEAN :
          /\ Spend({"page"} \cup File(ok))
          /\ disk' = Saved(settings', ok)
          /\ permit' = (permit \/ (ok /\ settings'.addr # None))
    /\ UNCHANGED <<page, core, session, jobs, relayVars, limit, past>>

-----------------------------------------------------------------------------
(* The worker.                                                             *)

\* A turn of run: where to connect to, if anywhere, and to whom.
Turn ==
    /\ session.phase = "loop" /\ jobs["startup"].step = "idle"
    /\ session' = [NoSession EXCEPT
                       !.phase = IF None \in {settings.addr, settings.fp} THEN "wait" ELSE "dial",
                       !.target = settings.addr, !.pin = settings.fp]
    /\ UNCHANGED <<appVars, jobs, relayVars, disk, used, limit, past>>

Woken ==
    /\ session.phase = "wait" /\ permit
    /\ permit' = FALSE
    /\ session' = [session EXCEPT !.phase = "loop"]
    /\ UNCHANGED <<settings, enabled, page, core, jobs, relayVars, disk, used, limit, past>>

\* The relay that answers at an address, 0 for none.
Answers(addr) == IF addr = "ext" THEN Ext ELSE IF addr = "own" THEN listener ELSE 0

\* The certificate of the relay that answers has the fingerprint asked for.
Connect ==
    /\ session.phase = "dial" /\ Answers(session.target) # 0 /\ session.pin = session.target
    /\ session' = [session EXCEPT !.phase = "open", !.relay = Answers(session.target), !.up = TRUE]
    /\ UNCHANGED <<appVars, jobs, relayVars, disk, used, limit, past>>

ConnectFails ==
    /\ session.phase = "dial"
    /\ session' = NoSession
    /\ UNCHANGED <<appVars, jobs, relayVars, disk, used, limit, past>>

\* Three seconds pass, or somebody wakes the worker.
Again ==
    /\ session.phase = "down"
    /\ session' = [NoSession EXCEPT !.phase = "loop"]
    /\ permit' \in {permit, FALSE}
    /\ UNCHANGED <<settings, enabled, page, core, jobs, relayVars, disk, used, limit, past>>

\* A plausible slip: whatever is pending is taken for a claim.
TakeClaim ==
    /\ session.phase = "open"
    /\ session' = [session EXCEPT !.copy = core.pending,
                                  !.phase = IF core.pending = None THEN "hello" ELSE "claim"]
    /\ UNCHANGED <<appVars, jobs, relayVars, disk, used, limit, past>>

\* session takes a copy of what is pending.
TakePending ==
    /\ session.phase = "open"
    /\ LET p == core.pending
       IN  session' = [session EXCEPT !.copy = p, !.phase =
                           IF p = None THEN "hello" ELSE IF p.claims = None THEN "fetch" ELSE "claim"]
    /\ UNCHANGED <<appVars, jobs, relayVars, disk, used, limit, past>>

\* A plausible slip: the workspace that was not taken stays.
FailKeeps(drop) ==
    /\ core' = [core EXCEPT !.pending = None, !.joining = FALSE, !.connected = FALSE]
    /\ settings' = [settings EXCEPT !.addr = None, !.fp = None]
    /\ session' = NoSession
    /\ stray' = (stray \/ (Unsent /\ ~drop))

\* fail_onboarding and the end of the session: what is pending goes, also if it
\* is newer than what failed, and the workspace with it if it was one.
Fail(drop) ==
    /\ core' = [core EXCEPT !.pending = None, !.joining = FALSE, !.connected = FALSE,
                            !.log = IF drop THEN <<>> ELSE @, !.key = IF drop THEN None ELSE @]
    /\ settings' = [settings EXCEPT !.addr = None, !.fp = None]
    /\ session' = NoSession
    /\ stray' = (stray \/ (Unsent /\ ~drop))

FailOnboarding(drop) ==
    /\ Fail(drop)
    /\ \E ok \in BOOLEAN : Spend(File(ok)) /\ disk' = Saved(settings', ok)
    /\ UNCHANGED <<enabled, page, permit, jobs, relayVars, limit, pinned, claimed, twin, blind>>

\* The relay turned the claim down, or the connection ended before its answer.
ClaimFails ==
    /\ \/ session.phase = "refused"
       \/ session.phase \in Claiming /\ ~session.up
    /\ FailOnboarding(TRUE)

\* claim_workspace has its answer.
ClaimAcked ==
    /\ session.phase = "claimed"
    /\ session' = [session EXCEPT !.phase = "hello"]
    /\ core' = [core EXCEPT !.pending = None]
    /\ stray' = (stray \/ Unsent)
    /\ UNCHANGED <<settings, enabled, page, permit, jobs, relayVars, disk, used, limit, pinned,
                   claimed, twin, blind>>

\* guest_join gets the log and the invitation, or does not.
GuestGetsLog ==
    /\ session.phase = "fetch" /\ session.up
    /\ session.relay = Ext /\ WorkspaceOf(relays[Ext].log) # None
    /\ session' = [session EXCEPT !.phase = "add", !.draft = relays[Ext].log]
    /\ UNCHANGED <<appVars, jobs, relayVars, disk, used, limit, past>>

GuestFails == session.phase = "fetch" /\ FailOnboarding(FALSE)

\* guest_join goes on after the answer, whatever it was, and without one.  The
\* fingerprint of the invitation is that of the relay asked, also when the
\* address has been set anew or reset by now; the settings are not saved.
GuestJoined ==
    /\ \/ session.phase = "added"
       \/ session.phase = "add" /\ ~session.up
    /\ session' = [session EXCEPT !.phase = "hello"]
    /\ core' = [core EXCEPT !.log = Append(session.draft, Mine("add", Asked))]
    /\ settings' = [settings EXCEPT !.fp = "ext"]
    /\ UNCHANGED <<enabled, page, permit, jobs, relayVars, disk, used, limit, past>>

\* Hello, and what the relay answers a member: the entries after the app's
\* head, or all when it has none.
SayHello ==
    /\ session.phase = "hello"
    /\ LET log == relays[session.relay].log
           tail == SubSeq(log, Len(core.log) + 1, Len(log))
       IN  session' = [session EXCEPT !.phase = "greet", !.inbox =
                           IF ~session.up \/ ~Member(log) THEN @
                           ELSE Append(@, [type |-> "welcome", entries |-> tail])]
    /\ UNCHANGED <<appVars, jobs, relayVars, disk, used, limit, past>>

\* The core is told: whatever is pending by now is cleared.
Greet ==
    /\ session.phase = "greet"
    /\ session' = [session EXCEPT !.phase = "online"]
    /\ core' = [core EXCEPT !.connected = TRUE, !.pending = None, !.joining = FALSE]
    /\ stray' = (stray \/ Unsent)
    /\ UNCHANGED <<settings, enabled, page, permit, jobs, relayVars, disk, used, limit, pinned,
                   claimed, twin, blind>>

\* The receive loop: the tail in Welcome replaces the log unless it is empty,
\* LogAppended adds to it.
Hear ==
    /\ session.phase = "online" /\ session.inbox # <<>>
    /\ session' = [session EXCEPT !.inbox = Tail(@)]
    /\ LET m == Head(session.inbox)
       IN  core' = [core EXCEPT !.log =
                       IF m.type = "appended" THEN @ \o m.entries
                       ELSE IF m.entries = <<>> THEN @ ELSE m.entries]
    /\ UNCHANGED <<settings, enabled, page, permit, jobs, relayVars, disk, used, limit, past>>

\* The connection has ended, or somebody wakes the worker.
EndSession ==
    /\ session.phase = "online"
    /\ \/ ~session.up /\ session.inbox = <<>> /\ UNCHANGED permit
       \/ permit /\ permit' = FALSE
    /\ session' = NoSession
    /\ core' = [core EXCEPT !.connected = FALSE]
    /\ UNCHANGED <<settings, enabled, page, jobs, relayVars, disk, used, limit, past>>

-----------------------------------------------------------------------------
(* The relays and the other devices.                                       *)

\* A plausible slip: a claim is taken whenever its token is right.
TakesClaimAgain(r, p) == r.token \in {0, p.token}

\* The relay takes the first claim with its token, or with any if it has none.
TakesClaim(r, p) == r.log = <<>> /\ r.token \in {0, p.token}

\* ClaimWorkspace at the relay.
RelayClaims ==
    /\ session.phase = "claim" /\ session.up
    /\ LET r == session.relay
           p == session.copy
       IN  \/ /\ TakesClaim(relays[r], p)
              /\ \E ok \in BOOLEAN : Spend(File(ok)) /\ Logged(r, <<p.claims>>, ok)
              /\ session' = [session EXCEPT !.phase = "claimed"]
              /\ claimed' = claimed \cup {p.claims}
              /\ twin' = (twin \/ Replaced(r))
           \/ /\ ~TakesClaim(relays[r], p)
              /\ session' = [session EXCEPT !.phase = "refused"]
              /\ UNCHANGED <<relays, disk, used, claimed, twin>>
    /\ UNCHANGED <<appVars, jobs, listener, peer, limit, pinned, stray, blind>>

\* The Add entry of guest_join at the relay: taken if nothing was added since,
\* and this device is not a member yet.
RelayAdds ==
    /\ session.phase = "add" /\ session.up
    /\ session' = [session EXCEPT !.phase = "added"]
    /\ \/ /\ session.draft = relays[Ext].log /\ ~Member(session.draft)
          /\ \E ok \in BOOLEAN :
                /\ Spend(File(ok))
                /\ Logged(Ext, Append(session.draft, Mine("add", Asked)), ok)
       \/ /\ session.draft # relays[Ext].log \/ Member(session.draft)
          /\ UNCHANGED <<relays, disk, used>>
    /\ UNCHANGED <<appVars, jobs, listener, peer, limit, past>>

\* The other device connects to the embedded relay, if it is the one it knows.
PeerConnects ==
    /\ peer = 0 /\ listener # 0 /\ limit.count.entry > 0
    /\ pinned \in {0, relays[listener].fp}
    /\ peer' = listener
    /\ pinned' = relays[listener].fp
    /\ UNCHANGED <<appVars, session, jobs, relays, listener, disk, used, limit, claimed, stray,
                   twin, blind>>

PeerLeaves ==
    /\ peer # 0
    /\ peer' = 0
    /\ UNCHANGED <<appVars, session, jobs, relays, listener, disk, used, limit, past>>

\* AppendEntry of another device at instance i, and the LogAppended for this one
\* if it is a member; guest_join and claim_workspace do not heed it.
OthersAppend(i) ==
    /\ i \in {Ext, peer} \ {0} /\ relays[i].log # <<>>
    /\ LET e == [kind |-> "other", by |-> "they", n |-> used.entry + 1]
           hears == session.relay = i /\ session.up /\ Member(relays[i].log)
                        /\ session.phase \notin {"claim", "fetch", "add"}
       IN  /\ \E ok \in BOOLEAN : Spend({"entry"} \cup File(ok)) /\ Logged(i, Append(relays[i].log, e), ok)
           /\ session' = [session EXCEPT !.inbox =
                  IF hears THEN Append(@, [type |-> "appended", entries |-> <<e>>]) ELSE @]
    /\ twin' = (twin \/ Replaced(i))
    /\ UNCHANGED <<appVars, jobs, listener, peer, limit, pinned, claimed, stray, blind>>

\* Another device makes a workspace on sb-server.
OthersClaim ==
    /\ relays[Ext].log = <<>>
    /\ \E ok \in BOOLEAN : Spend({"entry"} \cup File(ok)) /\ Logged(Ext, <<First>>, ok)
    /\ UNCHANGED <<appVars, session, jobs, listener, peer, limit, past>>

\* The network between this machine and sb-server.
Break ==
    /\ session.relay = Ext /\ session.up
    /\ Spend({"break"})
    /\ session' = [session EXCEPT !.up = FALSE]
    /\ UNCHANGED <<appVars, jobs, relayVars, disk, limit, past>>

\* sb-server ends and is started again, with the log on its disk.
RestartRelay ==
    /\ Spend({"relay"})
    /\ relays' = [relays EXCEPT ![Ext].log = disk.ext]
    /\ session' = [session EXCEPT !.up = @ /\ session.relay # Ext]
    /\ UNCHANGED <<appVars, jobs, listener, peer, disk, limit, past>>

\* The app ends, at any moment, and is started again: build_core, run.
RestartApp ==
    /\ Spend({"app"})
    /\ settings' = disk.settings
    /\ enabled' = settings'.sync
    /\ page' = None
    /\ core' = [log |-> <<>>, key |-> disk.key, pending |-> None, joining |-> FALSE,
                hosting |-> FALSE, connected |-> FALSE]
    /\ permit' = FALSE
    /\ session' = [NoSession EXCEPT !.phase = "loop"]
    /\ jobs' = [j \in Job |-> [step |-> IF j = "startup" /\ settings'.host THEN "asked" ELSE "idle",
                               id |-> 0]]
    /\ relays' = <<relays[Ext]>>
    /\ listener' = 0
    /\ peer' = 0
    /\ stray' = FALSE
    /\ twin' = FALSE
    /\ UNCHANGED <<disk, limit, pinned, claimed, blind>>

-----------------------------------------------------------------------------

\* start_embedded_server, of run, host_workspace and restart_hosting.
Start(j) == StartReads(j) \/ StartKeeps(j) \/ StartBinds(j) \/ StartFails(j) \/ Started(j)

Commands ==
    \/ \E j \in {"startup", "host", "restart"} : Start(j)
    \/ StopHosting \/ RestartHosting \/ Restarted
    \/ HostWorkspace \/ Hosted
    \/ CreateWorkspace
    \/ ConfigureServer \/ JoinWorkspace
    \/ JoinByLink
    \/ ResetOnboarding \/ Reset
    \/ SwitchSync \/ OpenPage \/ SavePage

Worker ==
    \/ Turn \/ Woken \/ Again
    \/ TakePending
    \/ ClaimFails \/ ClaimAcked
    \/ GuestGetsLog \/ GuestFails \/ GuestJoined
    \/ SayHello \/ Greet \/ Hear \/ EndSession

Others ==
    \/ Connect \/ ConnectFails
    \/ RelayClaims \/ RelayAdds
    \/ PeerConnects \/ PeerLeaves
    \/ \E i \in {Ext, peer} : OthersAppend(i)
    \/ OthersClaim
    \/ Break \/ RestartRelay \/ RestartApp

HostNext == Commands \/ Worker \/ Others

\* The worker runs, the relays answer, and who dials again and again gets
\* through to a relay that is there.  Nobody has to ask for anything.
HostFairness ==
    /\ WF_hostVars(Start("startup")) /\ WF_hostVars(Worker)
    /\ WF_hostVars(Connect \/ ConnectFails) /\ SF_hostVars(Connect)
    /\ WF_hostVars(RelayClaims) /\ WF_hostVars(RelayAdds)

HostSpec == HostInit /\ [][HostNext]_hostVars /\ HostFairness

-----------------------------------------------------------------------------
(* Properties.                                                             *)

\* A session that goes on is with the relay the settings name, or is about to
\* be woken, whatever commands and pages set them meanwhile.  A reset is no
\* reason for it to end, nor is stopping the relay here, nor a page or an
\* address that could not be saved.
OnlineWhereSettingsSay ==
    session.phase = "online" /\ session.up /\ used.file = 0 =>
        \/ permit
        \/ \E j \in {"host", "restart"} : jobs[j].step # "idle"
        \/ settings.addr = "own" /\ listener = 0
        \/ settings.addr = None /\ used.reset > 0
        \/ settings.addr # None /\ session.relay = Answers(settings.addr)

\* The port is held exactly while the app says that it hosts, but for the
\* moment before the core is told: a relay that nobody can stop would hold it
\* until the app ends.
PortFollowsHosting ==
    listener # 0 <=> core.hosting \/ \E j \in Job : jobs[j].step = "bound"

\* A workspace made here is one that a relay has taken, or its claim is still
\* pending or being made, unless it was overtaken by a join, a reset or the
\* greeting of a session that had begun before.
NoGhostWorkspace ==
    LET ws == WorkspaceOf(core.log)
    IN  ws # None /\ ws.by = "me" /\ ws \notin claimed =>
            \/ core.pending # None /\ core.pending.claims = ws
            \/ session.phase \in Claiming /\ session.copy.claims = ws
            \/ stray

\* What a relay has taken is on its disk, over all stops and starts, unless a
\* file could not be written or two embedded relays were writing it.
KeptOnDisk ==
    used.file = 0 /\ ~twin =>
        /\ disk.ext = relays[Ext].log
        /\ Len(relays) > 1 => disk.own = Last(relays).log

\* The embedded relay is the one the other device knows, however often it is
\* started and wherever the app ended before.
IdentityStays ==
    pinned # 0 => \A i \in DOMAIN relays \ {Ext} : relays[i].fp = pinned

\* A device that only hosts has the key of its workspace whenever it has its
\* log, unless it made another one without having seen the log.
OwnKeyKept ==
    LET ws == WorkspaceOf(core.log)
    IN  /\ limit.count.create + limit.count.join + limit.count.link + used.file = 0
        /\ ~blind /\ ws # None
        => core.key = ws

\* A relay adds to its log and never takes back or replaces what is in it.
RelayKeepsWorkspace ==
    [][\A i \in DOMAIN relays \cap DOMAIN relays' :
          \/ IsPrefix(relays[i].log, relays'[i].log)
          \/ used.file > 0 /\ RestartRelay]_hostVars

\* Creating or joining comes to an end while the relay is there: with a session
\* or with an error.
OnboardingEnds ==
    core.joining ~> (~core.joining \/ settings.addr = None \/ Answers(settings.addr) = 0)
=============================================================================
