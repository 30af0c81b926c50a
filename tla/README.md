# TLA+ models of shareboard

shareboard keeps the clipboards of a group of devices in step. Each device runs a desktop app
(`src-tauri/`); a relay (`crates/sb-server/`) forwards what they publish and cannot read it. Who belongs to
the group is written in a hash-chained, signed workspace log that the relay stores and every device verifies
for itself. The clips are sealed under a group key that the devices hand each other through the relay, and
that changes whenever a member is revoked.

This directory holds TLA+ models of that system, the TLC configurations that check them, and proofs for
TLAPS. Paths below are relative to the root of the repository.

## 1. Inventory

| Component | Code | State | Operations |
|---|---|---|---|
| LWW order | `crates/sb-proto/src/ids.rs`, `crates/sb-core/src/lww.rs` | Lamport clock, key applied last | `tick`, `merge_lamport`, `would_apply` |
| Sync engine | `crates/sb-core/src/engine.rs`, `suppress.rs` | `LwwState`, `pending`, suppression window, group key, sync switch, history, send cache | `on_local_clipboard`, `on_remote_signal`, `on_content_fetched`, `set_group_key`, `set_enabled` |
| Clipboard watcher | `crates/sb-clipboard/src/lib.rs` | `PollingWatcher.last` | `poll`, `write`, `write_file_paths` |
| Worker | `src-tauri/src/worker.rs` | `Core` (`out`, `log`, `workspace_id`, `current_gk`, `pending`, `joining`, assembly of chunks) | clipboard loop, reconnect loop, `session`, `handle_msg`, `apply_signal`, `finish_fetch`, `on_log_appended`, `guest_join`, `claim_workspace` |
| Commands | `src-tauri/src/commands.rs` | the same `Core` | `create_workspace`, `join_workspace`, `generate_invite`, `revoke_member`, `host_workspace`, history and settings commands |
| Relay | `crates/sb-server/src/lib.rs` | `Inner`: `sessions`, `log`, `epoch`, `head_cache`, `mailbox`, `invites`, `pending_pull`, profiles, claim token | `on_connect`, `on_disconnect`, `handle` (one arm per message), `load_log`, `save_log` |
| Workspace log | `crates/sb-crypto/src/wslog.rs` | none; a function of the entries | `verify_chain`, `build_*` |
| Wraps of the group key | `crates/sb-crypto/src/wrap.rs` | none | `build_signed_rotation`, `seal_rotation`, `open_rotation`, `verify_rotation` |
| Invitations | `crates/sb-crypto/src/invite.rs` | none; blob kept by the relay | `make_invite`, `build_add_from_blob` |
| History, body cache | `crates/sb-core/src/history.rs`, `src-tauri/src/core.rs` | ring with pins, bodies by id | `add`, `remove`, `set_pinned`, `cache_body`, `forget_body` |
| Image files | `src-tauri/src/images.rs`, `core.rs` | files in a folder of the user, links from items to them | `ensure_image_file`, `cleanup_images`, `prune_image_files` |
| Embedded relay | `src-tauri/src/worker.rs` | task, port, identity, log on disk | `start_embedded_server`, `stop_embedded_server` |
| Stores | `crates/sb-store/` | files | load, save, prune |
| Linux clipboard | `crates/sb-clipboard/src/x11_files.rs`, `uri_list.rs`, `arboard_backend.rs` | an offer, a window that owns the selection, a window that reads | `write_file_paths`, `serve`, `read_file_paths` |
| Transport | `crates/sb-net/`, `crates/sb-server/src/tls.rs` | a TLS connection of framed messages | `connect`, `split`, two pumps per side |
| UI, tray, other backends, scripts | the rest | presentation, operating-system calls | |

**How they interact.** In one app two tasks share two locks. The clipboard loop polls under the watcher lock,
releases it and publishes under the core lock. The session task decides what to do with a message under the
core lock, releases it and writes the clipboard under the watcher lock. A UI command is a third actor on the
core lock (`revoke_member` takes it twice and sends in between). The relay handles one message at a time
under a single lock. Between a device and the relay there is one ordered connection in either direction; the
relay may learn of its end later than the device, and the device may by then have another.

**What is hard**: the two gaps between the locks of one app; a break of the connection at any message; a
restart that forgets the clock, the log and the workspace id but not the key; a body that arrives after
something newer; log entries built on a head that has moved; wraps that name members who have changed since;
the relay's head cache and mailbox, which are emptied when they are sent and not when they arrive.

**What makes each part correct**

* LWW order: total, and the clock dominates every key seen, so that a local copy may become current without comparison.
* Engine and watcher: a received clip is published again at most where the clipboard gave back something else; a
  body is never awaited under an old key.
* Worker and relay: who is connected and idle has caught up; all idle devices agree; in the end all agree.
* Workspace log: every verifier derives the same members and epoch from the same accepted prefix.
* Membership: the relay never stores an entry others refuse; a device differs from the relay only by its own
  entries; a key reaches only those it was made for; its epoch never goes back; members agree at rest.
* Pulls: what the relay offers is kept by its origin and served until it expires; a body is complete or refused;
  nobody waits for good.
* History: the counters and orders of the caches are true; a body is that of its clip; pinned things stay.
* Hosting and onboarding: an intent is carried out or reported; the port is held exactly while hosting; what
  the relay has acknowledged is on its disk; who connected once meets the same identity again.
* Linux clipboard: the offer follows the ownership of the selection; what was written is not read as new.

## 2. Modules

| Module | Models | Uses |
|---|---|---|
| `Lww` | the key order and the Lamport clock, as operators | |
| `SyncEngine` | one engine per device; one operator per decision of the engine | `Lww` |
| `LwwRegister` | abstract specification: each device has a register that only moves to a newer published key | `Lww` |
| `ClipSync` | user, OS clipboard, watcher, both tasks, connections, relay | `SyncEngine`, `LwwRegister` by refinement |
| `MCClipSync` | instances for TLC | `ClipSync` |
| `ClipSyncProofs` | its theorems | `ClipSync` |
| `WsLog` | the rules of the workspace log, entry by entry; the entry builders | |
| `WsLogProofs` | what is proved of those rules | `WsLog` |
| `WsLogLoop` | `verify_chain` as the loop is written, as a recursive function, against the rules | `WsLog` |
| `WsLogLoopProofs` | its theorems | `WsLogLoop` |
| `MCWsLog` | bodies offered to the loop | `WsLogLoop` |
| `Membership` | relay log, mailbox and invitations; joins, revocations and wraps on every device | `WsLog` |
| `MCMembership` | instances for TLC | `Membership` |
| `MembershipProofs` | its theorems | `Membership`, `WsLogProofs` |
| `ContentPull` | requests, chunks, the send cache and the channels of a pull | |
| `ContentPullProofs` | its theorems | `ContentPull` |
| `MCContentPull` | instances for TLC | `ContentPull` |
| `ClipHistory` | the list of clips, bodies, thumbnails and image files of one device | |
| `MCClipHistory` | instances for TLC | `ClipHistory` |
| `ClipHistoryProofs` | its theorems | `ClipHistory` |
| `Hosting` | one app with its embedded relay, an sb-server, another device: onboarding, sessions, files | |
| `MCHosting` | instances for TLC | `Hosting` |
| `HostingProofs` | its theorems | `Hosting` |
| `X11Files` | writers, the owner's thread, the reader and other programs at the X11 clipboard | |
| `MCX11Files` | instances for TLC | `X11Files` |
| `X11FilesProofs` | its theorems | `X11Files` |

### State and actions of `SyncEngine` and `ClipSync`

| Model | Code |
|---|---|
| `lamport`, `current` | `LwwState` |
| `pending`, `grace`, `epoch`, `enabled` | `SyncEngine.pending`, `SuppressSet`, `gk`, `sync_enabled` |
| `os`, `seen` | the OS clipboard, `PollingWatcher.last` |
| `polled`, `writing`, `inHand` | locals of `poll_clipboard`, `apply_signal` and the loop over `Welcome.head`: what is in flight between two locks |
| `conn`, `registered` | `core.out`, `Inner.sessions` |
| `up`, `down`, `closing` | both directions of a connection, and what the relay has still to read from a dead one |
| `head`, `relayEpoch` | `Inner.head_cache`, `Inner.epoch` |
| `lost`, `dropped`, `altered` | history: keys of copies that never reached the relay; whether the relay has dropped a signal to make room; writes after which the clipboard read otherwise than the watcher noted |
| `Poll`, `PublishCopy`, `KeepCopy` | `PollingWatcher::poll`; the rest of `poll_clipboard` with `on_local_clipboard` |
| `HearSignal`, `HearInline` | `apply_signal` with every answer of `on_remote_signal` |
| `FinishFetch` | `finish_fetch`, `on_content_fetched` |
| `WriteClipboard`, `WriteFails` | `apply_to_clipboard`, with `PollingWatcher::write` (`WriteContent`) or `write_file_paths` (`WriteFiles`, `WriteFilesLate`) |
| `RelayReads`, `RelayReadsLate`, `RelayHangsUp`, `RelayRotates` | `Shared::handle` for `Hello`, `ClipSignal` and an Epoch entry, of a live and of a dead connection; `on_disconnect` |
| `Connect`, `Disconnect`, `Restart`, `Toggle`, `AdoptKey`, `Expire` | the reconnect loop, `build_core`, `set_sync_enabled`, the adoption of a wrap, two seconds passing |

A clip is a model value. Its content id is the pair of clip and epoch, because `GroupKey::content_id` is keyed:
the same clip has another id under another key. Clips differ in what matters: small enough to travel with the
signal (`Inline`), to be pulled (`Fetched`), or of a kind the settings keep at home (`LocalOnly`).
Text is read as it was written. An image (`Images`) is decoded for the OS and encoded anew when it is read, so that
it may be read as another one, while `write` notes the one received. Files (`Files`) may be read under
other names; `write_file_paths` reads them back and notes what it reads, which is nothing when that fails, and is the
user's copy when one comes in between. `os` is what the clipboard reads as, `seen` what is noted.

### State and actions of `Membership`

| Model | Code |
|---|---|
| `relayLog`, `mailbox`, `invites` | `Inner.log`, `Inner.mailbox`, `Inner.invites` |
| `phase` | how far `run`, `session` and `guest_join` are |
| `log`, `wid`, `key` | `Core.log`, `Core.workspace_id`, `Core.current_gk` |
| `code`, `server`, `draft` | `Core.pending`, the relay address in the settings, the locals of `guest_join` |
| `revoking` | the locals of `revoke_member` between its sends and its second lock |
| `made`, `rejected` | history: whom a key was made for and the entries its maker had seen; whose entries were turned down or given up |
| `Connect`, `Break`, `Restart`, `RelayRestart` | the reconnect loop, the end of a session in each phase, `build_core`, `Shared::build` |
| `Join`, `Invite` | `join_workspace`, `issue_invite` |
| `GuestGetsLog`, `GuestGivesUp`, `GuestGetsAnswer`, `GuestSkips` | `guest_join`, `fail_onboarding`, `recv_log`, `recv_ack` |
| `RelayReads` | `Shared::handle` for `Hello`, `GetLog`, `AppendEntry`, `PutKeyUpdate` |
| `HearWelcome`, `HearAppended`, `HearWrap` | `handle_msg` for `Welcome`, `LogAppended` (`on_log_appended`), `KeyUpdatePush` |
| `RevokeSends`, `RevokeFails`, `RevokeAdopts` | `revoke_member` up to its sends; a send that fails; its second lock |

### State and actions of `ContentPull`

| Model | Code |
|---|---|
| `head`, `puller` | `Inner.head_cache`, `Inner.pending_pull` |
| `out`, `down`, `serving` | the bounded channel of `sb_net::spawn`, the unbounded one of `handle_conn`, the body `handle_msg` is sending while it holds the core lock |
| `order`, `bodies`, `stale` | `SendCache.order`, `SendCache.map`, entries past their time |
| `pending`, `fetches` | `SyncEngine.pending`, the `fetches` of `session` |
| `PublishBody`, `AskForBody`, `IgnoreSignal` | `on_local_clipboard` with `SendCache::put`; `apply_signal` that needs a body, or not |
| `HearPull`, `ServeChunk`, `HearBegin`, `HearChunk`, `HearReject` | `handle_msg` for the content messages, with `finish_fetch` |
| `RelayTakes` | `Shared::handle` for `ClipSignal` and the content messages |
| `senders`, `asked`, `asker`, `crossed`, `broken`, `garbled` | history: who published an id; who waits for it and who asked for it last; requests that met another one or a break; complete bodies that did not open |
| `copies`, `heard`, `again`, `aged` | history: clips a device has copied (a bound as well), and how many of their signals the relay has taken; clips put again while their body was kept; bodies that were five minutes old |
| `LoseConnection`, `Reconnect`, `ExpireBody` | the end of a session with its `fetches`; five minutes passing |

### State and actions of `ClipHistory`

| Model | Code |
|---|---|
| `items`, `cap` | `HistoryBuffer` |
| `cache` | `body_cache`, `body_order`, `body_bytes`, `thumb_cache` of `Core` |
| `images` | `image_files`, `last_image_cleanup_ms`, and the folders themselves |
| `settings`, `onDisk` | `settings.history` and the bound of the body cache that follows from `max_content_bytes`, `settings.json` |
| `crowded`, `lowered`, `late`, `removed` | history: a clip came to a list full of pinned items; a bound of the cache was lowered since a body last came; thumbnails drawn too late; files the user removed |
| `AddClip`, `AddUnpublished` | the end of `poll_clipboard` for each outcome, and `apply_to_clipboard` |
| `AskThumb`, `ThumbDrawn`, `ThumbFails` | `get_thumbnail` on both sides of the gap without the lock |
| `SetPinned`, `DeleteItem`, `ClearHistory`, `GetImagePath`, `SetImageDir`, `UpdateSettings` | the commands |
| `Evict`, `EvictOldest` | `HistoryBuffer::evict` and one turn of its loop |
| `Forget`, `Trimmed`, `Trim` | `forget_body`, the loop of `cache_body` and one turn of it |
| `Cleanup`, `Ensure`, `EnsureAll` | `images::cleanup`, `ensure_image_file`, the loop of `set_image_dir` over the list, in which each save may fail |

### State and actions of `Hosting`

| Model | Code |
|---|---|
| `settings`, `page` | `settings.server`, address and fingerprint apart, with the sync switch; the copy the window has read |
| `core`, `permit`, `session`, `jobs` | fields of `Core`; the stored wake-up of `Notify`; where `run` and `session` are; how far each command that awaits is |
| `relays`, `listener`, `peer` | instances of `Shared`, those stopped included; which one accepts; which one another device uses |
| `disk` | `settings.json`, `group.key`, `server.signing`, `server.kem`, `wslog.cbor` |
| `StartReads`, `StartKeeps`, `StartBinds`, `StartFails`, `Started` | `start_embedded_server` step by step |
| `Turn`, `Woken`, `Connect`, `ConnectFails`, `Again` | `run` |
| `TakePending`, `ClaimAcked`, `ClaimFails`, `GuestGetsLog`, `GuestFails`, `GuestJoined`, `SayHello`, `Greet`, `Hear`, `EndSession` | `session` with `claim_workspace`, `guest_join` and `fail_onboarding` |
| `HostWorkspace`, `CreateWorkspace`, `ConfigureServer`, `JoinWorkspace`, `JoinByLink`, `ResetOnboarding`, `StopHosting`, `RestartHosting`, `SwitchSync`, `OpenPage`, `SavePage` | the commands |
| `RelayClaims`, `RelayAdds`, `OthersAppend`, `RestartRelay`, `RestartApp` | `Shared::handle` for `ClaimWorkspace` and `AppendEntry`; `main` of sb-server; `build_core` |

### State and actions of `X11Files`

| Model | Code |
|---|---|
| `owner`, `prop`, `inbox`, `notes` | the selection and the property at the X server; events for our two windows |
| `offer` | `Owner.offer` |
| `claiming`, `reader`, `seenClip` | how far a writer and a reading are; `PollingWatcher.last` |
| `SetOffer`, `ClaimSelection`, `CheckOwner` | `write_file_paths` in three steps |
| `Serve` | one turn of `serve`, with `respond` |
| `BeginRead`, `HearNote`, `GiveUp` | `read_file_paths` and `read_target`, under `ArboardAccess::read`, `poll` and `write_file_paths` of the watcher |
| `AppCopies`, `AppAnswers` | other programs (external) |

### Abstractions

* Cryptography is ideal. A sealed message opens for who holds the key. The hash of an entry is the sequence of
  the bodies up to it. A signature is the field that names the signer, since every device signs as itself only.
* `ClipSync` abstracts the pull of a body to its outcome (`ContentPull` has the pull) and the way of a key to its
  arrival. `Membership` has the way of the key and leaves the clips out; there both ends notice a break at once.
* An answer to an `AppendEntry` of a device that is online is not queued: `handle_msg` does not look at it.
* Of an invitation the sponsor and the one-time key remain. Expiry is not modelled: every caller of
  `verify_chain` passes 0 as the time, which switches that test off.
* `RotateKem` entries are left out: only tests build them. Profiles and presence are left out.
* Bounds come in records (`Limits`): a behaviour picks one at its start and keeps it. One run thus covers
  several scenarios, each with the faults that matter in it, without the product of all of them.
* `ContentPull` asks for a body or does not; which clip is newer is the matter of `ClipSync`. Its clips are
  those that do not travel with the signal.
* `ClipHistory` has one device. A file is its folder, its second and its content; the suffixes of
  `write_unique` only keep names apart. Each action is what the code does under one hold of the core lock.
* `Hosting` has one app and its surroundings. `settings.fp` is the fingerprint of the settings and of the core; every
  command sets it with the address, `guest_join` without it. A session takes a copy of both (`Turn`), and `Connect`
  needs a relay that answers at the address with that fingerprint. Entries of the
  log are told apart by kind, author and number; their rules are in `WsLog`.
* In `X11Files` a line of a list is a file or not; percent encoding is undone exactly (`path_to_uri` and
  `uri_to_path` are inverse on paths), and what does not decode is left out. A list fits into the property:
  the code refuses larger ones (`INCR`).
* `RelayRestart` of `Membership` happens while nobody is in the middle of a join (a bound on the state space,
  not a property of the code).

## 3. Runs that pass

`tlc -workers 2 -config <cfg> <module>`; each takes from a second to a few minutes.

| cfg | What it asks | Bounds |
|---|---|---|
| `ClipSync_sync` | all safety properties of `ClipSync`, `ImplementsRegister`, `EventuallyAgree` | eight scenarios: 2 devices in peace with skewed wall clocks and up to 3 copies; a restart; a break and the sync switch; pulled bodies with a key rotation and the switch; 3 devices with a break, a clip that stays at home and a failing write; 3 devices with skewed clocks and a failing write; an image that both clipboards may encode anew once; files of which one device may read back other ones or none. A cache of 2 signals (460,180 states) |
| `WsLog_loop` | `LoopObeysRules` | every log of up to 5 entries out of 10 bodies, linked to the last entry or the one before |
| `Membership_members` | all safety properties of `Membership` | three scenarios: 3 members of which two revoke one each at any moment; a device joins while two members may each revoke one; a workspace of one admits and revokes a device whose connection may break and whose app may restart, and the relay may restart |
| `ContentPull_pull` | `HeadsServable`, `WholeUnlessCrossed`, `PullsAnswered` (liveness) | 2 devices that publish one clip each and serve each other at once; one that publishes more than the relay keeps; breaks of either or both, with a body that expires; 3 devices of which one publishes the same clip twice; one alone that publishes five times out of four clips, more than its send cache holds, with a break and an expiry. Bodies of 2 chunks, channels of 2 places, a head cache of 2 and a send cache of 3 (189,406 states) |
| `ClipHistory_history` | eight properties of list, caches and files | six scenarios: 4 clips, one of them of three units, and `memory_max_items` of 1 and 2; 3 clips, and a byte bound of 2 and 3 as well, changed while the app runs; thumbnails; a folder and the clock; two folders and a file removed by hand; a folder with thumbnails (616,985 states) |
| `Hosting_host` | eight properties of hosting and onboarding, `OnboardingEnds` (liveness) | six scenarios of one or two of: hosting, creating, joining, following a link, resetting, stopping, restarts of app and relay, a break, a file that cannot be written, entries of others (688,684 states) |
| `X11Files_x11` | `NothingOfferedAfterLoss`, `PastableUnlessRaced`, `NoEchoOfFiles` | 2 other programs that copy twice in all, 2 writes of our own, 2 readings, one of them cut off by its deadline |

**Why the bounds are enough.** The races of `ClipSync` need one copy on each of two devices (crossing signals), a
third signal (one that supersedes while another is in flight) and one break or restart at any point between them;
the cache is as small as two signals so that it overflows. Those of `Membership` need two operations that append to
the log at once, by different members, and one device that misses one of them; three devices are the fewest of which
one can be removed by two. Two clips suffice because the engine compares clips for equality only. A body of two
chunks is the shortest that can be cut off in the middle, and with channels of two places serving it blocks. A list
of two items and a cache of four bodies overflow with four clips, and one body more than the send cache has places
makes it evict, under a relay that still keeps two signals. The scenarios of `Hosting` give each intent once, twice
where repeating it is the point (hosting again, restarting again), and one fault that may strike at any step. Two
copies of other programs are what it takes for a notice of loss to be late.

**`CHECK_DEADLOCK FALSE`** is said everywhere: when the users have done what the bounds allow and all messages
are delivered, the system rests.

**Fairness.** `FairSpec` of `ClipSync`: weak fairness of `Poll`, of the rest of the poll, of handling a signal,
of writing, of connecting and of the relay's reading: a tokio interval, two loops that await their next input, a
redial every three seconds, and one task per connection on the relay. There is none for copying, fetching,
rotation, expiry or hanging up: no code promises that they happen. `PullFairness`: the session task of each
device goes on, and the relay reads each connection. `HostFairness`: the worker goes on; the
relays answer; dialling ends, and by strong fairness of `Connect` who dials again and again a relay that is there
gets through. No command of the user is fair.

### The safety properties in words

* `NoEcho`: a device publishes at most once per copy of its user, start of its app, and write after which its
  clipboard reads otherwise than the watcher has noted. The start counts because the first poll after it finds the
  clipboard as it was left and takes it for new. The write counts because the next poll takes what it reads for a
  copy of the user (section 4). Text always reads as noted, so that it is never sent back, in whatever order
  the loop, the session and the user come; the mutant shows that forgetting to note it breaks the property.
* `LamportDominates`: no key applied, or whose body is awaited, is ahead of the device's clock.
* `PendingUnderCurrentKey`: no fetch outlives the group key its signal was sealed under.
* `RelayCatchUp`: a device connected and idle holds nothing older than an inline signal of another device the
  relay still caches. Its own signals are left out: after a restart it may meet them again and applies them as
  it would any other.
* `AgreeAtRest`: two idle devices hold the same key. The conditions say where this is not so: a copy made
  while disconnected is never published (`worker.rs`, "미연결 — 발행 안 함"; the history variable `lost`), a
  restarted device starts with an empty clock, the switch and a rotated key leave a device out, a body that has to be
  pulled may never come, and the relay may have dropped a signal to make room (`dropped`;
  that few keys were issued would not do, since a restarted app may issue one of its keys once more).
* `ImplementsRegister`: the engines together implement `LwwRegister`.
* `RelayLogValid`: the log of the relay is accepted to its last entry by everyone who verifies it.
* `OnlyOwnForks`: what a device has verified departs from the relay's log only at an entry of its own which the
  relay turned down or has still to handle.
* `KeysOnlyToMembers`: whoever holds a key was among those who remained when it was made, or was admitted by an
  entry its maker had not seen. The maker's log must hold nothing behind its accepted prefix: `revoke_member`
  appends its Remove entry to the whole log and derives the recipients from what `verify_chain` accepts of it,
  which leaves the Remove entry out when an entry before it does not verify.
* `KeyEpochsGrow` (action property): a key is never lost, and never replaced by one of an earlier epoch, with
  two exceptions: the device's own log has not reached the epoch of the key it holds (its own rotation was turned
  down); or it adopts its own rotation on a log it was not built on (section 4).
* `AgreeUndisturbed`: where nobody joins, when nothing is under way, the relay has turned down no entry and
  nobody was away, all members have the relay's log and one and the same key of its epoch. Each condition is
  needed; section 4 says why.
* `HeadsServable`, of each signal the relay keeps. First: its origin has the body in its send cache, as long as
  the signals the origin sent after it are fewer than the cache has places. Counted are those the relay keeps, those
  under way and those ever lost in a break, since the cache is filled before a signal is sent and keeps bodies of
  which the relay never hears. In peace the code's five places against four signals are enough. A clip put again while its
  body is kept is left out (`again`), because the body keeps its old place in the queue. Second: a body that is
  kept is served (`SendCache::get`) until it was five minutes old since it was last put (`aged`).
* `WholeUnlessCrossed`: a body that is complete opens. Left out are a clip that two devices have published, of
  which the relay may send the chunks of both, and requests that met a pull of another device for the same body
  (`crossed`). It does not matter how many devices the body was asked of one after the other.
* `PullsAnswered`: every request is answered with a body or a refusal, also when devices serve each other at
  once; a request a break or another request came across is left out.
* `BodyAccounting`: the bytes counted are those kept, each body has one place in the order, and the cache is within
  both its bounds, unless `memory_max_items` or `max_content_bytes` was lowered since a body last came (`lowered`):
  `cache_body` reads them only then.
* `BodiesBelong`, `NewestKeepBodies`, `ThumbsFollowBodies`: a body is that of the clip it is listed under; if an
  item can be copied again, so can all above it; a thumbnail goes with its body.
* `LinksAreFiles`, `PinnedStay`, `PinnedFilesStay`: a path shown is that of a file; a pinned item and its file
  stay until the user removes them. `PinnedFilesStay` excepts `set_image_dir`, and every step after a clip came to a
  list full of pinned items, until the app is started anew (`crowded`).
* `OnlineWhereSettingsSay`: a session that goes on is with the relay the settings name, or about to be woken. Left
  out are a reset, the app's own relay that was stopped, and settings that could not be saved: they wake nobody.
* `PortFollowsHosting`: the port is held exactly while the app says that it hosts.
* `NoGhostWorkspace`: a workspace made here is taken by a relay, or its claim is pending or being made.
* `KeptOnDisk`, `RelayKeepsWorkspace`: what a relay has taken is on its disk and is never taken back.
* `IdentityStays`: the embedded relay is the one others know, wherever the app ended before.
* `OwnKeyKept`: a device that only hosts has the key of its workspace when it has its log.
* `OnboardingEnds`: creating or joining ends with a session or an error while the relay is there.
* `NothingOfferedAfterLoss`, `PastableUnlessRaced`: the offer follows the ownership of the selection.
* `NoEchoOfFiles`: files the session wrote are not handed out by the polls after it, as long as nothing but reads
  has happened since and every reading was answered in time. The late answers are in section 4.
* `LoopObeysRules`: the loop accepts the longest prefix that fits and derives the members, epoch and head from it.

## 4. Runs that find a disagreement

Each checks one property that a document, a comment or a type's documentation states, and ends with a
counterexample. `PROJECT.json` quotes the lines.

| cfg | Property | What happens |
|---|---|---|
| `ClipSync_late_fetch` | `AppliesOnlyWinners` | a body that arrives after a newer clip is written over it (`engine.rs`, `apply_incoming`) |
| `ClipSync_reconnect` | `NewSessionReplacesOld` | the relay notices the old connection's end late and unregisters the new session |
| `Membership_swap` | `OneKeyPerEpoch` | two members revoke the third at once; the loser's wraps fit as well as the winner's, and keys differ for good |
| `Membership_tail` | `MembersCatchUp` | a member that was away replaces its log by the entries it missed and can verify nothing any more |
| `ContentPull_tee` | `ManyRequestersServed` | two devices ask for one body; the relay remembers the second only and the first waits for good |

The counterexamples met on the way explain the conditions of the properties that hold:

* A local copy that falls between the decision of `apply_signal` and its write leaves two clipboards swapped,
  while the keys agree. `AgreeAtRest` is therefore about keys.
* What the clipboard makes of a write is read as a copy of the user by the next poll. A received image that the OS
  round trip encodes otherwise than the sender did is published again, as are files whose reading back failed; two
  devices that both re-encode may send an image to and fro. `PLAN.md:600` says that received content is never
  published again and `PLAN.md:601` that the suppression knows the normalised PNG; the code registers the fingerprint
  of what was received. `NoEcho` bounds these echoes, one for each such write, and does not exclude them. What the user
  copies between the write of files and its reading back is noted as written and never published.
* A clip received and copied again from the history within the two seconds of the suppression window is taken
  for an echo. `NoEcho` bounds publications from above only.
* `guest_join` ignores the answer to its Add entry, so a device whose entry was turned down goes on with a log
  of its own. `OnlyOwnForks` allows it.
* The wrap for a joiner names the members its maker sees. If another device joins before it is opened, the
  sets differ, the wrap is refused and no other is made. A wrap pushed into a connection that breaks is lost
  and not kept in the mailbox; one that comes with the first `Welcome` after a restart is dropped, because the
  workspace id is set later in the same handler; and a joiner that receives pushes before it says `Hello` gets
  the same entries once more with `Welcome` and replaces its log by them. `AgreeUndisturbed` is therefore
  checked where nobody joins, and leaves out breaks and restarts.
* A revoker keeps the key it made when the relay turns its entries down, or loses them by restarting. Once its
  app has restarted too, its log, fetched anew, does not reach the epoch of that key; when it then joins anew it
  is handed the older key and takes it. `KeyEpochsGrow` excepts a device whose log is behind its key.
* `revoke_member` compares only the length of the log with that of its snapshot (`commands.rs:915`). If the log
  grows meanwhile, the session breaks, and the `Welcome` of the next one replaces the log by a tail just as long,
  the rotation is adopted on a log it was not built on, and its key may be older than one the device took from a
  push in between. TLC finds this with eight devices, of which one revokes five; `KeyEpochsGrow` excepts it.
* `revoke_member` drops its entries and its key if the log has grown between its sends and its second lock. An
  entry that came after the relay had accepted both makes the revoker alone keep the old key. `rejected` counts
  such a revoker in.

* A clip copied again while its body is in the send cache keeps its old place there and may be evicted before older
  signals of the relay are gone; a request for it is then refused.
* A request whose origin or own session breaks is not repeated, and one that crosses another device's request
  for the same body may be answered with chunks of two transfers.
* Adding an item that is listed and pinned replaces it, and the pin is lost. A clip that is not published and
  comes to a list full of pinned items is not taken; its body is kept under the id of the first pinned item.
* `set_image_dir` drops all links first; its clean-up may then delete the old file of a pinned item whose body
  has left the cache. A thumbnail drawn while its item is deleted stays. When the settings cannot be saved,
  `update_settings`, `set_image_dir` and `configure_server` keep what they changed in memory and leave the rest
  undone. A new `memory_max_items` or `max_content_bytes` bounds the bodies from the next
  one that comes, until when there may be more; the list follows after a restart.
* `session` and `fail_onboarding` clear whatever is pending, also what was asked for meanwhile; a claim is lost
  in this way (`stray`). When the connection ends between the relay's taking a claim and its answer, the workspace
  is dropped here and taken there for good.
* An app whose relay has a workspace starts with an empty log. Hosting again before it has got the log makes
  another workspace, overwrites `group.key`, and the relay refuses the claim (`blind`). `reset_onboarding` leaves
  a session under way with the relay it has removed from the settings.
* A join that ends after the app was reset and hosted leaves the fingerprint of the relay joined beside the address of
  its own (`GuestJoined`). The worker then gets through to neither until the settings are set anew. Only joins are in
  `OnboardingEnds`, so that no property covers this.
* Stopping the embedded relay leaves the connections it has accepted alive; they go on with their copy of the
  state, and two relays then write one log file (`twin`). A failing or torn write of that file is not noticed, and
  a torn file reads as an empty log.
* The settings page sends back the sync switch it has read: switching sync elsewhere meanwhile is undone.
* A notice of loss that is read after the next offer was put in place drops that offer, while the selection is
  ours: pastes are refused (`raced`). A reading cut off by its deadline falls back to the text of the clip, so
  that the names of files are taken for a text; after a write it leaves the watcher without a fingerprint of the
  files, which then come back as a new clip. What another program copies between our write and the reading back is
  taken for seen.

## 5. What is proved

All the safety properties the passing runs check are theorems of the specification; what is left to TLC is named
at the end of this section. A theorem holds for every value of the constants, within the assumptions the modules state of
them, and for every record of bounds.

**`ClipSyncProofs`**: any devices, clips, wall clocks and epochs.

* `TypeCorrect`. `TypeOK` is inductive, one step per action.
* `LamportDominatesAlways`, `FetchesUnderCurrentKey`: one inductive invariant each, over `TypeOK`. The lemma
  `StepEffect` reduces every action to what it does to the engines (`EngineEffect`), so that the invariants of
  the engine are proved against six effects and not against twenty actions.
* `NoEchoAlways`: `NoEcho` is not inductive. `EchoBudget` is: published clips, plus one for a clip polled and
  not yet published, plus one for a clipboard that reads otherwise than the watcher has noted, do not exceed copies
  plus restarts plus the writes after which the two differ. A write that reads as noted adds nothing to the
  left side, and takes one from it when it covers a copy not yet polled.
* `Implementation`: `Spec => ImplementsRegister`. The invariant `AllKnown` says that every signal anywhere (in
  a queue, in the cache, in hand, awaited) carries an issued key; with it and `LamportDominates` every step is
  an `Issue`, an `Adopt`, a `Forget` or a stutter (`RegisterStep`).
* `RelayCatchUpAlways`: `CatchUp` says that every inline signal of another device in the cache was taken or is
  to come (in hand, in a batch, or with the answer to a Hello that is under way).
* `AgreeAtRestAlways`, of keys and under the conditions of section 3: three more invariants. What devices hear or
  await is in the cache (`HeardCached`); what a device holds is in the cache, on its way there, or lost
  (`HeldCached`); a device that was never restarted holds no less than it has published (`OwnTaken`). Two devices at
  rest thus hold keys of the cache, of which each has taken those of the other, and the order of keys is total.

**`WsLogProofs`, `WsLogLoopProofs`**: any logs of any length.

* `AcceptedUnique`: the prefix that `verify_chain` accepts is determined by the log, so that all verifiers of
  one log agree on the members and the epoch.
* `LoopCorrect`, `LoopObeysRulesAlways`: the loop of `verify_chain` computes what the rules say. `Obeys` relates
  the state after n turns to the first n entries. If some turn broke it there would be a least one, and the rules
  exclude it: counting by a least counterexample, since the naturals are well-founded, takes the place of an
  induction theorem.

**`MembershipProofs`**: any devices and invitations and any valid founding log.

* `MembershipTypeCorrect`. `TypeOK` types the messages under way as well and is inductive; the one thing needed
  beyond types is that a guest that waits for the log has an invitation. Devices build entries only on logs of
  which `verify_chain` accepts at least the first entry (`AcceptedFits`).
* `RelayLogAlwaysValid`. The trial verification of `AppendEntry` accepts the whole extended log, `AcceptedFits`
  says that what is accepted fits entry by entry, and no other action touches the relay's log.
* `KeysAlwaysToMembers`, `ForksAlwaysOwn`: one inductive invariant, `KeyInv`, of the set of entries of the
  relay's log, the history of keys, and for each device its logs, key, draft, revocation, mailbox and both queues.
  Every entry anywhere comes from the relay or from the device that holds it; every wrap, under way, in the
  mailbox or being sent, is of a key that was made and is for somebody who may hold it; and the order of a queue
  matters: a key never comes before an entry its maker had seen (`Fresh`), which is why a device that
  checks a wrap against its own log cannot be misled about who was removed.
* `HeadDecides`: logs with one Create entry and one head have the same accepted entries, since the hash of an
  entry gives the entry and the hash before it, down to the first.
* `KeyEpochsAlwaysGrow`, of the steps, from a second inductive invariant. `GreetInv` says that a session has at
  most one greeting under way, its Hello or the Welcome, and that the Hello of a device which knows its workspace
  names a log that is not empty; so the Welcome it gets brings no log to begin with and no wrap that could be
  verified by it. And a rotation between the locks of `revoke_member` was built on a log that begins as the
  relay's, so that by `HeadDecides` it is one epoch above the log of the device, if that has the same head.
* `AgreeUndisturbedAlways`, for any number of revocations that meet. Its invariant `CalmInv` says of an undisturbed
  run (`Calm`: nothing turned down yet, nobody away) what is under way at any time to make up for the differences.
  - Logs (`CalmLogs`): of a founder who is still a member, the log with its own rotation appended and the relay's
    log agree as far as both go; what the relay has beyond it is on its way to the founder in order, what it has
    beyond the relay's on its way to the relay (`Level`). Or else the founder is `Doomed`: it will give its rotation
    up, or the relay will turn an entry of it down, and with that the run is disturbed. This is where two
    revocations that meet end, and a doomed founder stays so until then (`StillFollows`).
  - The end of the relay's log (`CalmEnd`): a Remove entry there is followed, first in its maker's queue, by the
    Epoch entry that belongs to it, so that the run cannot come to rest between the two.
  - Keys (`CalmKeys`): there is one key of the relay's epoch; each such founder, unless it is doomed or has entries
    on their way to the relay, holds it, has a wrap of it coming behind the entries the wrap is checked against, or
    finds its wrap next in the rotator's queue (`HasKey`).

  With empty queues nothing can be doomed, coming or leaving, and what is left is agreement.

**`ContentPullProofs`**: any devices, clips, chunks per body, sizes of caches and channels.

* `PullTypeAlways`.
* `HeadsServableAlways`, by the inductive invariant `HeadInv`. `Backs` says of one body that it stands in the queue of
  the send cache with no more behind it than came later, or that so many came later that it may be gone. Every signal
  the relay keeps is backed in this way (`HeadBacked`), and so are the signals of a device under way: they can be
  numbered in their order between what the relay has taken and what the device has copied (`Announces`,
  `OutBacked`), which is what makes up for those lost in a break. A body put anew comes in last and pushes out one
  from the front at most; what is expired was aged (`StaleAged`).
* `WholeAlways`: at any time, what is under way to a requester is one body in order, or what it ignores
  (`BodyOrderly`): the buffer fits the next chunk to arrive, this one the next, across the queue of the requester,
  the relay's table `puller`, the queue of the origin and the loop it is serving from (`Follows`, `Comes`).

**`ClipHistoryProofs`**: any clips, sizes, values of `memory_max_items`, folders and bounds. All eight properties
of its run follow from one inductive invariant, `HistInv`.

* `HistTypeAlways`, `BodyAccountingAlways`: the bytes counted are the sum over the bodies kept, each body has one
  place in the order, and both bounds of the cache hold after every action that finds no bound `lowered`. `HistTypeOK`
  claims types and that no id is listed twice, and no bound.
* `BodiesBelongAlways`, `NewestKeepBodiesAlways`: `NewestKeepBodies` is not inductive. `OrderInv` is: of two listed
  items the body of the older one stands before that of the newer in the order of eviction, and a body is that of
  its clip.
* `ThumbsFollowBodiesAlways`, `LinksAreFilesAlways`, and of the steps `PinnedStayAlways`, `PinnedFilesStayAlways`.
* The lemmas: sums over a finite set do not depend on the order of summing (`SumSplits`, `SumAgrees`), loops of a
  bounded number of turns keep what each turn keeps (`Course`, from `UpTo`), and one `...Makes` or `...Leaves` per
  helper says what it does to a list, a cache or the files.

**`HostingProofs`**: any addresses, entries and bounds.

* `HostTypeAlways`.
* `PortFollowsHostingAlways`: the inductive invariant `PortHeld` adds that at most one command has bound the port
  and not yet told the core, and that none has while the core says that it hosts. All but six of the actions
  leave alone the port, the word of the core and the commands that have bound (`Calm`).
* `IdentityStaysAlways`: whatever hosts, or will when the app starts again, has both files of the identity; a
  relay, a command about to start one, and the other device have the one on disk (`IdInv`).
* `KeptOnDiskAlways`, and of the steps `RelayKeepsWorkspaceAlways`: the last relay started and its file agree.
* `NoGhostWorkspaceAlways`: `GhostInv` follows every claim through the pending action, the session's copy and the
  relays, with the drafts and messages that may bring the log back.
* `OnlineWhereSettingsSayAlways`, with the exceptions of section 3: `OnlineInv` says that somebody has woken the
  worker or will yet, or that the session has the relay the settings name (`Guided`).
* `OwnKeyKeptAlways`: of a device that only hosts, every log that has a Create entry has that of its key, and a
  claim that is pending or being made is of that workspace (`Places`, `Keyed`, `Underway`).

**`X11FilesProofs`**: any programs, files and bounds.

* `NothingOfferedAfterLossAlways`, `PastableUnlessRacedAlways`: neither is inductive, since what the owner's thread
  will do depends on its queue. `OfferInv` is: an offer without the selection is unclaimed, or a notice of loss is
  in the queue; the selection, unless a claim raced with a notice, comes with an offer and without a notice in the
  queue.
* `X11TypeOKAlways`: beside the types, who owns the selection has formats to answer with; what a loop over lines
  or paths collects is what it collects of each (`UpTo`, by a least counterexample).
* `NoEchoOfFilesAlways`, for readings answered in time: `Serene` says, while nothing but reads has happened since
  the session wrote, how far a read of its own offer can be, and that what the watcher saw last is what such a read
  comes to (`ReadBack`).

**Assumptions.** Those of the modules, each named, evaluated by TLC in every run: `LwwAssumption`,
`EngineAssumption`, `ClipSyncAssumption`, `LoopAssumption`, `MembershipAssumption`, `PullAssumption`,
`HistoryAssumption`, `HostingAssumption` and `X11Assumption` say what kind of values the constants are;
`NoneAssumption` (of `Lww`, `Membership`, `Hosting` and `X11Files`) and `NoListAssumption` say that `None` is not
one of the values it stands beside.

**What the proofs found out about the models.** Attempts that failed showed three properties to be false outside
the instances checked before; they are now stated, run and proved in the form given in section 3.
`WholeUnlessCrossed` once left out only requests that two devices had made of the relay while neither was
answered: with three devices and a clip published twice, a device asks twice and is served, its second pull
still goes on, and the chunks of that one are sent to whoever asks next, beside its own. `AgreeAtRest` once said
that no more keys were issued than the cache holds: a restarted third device may issue one of its keys again,
and the cache then drops a signal all the same. `KeyEpochsGrow` once had only the first of its two exceptions; the
other needs the log of a revoker to grow, break off and come back as long as it was, see section 4.

**Only model-checked**

* `EventuallyAgree`, `PullsAnswered`, `OnboardingEnds`: liveness under fairness is out of reach of the provers.

## 6. Bounds

What may happen how often is a record from `Limits`, in `ClipSync`, `Membership`, `ContentPull`, `ClipHistory` and
`Hosting`; the fields are named where `Limit` is defined. Beside it `MaxLamport` and `MaxEpoch` (`ClipSync`),
`MaxLength` (`WsLogLoop`), `MaxAppCopies`, `MaxOwnWrites`, `MaxTimeouts` and `MaxReads` (`X11Files`). All are guards
of the actions that would exceed them. `HeadDepth`, `CacheItems`, `Room` and `Bytes` are no bounds but the code's
`HEAD_CACHE_DEPTH`, `SEND_CACHE_ITEMS`, the places of a channel and the values of four times `max_content_bytes`
that the user may set, made small. In `ClipSync` a device has at most one dead connection the relay has not noticed
(`closing`).

## 7. Slips

A definition whose comment begins "A plausible slip" is a mistake the code could have had: a dropped test, a
missing assignment, a wrong recipient. It is used by no specification. Put in place of the definition after
it, it makes the property named beside it in `PROJECT.json` fail, which shows that the property can fail.

## 8. Not modelled

| Part | Why |
|---|---|
| TLS handshake, wire format | an ordered connection that may break and a pinned fingerprint, as which they appear in the models |
| Cryptographic primitives | ideal, see section 2 |
| Clipboard backends for macOS and Windows | single calls into an operating system that keeps the contents; a register that is read and written, where a write may fail and images and files may read otherwise than written |
| History store (`crates/sb-store/src/history.rs`) | nothing in the app adds to it, so it is always empty |
| `received.rs`, thumbnails, names of files | functions of strings and bytes; no state but the folder |
| Profiles, presence | the relay stores and forwards them unread; display only |
| Expiry of invitations, `RotateKem` | switched off or never built, see section 2 |
| Frames larger than the limit of `conn.rs` | needs the byte sizes of the entries |
| UI, tray, scripts, command line and configuration of the relay | no protocol state |

## 9. Plan

What is left: the fetch of `ClipSync` shown to be implemented by `ContentPull`: a body awaited, arrived or given up.
