----------------------------- MODULE SyncEngine -----------------------------
(***************************************************************************)
(* The sync engine of crates/sb-core/src/engine.rs, one per device.  The   *)
(* engine is a pure state machine: its inputs are clips read from the      *)
(* local clipboard, signals from other devices and fetched bodies, and it  *)
(* answers with a decision its caller carries out.  Every handler below is *)
(* one action on the variables of device d; ClipSync composes them with    *)
(* the clipboard, the worker and the relay.                                *)
(*                                                                         *)
(* Sealing is abstracted to the epoch of the group key: a signal opens iff *)
(* the receiver's key has the epoch of its header, and the keyed content   *)
(* id is the pair of that epoch and the content.  The history list and the *)
(* send cache, which no decision of the engine reads, are left out.        *)
(***************************************************************************)
EXTENDS Lww

CONSTANTS
    Inline,     \* clips that ride inside the signal: text up to 32 KiB
    Fetched,    \* clips a receiver must pull: images, files, long text
    LocalOnly,  \* clips the settings keep at home: kind off or over the limit
    MaxEpoch    \* bound on the epoch of the group key (a u64 in the code)

Content == Inline \cup Fetched
Epoch == 0 .. MaxEpoch

ASSUME EngineAssumption ==
    /\ Inline \cap Fetched = {}
    /\ LocalOnly \subseteq Content
    /\ None \notin Content
    /\ MaxEpoch \in Nat

\* ContentId: BLAKE3 of the clip keyed with the group key of an epoch.
ContentId == [epoch : Epoch, content : Content]

\* A signal as the receiver sees it once opened: SignalHdr and SignalBody.
Signal == [epoch : Epoch, content : Content, key : Key]

IdOf(s) == [epoch |-> s.epoch, content |-> s.content]

VARIABLES
    lamport,   \* lamport[d]: LwwState.lamport
    current,   \* current[d]: LwwState.current, the key of the copy now applied
    epoch,     \* epoch[d]: the epoch of the engine's group key
    enabled,   \* enabled[d]: EngineConfig.enabled
    grace,     \* grace[d]: ids in the echo suppression window
    pending    \* pending[d]: the signals whose body is being fetched

engineVars == <<lamport, current, epoch, enabled, grace, pending>>

EngineTypeOK ==
    /\ lamport \in [Device -> 0 .. MaxLamport]
    /\ current \in [Device -> Key \cup {None}]
    /\ epoch \in [Device -> Epoch]
    /\ enabled \in [Device -> BOOLEAN]
    /\ grace \in [Device -> SUBSET ContentId]
    /\ pending \in [Device -> SUBSET Signal]

\* SyncEngine::new with the key of the keystore; a first start has epoch 0.
EngineInit ==
    /\ lamport = [d \in Device |-> 0]
    /\ current = [d \in Device |-> None]
    /\ epoch = [d \in Device |-> 0]
    /\ enabled = [d \in Device |-> TRUE]
    /\ grace = [d \in Device |-> {}]
    /\ pending = [d \in Device |-> {}]

-----------------------------------------------------------------------------
(* Local copies.                                                           *)

\* Will on_local_clipboard emit a signal for clip c?  No for an echo of a
\* remote write, with sync off, for a kind switched off and for a large clip.
Publishes(d, c) ==
    /\ [epoch |-> epoch[d], content |-> c] \notin grace[d]
    /\ enabled[d]
    /\ c \notin LocalOnly

\* The signal it emits, the clock ticked first.
LocalSignal(d, c, w) ==
    [epoch |-> epoch[d],
     content |-> c,
     key |-> [lamport |-> Tick(lamport[d]), wall |-> w, origin |-> d]]

\* on_local_clipboard, the outcome Emit: the local copy becomes current
\* without a comparison.
EmitLocal(d, c, w) ==
    /\ Publishes(d, c)
    /\ lamport[d] < MaxLamport
    /\ lamport' = [lamport EXCEPT ![d] = Tick(@)]
    /\ current' = [current EXCEPT ![d] = LocalSignal(d, c, w).key]
    /\ UNCHANGED <<epoch, enabled, grace, pending>>

\* on_local_clipboard, the outcomes Echo, Disabled, KindDisabled, TooLarge.
KeepLocal(d, c) ==
    /\ ~Publishes(d, c)
    /\ UNCHANGED engineVars

-----------------------------------------------------------------------------
(* Remote signals.                                                         *)

\* The signal is opened: sync is on and the key has the epoch of the header.
Opens(d, s) == enabled[d] /\ s.epoch = epoch[d]

\* on_remote_signal, SyncOff and EpochMismatch: nothing changes.
RejectSignal(d, s) ==
    /\ ~Opens(d, s)
    /\ UNCHANGED engineVars

\* on_remote_signal, Superseded: the clock still learns the remote time.
SupersededSignal(d, s) ==
    /\ Opens(d, s)
    /\ ~WouldApply(current[d], s.key)
    /\ lamport' = [lamport EXCEPT ![d] = MergeLamport(@, s.key.lamport)]
    /\ UNCHANGED <<current, epoch, enabled, grace, pending>>

\* A plausible slip: apply_incoming takes the key without comparing it.
AppliedAlways(cur, key) == key

\* apply_incoming: the key becomes current only if it is newer.
Applied(cur, key) == IF WouldApply(cur, key) THEN key ELSE cur

\* on_remote_signal, ApplyInline: the caller writes the clip to the clipboard.
ApplyInline(d, s) ==
    /\ Opens(d, s)
    /\ WouldApply(current[d], s.key)
    /\ s.content \in Inline
    /\ lamport' = [lamport EXCEPT ![d] = MergeLamport(@, s.key.lamport)]
    /\ current' = [current EXCEPT ![d] = Applied(@, s.key)]
    /\ grace' = [grace EXCEPT ![d] = @ \cup {IdOf(s)}]
    /\ UNCHANGED <<epoch, enabled, pending>>

\* on_remote_signal, NeedFetch: remembered under its id, an older entry for
\* the same id replaced; current does not move.
NeedFetch(d, s) ==
    /\ Opens(d, s)
    /\ WouldApply(current[d], s.key)
    /\ s.content \in Fetched
    /\ lamport' = [lamport EXCEPT ![d] = MergeLamport(@, s.key.lamport)]
    /\ pending' = [pending EXCEPT
                     ![d] = {p \in @ : IdOf(p) # IdOf(s)} \cup {s}]
    /\ UNCHANGED <<current, epoch, enabled, grace>>

-----------------------------------------------------------------------------
(* Fetched bodies.                                                         *)

\* on_content_fetched, the body opens under the key now held: the clip goes
\* to the caller for the clipboard, whatever current has become meanwhile.
ApplyFetched(d, p) ==
    /\ p \in pending[d]
    /\ p.epoch = epoch[d]
    /\ pending' = [pending EXCEPT ![d] = @ \ {p}]
    /\ current' = [current EXCEPT ![d] = Applied(@, p.key)]
    /\ grace' = [grace EXCEPT ![d] = @ \cup {IdOf(p)}]
    /\ UNCHANGED <<lamport, epoch, enabled>>

\* on_content_fetched, open_body or the content id check fails (the chunks of
\* two transfers of one id may mix): the entry is gone, nothing is applied.
DropFetched(d, p) ==
    /\ p \in pending[d]
    /\ pending' = [pending EXCEPT ![d] = @ \ {p}]
    /\ UNCHANGED <<lamport, current, epoch, enabled, grace>>

-----------------------------------------------------------------------------
(* Settings, keys, time, restart.                                          *)

\* A plausible slip: the fetches of the old key are kept.
SetGroupKeyKeepsPending(d, e) ==
    /\ epoch' = [epoch EXCEPT ![d] = e]
    /\ UNCHANGED <<lamport, current, enabled, grace, pending>>

\* set_group_key: a fetch sealed under the old key can no longer complete.
SetGroupKey(d, e) ==
    /\ epoch' = [epoch EXCEPT ![d] = e]
    /\ pending' = [pending EXCEPT ![d] = {}]
    /\ UNCHANGED <<lamport, current, enabled, grace>>

\* set_enabled: the user switches sync on or off.
SetEnabled(d) ==
    /\ enabled' = [enabled EXCEPT ![d] = ~@]
    /\ UNCHANGED <<lamport, current, epoch, grace, pending>>

\* SuppressSet::gc once the 2 s of an id have passed.
GraceExpires(d, id) ==
    /\ id \in grace[d]
    /\ grace' = [grace EXCEPT ![d] = @ \ {id}]
    /\ UNCHANGED <<lamport, current, epoch, enabled, pending>>

\* The app restarts: the group key and the settings are read back from disk,
\* the clock, the applied key, the window and the fetches start from nothing.
EngineRestart(d) ==
    /\ lamport' = [lamport EXCEPT ![d] = 0]
    /\ current' = [current EXCEPT ![d] = None]
    /\ grace' = [grace EXCEPT ![d] = {}]
    /\ pending' = [pending EXCEPT ![d] = {}]
    /\ UNCHANGED <<epoch, enabled>>
=============================================================================
