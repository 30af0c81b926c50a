----------------------------- MODULE LwwRegister ----------------------------
(***************************************************************************)
(* What the sync engines promise together: every device holds a register   *)
(* that only ever moves to a newer published key.  A local copy beats      *)
(* whatever its device holds; a remote one is taken only if it is newer    *)
(* and some device did publish it; a restart forgets.  "key(incoming) >    *)
(* key(current_applied)" is the rule of crates/sb-proto/src/ids.rs:38.     *)
(***************************************************************************)
EXTENDS Lww

VARIABLES
    current,  \* current[d]: the key of the copy device d holds, or None
    issued    \* every key ever published

vars == <<current, issued>>

Init ==
    /\ current = [d \in Device |-> None]
    /\ issued = {}

\* Device d publishes a copy of its own, newer than the one it holds.
Issue(d, k) ==
    /\ k.origin = d
    /\ WouldApply(current[d], k)
    /\ current' = [current EXCEPT ![d] = k]
    /\ issued' = issued \cup {k}

\* Device d takes over a published copy that is newer than the one it holds.
Adopt(d, k) ==
    /\ k \in issued
    /\ WouldApply(current[d], k)
    /\ current' = [current EXCEPT ![d] = k]
    /\ UNCHANGED issued

\* The app of device d restarts.
Forget(d) ==
    /\ current' = [current EXCEPT ![d] = None]
    /\ UNCHANGED issued

Next ==
    \E d \in Device :
        \/ \E k \in Key : Issue(d, k) \/ Adopt(d, k)
        \/ Forget(d)

Spec == Init /\ [][Next]_vars
=============================================================================
