-------------------------------- MODULE Lww ---------------------------------
(***************************************************************************)
(* The last-writer-wins order of crates/sb-core/src/lww.rs and the LwwKey  *)
(* of crates/sb-proto/src/ids.rs: every published clip carries the key     *)
(* (lamport, wall clock, origin), compared lexicographically.              *)
(***************************************************************************)
EXTENDS Integers

CONSTANTS
    Device,      \* device ids: 32-byte strings in the code, compared bytewise
    Wall,        \* wall-clock readings in ms; nothing orders them between devices
    MaxLamport,  \* bound on the Lamport clock (a u64 in the code)
    None         \* Option::None

ASSUME LwwAssumption ==
    /\ Device \subseteq Nat
    /\ Wall \subseteq Nat
    /\ MaxLamport \in Nat

Key == [lamport : 1 .. MaxLamport, wall : Wall, origin : Device]

\* None is a value of its own.  TLC evaluates this on every run.
ASSUME NoneAssumption == None \notin Key

-----------------------------------------------------------------------------

\* The derived Ord of LwwKey: field by field, in declaration order.
KeyLess(a, b) ==
    \/ a.lamport < b.lamport
    \/ a.lamport = b.lamport /\ a.wall < b.wall
    \/ a.lamport = b.lamport /\ a.wall = b.wall /\ a.origin < b.origin

\* A plausible slip: the order without its tie breakers.
KeyLessByLamport(a, b) == a.lamport < b.lamport

\* LwwState::would_apply: is key newer than the copy now applied?
WouldApply(cur, key) == cur # None => KeyLess(cur, key)

\* LwwState::tick: the clock value of the next local copy.
Tick(lam) == lam + 1

\* A plausible slip: only local copies move the clock.
MergeLamportNot(lam, remote) == lam

\* LwwState::merge_lamport: keep the causal order on receipt.
MergeLamport(lam, remote) == IF remote > lam THEN remote ELSE lam
=============================================================================
