------------------------------- MODULE WsLog -------------------------------
(***************************************************************************)
(* The workspace log of crates/sb-crypto/src/wslog.rs: a chain of signed   *)
(* entries from which every device and the relay derive the members and    *)
(* the epoch.  verify_chain accepts the longest prefix that follows the    *)
(* rules; what it accepts is stated here entry by entry, without the loop  *)
(* (WsLogLoop has the loop).                                               *)
(*                                                                         *)
(* The hash of an entry stands for the entry and all before it, so a hash  *)
(* is the sequence of their bodies.  A device signs only as itself and an  *)
(* invitation carries its sponsor's certificate: signatures are what the   *)
(* fields by, rotator and sponsor say.  There is one workspace.  RotateKem *)
(* entries, which no code under src/ builds outside tests, are left out.   *)
(***************************************************************************)
EXTENDS Integers, Sequences, FiniteSets

CONSTANTS
    Device,  \* device ids
    Grant    \* the one-time keys of invitations

Body ==
    [type : {"genesis"}, creator : Device]
        \cup [type : {"add"}, subject : Device, sponsor : Device, grant : Grant]
        \cup [type : {"remove"}, target : Device, by : Device]
        \cup [type : {"epoch"}, number : Nat, rotator : Device, members : SUBSET Device]

Entry == [prev : Seq(Body), body : Body]

\* entry_hash.
Hash(e) == Append(e.prev, e.body)

-----------------------------------------------------------------------------
(* What the first n entries of a log say.                                  *)

Admits(b, d) ==
    \/ b.type = "genesis" /\ b.creator = d
    \/ b.type = "add" /\ b.subject = d

Expels(b, d) == b.type = "remove" /\ b.target = d

\* A plausible slip: Remove entries are verified but have no effect.
MembersEver(log, n) == {d \in Device : \E j \in 1 .. n : Admits(log[j].body, d)}

\* VerifiedLog.members: admitted and not expelled since.
MembersAfter(log, n) ==
    {d \in Device :
        \E j \in 1 .. n :
            /\ Admits(log[j].body, d)
            /\ \A k \in j + 1 .. n : ~Expels(log[k].body, d)}

\* VerifiedLog.epoch: one more with every Epoch entry.
EpochAfter(log, n) == Cardinality({j \in 1 .. n : log[j].body.type = "epoch"})

\* consumed_grants.
GrantsAfter(log, n) ==
    {log[j].body.grant : j \in {k \in 1 .. n : log[k].body.type = "add"}}

-----------------------------------------------------------------------------
(* The rules.                                                              *)

\* May body b follow the first n entries of a log?
Allowed(log, n, b) ==
    \/ /\ b.type = "add"
       /\ b.sponsor \in MembersAfter(log, n)
       /\ b.grant \notin GrantsAfter(log, n)
    \/ /\ b.type = "remove"
       /\ b.by \in MembersAfter(log, n)
    \/ /\ b.type = "epoch"
       /\ b.rotator \in MembersAfter(log, n)
       /\ b.number = EpochAfter(log, n) + 1
       /\ b.members = MembersAfter(log, n)

\* Entry i follows the one before it by hash, and the rules by its body.
Fits(log, i) ==
    /\ log[i].prev = Hash(log[i - 1])
    /\ Allowed(log, i - 1, log[i].body)

\* verify_chain answers Ok.
Verifies(log) == log # <<>> /\ log[1].body.type = "genesis"

\* VerifiedLog.accepted: the length of the longest prefix that fits.
Accepted(log) ==
    CHOOSE n \in 1 .. Len(log) :
        /\ \A i \in 2 .. n : Fits(log, i)
        /\ n < Len(log) => ~Fits(log, n + 1)

\* The other fields of VerifiedLog.
MembersOf(log) == MembersAfter(log, Accepted(log))
EpochOf(log) == EpochAfter(log, Accepted(log))
HeadOf(log) == Hash(log[Accepted(log)])

\* All of log is accepted.
FullyValid(log) == Verifies(log) /\ \A i \in 2 .. Len(log) : Fits(log, i)

\* Members of an empty or foreign log: none (Inner::roster).
Roster(log) == IF Verifies(log) THEN MembersOf(log) ELSE {}

-----------------------------------------------------------------------------
(* The builders.                                                           *)

\* build_add, build_remove and build_epoch on top of what v accepted of log.
BuildOn(log, b) == [prev |-> HeadOf(log), body |-> b]

AddBody(d, sponsor, g) ==
    [type |-> "add", subject |-> d, sponsor |-> sponsor, grant |-> g]

RemoveBody(d, target) == [type |-> "remove", target |-> target, by |-> d]

EpochBody(d, number, members) ==
    [type |-> "epoch", number |-> number, rotator |-> d, members |-> members]
=============================================================================
