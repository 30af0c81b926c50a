---------------------------- MODULE MCMembership ----------------------------
(***************************************************************************)
(* Instances of Membership for TLC: the founding logs and the bounds of    *)
(* each run.  A run with several of them covers combinations of what may   *)
(* happen without their product.                                           *)
(***************************************************************************)
EXTENDS Membership

CONSTANTS g, h, k  \* invitations

\* The log that a sequence of bodies makes.
LogOf(bs) == [i \in DOMAIN bs |-> [prev |-> SubSeq(bs, 1, i - 1), body |-> bs[i]]]

Genesis == [type |-> "genesis", creator |-> 1]
Alone == LogOf(<<Genesis>>)
Pair == LogOf(<<Genesis, AddBody(2, 1, k)>>)
Trio == LogOf(<<Genesis, AddBody(2, 1, k), AddBody(3, 1, h)>>)

Never == [d \in Device |-> 0]
OnlyFirst == [d \in Device |-> IF d = 1 THEN 1 ELSE 0]
OnlySecond == [d \in Device |-> IF d = 2 THEN 1 ELSE 0]
FirstTwo == [d \in Device |-> IF d \in {1, 2} THEN 1 ELSE 0]

\* Three members of which some revoke, each at most one.
Revokes(by, entries) ==
    [first |-> Trio, joiners |-> Device, invitations |-> {h, k}, length |-> entries,
     revokes |-> by, breaks |-> Never, restarts |-> Never, relayRestarts |-> 0]

\* Two revoke at any time; a device joins while two members may each revoke
\* one, the newcomer included; a workspace of one admits and revokes a device
\* whose connection may break and whose app may restart, and the relay may
\* restart too.
MembersLimits ==
    {Revokes(FirstTwo, 7),
     [Revokes(FirstTwo, 5) EXCEPT !.first = Pair, !.invitations = {g, k}],
     [Revokes(OnlyFirst, 7) EXCEPT !.first = Alone, !.joiners = {1, 2},
                                   !.invitations = {g}, !.breaks = OnlySecond,
                                   !.restarts = OnlySecond, !.relayRestarts = 1]}

\* Two revoke the third.
SwapLimits == {Revokes(FirstTwo, 7)}

\* The second is away while the first revokes the third.
TailLimits == {[Revokes(OnlyFirst, 5) EXCEPT !.breaks = OnlySecond]}
=============================================================================
