----------------------------- MODULE WsLogLoop ------------------------------
(***************************************************************************)
(* verify_chain of crates/sb-crypto/src/wslog.rs as its loop computes it,  *)
(* against what WsLog says it accepts.  The log grows by any entry at all, *)
(* linked or not, allowed or not, as a relay or a device may be sent.      *)
(***************************************************************************)
EXTENDS WsLog

CONSTANTS
    MaxLength,   \* bound on the length of the log
    Offered      \* the bodies offered to it

ASSUME LoopAssumption ==
    /\ MaxLength \in Nat
    /\ Offered \subseteq Body

VARIABLE log

-----------------------------------------------------------------------------

\* The locals of the loop after the Genesis entry; open is false after a break.
Start(first) ==
    [members |-> {first.body.creator}, head |-> Hash(first), epoch |-> 0,
     grants |-> {}, accepted |-> 1, open |-> TRUE]

\* One turn that accepts entry e.
Took(s, e) == [s EXCEPT !.head = Hash(e), !.accepted = @ + 1]

\* A plausible slip: the grant of an invitation is not consumed.
AddTurnKeepsGrant(s, e) ==
    IF e.body.sponsor \in s.members /\ e.body.grant \notin s.grants
    THEN [Took(s, e) EXCEPT !.members = @ \cup {e.body.subject}]
    ELSE [s EXCEPT !.open = FALSE]

\* The arm of an Add entry.
AddTurn(s, e) ==
    IF e.body.sponsor \in s.members /\ e.body.grant \notin s.grants
    THEN [Took(s, e) EXCEPT !.members = @ \cup {e.body.subject},
                            !.grants = @ \cup {e.body.grant}]
    ELSE [s EXCEPT !.open = FALSE]

\* The arm of a Remove entry.
RemoveTurn(s, e) ==
    IF e.body.by \in s.members
    THEN [Took(s, e) EXCEPT !.members = @ \ {e.body.target}]
    ELSE [s EXCEPT !.open = FALSE]

\* The arm of an Epoch entry.
EpochTurn(s, e) ==
    IF /\ e.body.rotator \in s.members
       /\ e.body.number = s.epoch + 1
       /\ e.body.members = s.members
    THEN [Took(s, e) EXCEPT !.epoch = e.body.number]
    ELSE [s EXCEPT !.open = FALSE]

\* One turn of the loop.
Turn(s, e) ==
    CASE ~s.open -> s
      [] s.open /\ (e.prev # s.head \/ e.body.type = "genesis") -> [s EXCEPT !.open = FALSE]
      [] s.open /\ e.prev = s.head /\ e.body.type = "add" -> AddTurn(s, e)
      [] s.open /\ e.prev = s.head /\ e.body.type = "remove" -> RemoveTurn(s, e)
      [] s.open /\ e.prev = s.head /\ e.body.type = "epoch" -> EpochTurn(s, e)

VerifyChain(entries) ==
    LET after[n \in 1 .. Len(entries)] ==
            IF n = 1 THEN Start(entries[1]) ELSE Turn(after[n - 1], entries[n])
    IN  after[Len(entries)]

-----------------------------------------------------------------------------

Genesis(d) == [prev |-> <<>>, body |-> [type |-> "genesis", creator |-> d]]

Init == \E d \in Device : log = <<Genesis(d)>>

\* An entry that names the last one, or the one before it, as its predecessor.
Next ==
    \E b \in Offered, n \in {Len(log) - 1, Len(log)} \ {0} :
        /\ Len(log) < MaxLength
        /\ log' = Append(log, [prev |-> Hash(log[n]), body |-> b])

Spec == Init /\ [][Next]_log

-----------------------------------------------------------------------------

\* The loop of verify_chain accepts exactly the longest prefix that obeys the
\* rules and derives the members, the epoch and the head the rules say.
LoopObeysRules ==
    LET s == VerifyChain(log)
    IN  /\ s.accepted = Accepted(log)
        /\ s.members = MembersOf(log)
        /\ s.epoch = EpochOf(log)
        /\ s.head = HeadOf(log)
=============================================================================
