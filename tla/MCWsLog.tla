------------------------------ MODULE MCWsLog -------------------------------
(***************************************************************************)
(* Bodies for WsLogLoop: what three devices and two invitations can make   *)
(* of a log, entries that break each rule among them.                      *)
(***************************************************************************)
EXTENDS WsLogLoop

CONSTANTS g, h

SomeBodies ==
    {AddBody(2, 1, g), AddBody(2, 1, h), AddBody(3, 2, h),
     RemoveBody(1, 2), RemoveBody(2, 1), RemoveBody(3, 3),
     EpochBody(1, 1, {1}), EpochBody(1, 1, {1, 2}), EpochBody(2, 2, {1, 2}),
     [type |-> "genesis", creator |-> 2]}
=============================================================================
