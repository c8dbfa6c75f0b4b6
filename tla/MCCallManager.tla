--------------------------- MODULE MCCallManager ----------------------------
(***************************************************************************)
(* CallManager for TLC: calls that the peer offers, one of ours, and two   *)
(* devices that it rings.                                                  *)
(***************************************************************************)
EXTENDS CallManager, TLC

CONSTANTS c1, c2, o1, d1, d2

MCIncoming == {c1, c2}
MCOutgoing == {o1}
MCDevices == {d1, d2}

\* The devices are interchangeable.
Alike == Permutations(MCDevices)
=============================================================================
