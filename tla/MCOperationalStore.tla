------------------------- MODULE MCOperationalStore -------------------------
(***************************************************************************)
(* OperationalStore over a few days.                                       *)
(***************************************************************************)
EXTENDS OperationalStore
=============================================================================
