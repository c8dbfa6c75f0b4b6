------------------------ MODULE MCProviderMigration -------------------------
(***************************************************************************)
(* ProviderMigration for TLC: two migrations and one request for a QR code *)
(* of one instance.                                                        *)
(***************************************************************************)
EXTENDS ProviderMigration, TLC

CONSTANTS m1, m2, c1

MCMigrations == {m1, m2}
MCConnects == {c1}

\* The requests of a kind are interchangeable.
Alike == Permutations(MCMigrations)
=============================================================================
