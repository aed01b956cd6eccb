---------------------------- MODULE MCMigration ----------------------------
(***************************************************************************)
(* Bounded instances of the migration of the submission ledger.            *)
(***************************************************************************)
EXTENDS Migration, TLC

LegacyFirst == <<"legacy", "primary">>

Symmetry == Permutations(Databases) \cup Permutations(Records)
============================================================================
