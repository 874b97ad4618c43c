-------------------------- MODULE MCColdMigration --------------------------
(***************************************************************************)
(* An instance of ColdMigration for TLC: two Parquet files and their       *)
(* manifest, and one file that is materialized later.                      *)
(***************************************************************************)
EXTENDS ColdMigration, TLC

CONSTANTS p1, p2, m, n, o1, o2

Symmetry == Permutations({p1, p2}) \union Permutations({o1, o2})

=============================================================================
