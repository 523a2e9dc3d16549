---------------------------- MODULE MCLakehouse ----------------------------
(* Small instances of the table's life cycle. *)
EXTENDS Lakehouse, TLC

EngineSymmetry == Permutations(Engines)
=============================================================================
