------------------------------ MODULE MCReplay ------------------------------
(* Replay for TLC: the two tracking ids are interchangeable.                *)
EXTENDS Replay, TLC

IdSymmetry == Permutations(Ids)
=============================================================================
