---------------------------- MODULE MCKeyedQueue ----------------------------
(***************************************************************************)
(* Instances of KeyedQueue for TLC.  The keys are interchangeable.         *)
(***************************************************************************)
EXTENDS KeyedQueue

KeySymmetry == Permutations(Key)
=============================================================================
