-------------------------- MODULE MCSpeechDurable --------------------------
(* Instances of SpeechDurable for TLC. *)
EXTENDS SpeechDurable, TLC

JobSymmetry == Permutations(Jobs)
=============================================================================
