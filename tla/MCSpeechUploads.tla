-------------------------- MODULE MCSpeechUploads ---------------------------
(***************************************************************************)
(* SpeechUploads for TLC: requests with the same audio or with another     *)
(* one, and two removers.                                                  *)
(***************************************************************************)
EXTENDS SpeechUploads, TLC

Alike == Permutations(Requests) \cup Permutations(Removers)
=============================================================================
