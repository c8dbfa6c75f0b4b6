--------------------------- MODULE MCSpeechWorker ---------------------------
EXTENDS SpeechWorker, TLC

Alike == Permutations(Workers)
=============================================================================
