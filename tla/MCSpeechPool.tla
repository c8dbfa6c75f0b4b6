---------------------------- MODULE MCSpeechPool ----------------------------
EXTENDS SpeechPool, TLC

\* Jobs, workers and replicas are alike; no property singles one out.
Alike == Permutations(Jobs) \cup Permutations(Workers) \cup Permutations(Dispatchers)
=============================================================================
