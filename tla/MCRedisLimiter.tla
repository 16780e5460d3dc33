--------------------------- MODULE MCRedisLimiter ---------------------------
(* Two requests and two operators at a time, a delay shorter than the       *)
(* window, and enough time for the window to slide past its first members.  *)
EXTENDS RedisLimiter, TLC

\* Requests are interchangeable, and so are the operators' calls.
Symmetry == Permutations(Reqs) \cup Permutations(Callers)
=============================================================================
