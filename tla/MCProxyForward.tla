--------------------------- MODULE MCProxyForward ---------------------------
(* Concurrent requests for one URI, the only case in which they meet in the *)
(* cache; they always meet in the breaker.                                  *)
EXTENDS ProxyForward, TLC

\* Requests are interchangeable.
ReqSymmetry == Permutations(Reqs)
=============================================================================
