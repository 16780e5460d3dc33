---------------------------- MODULE MCTokenBucket ----------------------------
(* Two calls for one key.  The limits of its tier change between a pair     *)
(* with a burst reserve and one whose soft limit is above the hard one, and *)
(* there is time for an empty bucket to fill up.                            *)
EXTENDS TokenBucket

Pairs == {<<1, 2>>, <<2, 1>>}
=============================================================================
