------------------------------ MODULE Signature ------------------------------
(***************************************************************************)
(* The time window of VerifySignature (src/internal/crypto/hmac.go).       *)
(* Timestamps are signed integers of a fixed width, Half = 2^(width - 1),  *)
(* and subtraction wraps.                                                  *)
(***************************************************************************)
EXTENDS Integers

CONSTANTS Half,  \* 2^63 in the code
          Skew   \* seconds a timestamp may lie ahead (10 in the code)

ASSUME SignatureAssumption ==
    /\ Half \in Nat \ {0}
    /\ Skew \in 0..(Half - 1)

Int64 == (-Half)..(Half - 1)

\* What two's complement makes of a sum or difference of two Int64.
Wrap(x) ==
    IF x >= Half THEN x - 2 * Half
    ELSE IF x < -Half THEN x + 2 * Half
    ELSE x

\* Slip: the skew is bounded by the tolerance as well.
InTimeSymmetric(ts, toleranceSeconds, nowUnix) ==
    /\ Wrap(nowUnix - ts) <= toleranceSeconds
    /\ Wrap(ts - nowUnix) <= toleranceSeconds

\* The two checks of VerifySignature: neither ErrExpiredTimestamp nor
\* ErrClockDrift.
InTime(ts, toleranceSeconds, nowUnix) ==
    /\ Wrap(nowUnix - ts) <= toleranceSeconds
    /\ Wrap(ts - nowUnix) <= Skew

\* What the two checks are for, without the arithmetic of machine words.
Fresh(ts, toleranceSeconds, nowUnix) ==
    nowUnix - toleranceSeconds <= ts /\ ts <= nowUnix + Skew

\* The one timestamp for which both differences wrap to a negative number.
WrapsTwice(ts, nowUnix) == ts = nowUnix - Half
=============================================================================
