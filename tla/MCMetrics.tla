------------------------------ MODULE MCMetrics ------------------------------
(* Three handlers, so that two can overlap while a third one resets, few    *)
(* samples, and percentiles of every length that the gateway computes.      *)
EXTENDS Metrics

Samples == {1, 2}
Sizes == 1..100
=============================================================================
