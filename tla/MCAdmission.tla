----------------------------- MODULE MCAdmission -----------------------------
(* Two configurations, one of them without an upstream and with a jitter    *)
(* whose minimum is too large, writers of every style, and words of five    *)
(* bits, so that every timestamp is tried.                                  *)
EXTENDS Admission

Files == {"short", "long"}
Tiers == [short |-> [limits |-> "1/2", replay |-> 1],
          long |-> [limits |-> "3/4", replay |-> 3],
          default |-> [limits |-> "20/25", replay |-> 2]]
Jitters == [short |-> [min |-> 0, max |-> 0],
            long |-> [min |-> 6, max |-> 4],
            default |-> [min |-> 2, max |-> 5],
            empty |-> [min |-> 0, max |-> 0]]
Targets == [short |-> "up1", default |-> "up0"]
=============================================================================
