-------------------------- MODULE MCDeadLetterQueue --------------------------
(* Two letters, and two operators who may retry the same one.               *)
EXTENDS DeadLetterQueue
=============================================================================
