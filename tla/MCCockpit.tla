------------------------------ MODULE MCCockpit ------------------------------
(* A standalone cockpit, the embedded one and a client of the admin API.    *)
EXTENDS Cockpit
=============================================================================
