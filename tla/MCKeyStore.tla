----------------------------- MODULE MCKeyStore -----------------------------
(* A key that is not in memory at start-up, two gateways and two requests:  *)
(* one gateway kills the key while the other remembers it or looks it up.   *)
EXTENDS KeyStore
=============================================================================
