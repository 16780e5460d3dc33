--------------------------- MODULE MCWebhookEngine ---------------------------
(* Two events for a channel of one, and one retry before a dead letter.     *)
EXTENDS WebhookEngine
=============================================================================
