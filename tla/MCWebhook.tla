----------------------------- MODULE MCWebhook -----------------------------
(* Model-checking instance of Webhook. *)
EXTENDS Webhook
=============================================================================
