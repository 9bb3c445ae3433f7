----------------------------- MODULE MCWebhook -----------------------------
(***************************************************************************)
(* Model-checking instance of Webhook: the deliveries and the repositories *)
(* are interchangeable.                                                    *)
(***************************************************************************)
EXTENDS Webhook, TLC

WebhookSymmetry == Permutations(Deliveries) \cup Permutations(Repos)
=============================================================================
