--------------------------- MODULE MCWebhookQueue ---------------------------
(* Instances of WebhookQueue for TLC.                                      *)
EXTENDS WebhookQueue, TLC

CONSTANTS t1, t2, t3

ThreeTasks == {t1, t2, t3}
============================================================================
