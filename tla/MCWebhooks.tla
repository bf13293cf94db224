----------------------------- MODULE MCWebhooks -----------------------------
(* Webhooks with a good and a bad subscription and two dispatches that      *)
(* overlap.                                                                 *)
EXTENDS Webhooks

CONSTANTS good, bad, e1, e2

TwoHooks == {good, bad}
OneBadHook == {bad}
TwoEvents == {e1, e2}
=============================================================================
