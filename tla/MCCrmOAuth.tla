----------------------------- MODULE MCCrmOAuth -----------------------------
(* CrmOAuth with two requests at a time, two authorizations of two accounts. *)
EXTENDS CrmOAuth

CONSTANTS h1, h2, s1, s2, a1, a2

TwoHandlers == {h1, h2}
TwoStates == {s1, s2}
TwoAccounts == {a1, a2}
=============================================================================
