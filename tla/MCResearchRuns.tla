-------------------------- MODULE MCResearchRuns ---------------------------
(* Deployments of ResearchRuns that TLC checks.                            *)
EXTENDS ResearchRuns, TLC

CONSTANTS api1, api2, w1, e1, e2, q1, q2

\* compose.yml: one API without executors, one worker
ComposeHost == e1 :> w1
\* a local API that runs two background tasks on its own event loop
LocalHost == e1 :> api1 @@ e2 :> api1
\* API processes alone, on one database
NoHost == <<>>

\* two requests about two persons; the first is the dearer
TwoPersons == q1 :> "ana" @@ q2 :> "bo"
TwoMaxCosts == q1 :> 2 @@ q2 :> 1
OnePerson == q1 :> "ana"
OneMaxCost == q1 :> 1
=============================================================================
