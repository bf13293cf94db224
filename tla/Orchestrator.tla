---------------------------- MODULE Orchestrator ----------------------------
(***************************************************************************)
(* The attempts at one research run: ProspectingOrchestrator.execute takes *)
(* the request of the run through SearchSwarm (a job that is polled),      *)
(* ARGUS (an analysis and two optional enrichments, which are POSTs with   *)
(* keys of their own) and ReportForge (a job that is polled), and _execute *)
(* stores what comes of it.  A run that needs clarification gets a new     *)
(* request, and another attempt.                                           *)
(*                                                                         *)
(* A request is identified with the attempt it is for.  Every HTTP call    *)
(* goes through ServiceClient, which repeats a call that failed in transit *)
(* or at the service, whether or not the service had taken it in.  The     *)
(* services (external) keep one job per Idempotency-Key: a key they know   *)
(* is answered with the job they have.                                     *)
(***************************************************************************)
EXTENDS Naturals, FiniteSets

CONSTANTS
    MaxAttempts,  \* bound: the first request, and how many clarifications
    MaxRetries,   \* service_max_retries
    Deadline      \* max_duration_seconds, in ticks of the clock

ASSUME ConstantsAssumption ==
    MaxAttempts \in Nat \ {0} /\ MaxRetries \in Nat /\ Deadline \in Nat

VARIABLES
    status,    \* of the run: "running" while an attempt is under way
    attempt,   \* which attempt, and so which request
    pc,        \* the call the attempt is making
    tries,     \* repetitions of that call so far
    waited,    \* time since polling began, up to Deadline
    evidence,  \* the request that the evidence in hand was collected for, or 0
    unclear,   \* the dossier in hand is ambiguous, needs_review or not_found
    usage,     \* the jobs that the stored usage accounts for
    jobs       \* at the services: the jobs there are

vars == <<status, attempt, pc, tries, waited, evidence, unclear, usage, jobs>>

\* the POSTs that a service does work for, named by the call
Pipeline == {"search", "argus", "report"}
Enrichments == {"paths", "contact"}
Services == Pipeline \cup Enrichments
Attempts == 1..MaxAttempts
Keys == 0..MaxRetries
Calls == {"search", "search_poll", "search_result", "argus", "paths", "contact",
          "report", "report_poll", "artifacts"}
\* the sleep between two polls
Asleep == {"search_sleep", "report_sleep"}
Ended == {"completed", "unclear", "failed"}
NoJob == [request |-> 0, state |-> "none"]
JobIds == Services \X Keys

TypeOK ==
    /\ status \in {"running", "completed", "needs_clarification", "failed"}
    /\ attempt \in Attempts
    /\ pc \in Calls \cup Asleep \cup {"over"}
    /\ tries \in 0..MaxRetries
    /\ waited \in 0..Deadline
    /\ evidence \in Attempts \cup {0}
    /\ unclear \in BOOLEAN
    /\ usage \subseteq JobIds
    /\ jobs \in [JobIds -> [request : Attempts \cup {0},
                            state : Ended \cup {"none", "running"}]]
    /\ pc = "over" <=> status # "running"

Key_PerTry(n, try) == try

\* "reachpath-<service>-{run_id}": the same whatever the attempt and the try
Key(n, try) == 0

Init ==
    /\ status = "running" /\ attempt = 1
    /\ pc = "search" /\ tries = 0 /\ waited = 0
    /\ evidence = 0 /\ unclear = FALSE
    /\ usage = {}
    /\ jobs = [j \in JobIds |-> NoJob]

Job(service) == <<service, Key(attempt, tries)>>
Known(service) == jobs[Job(service)].state # "none"

\* A service takes a POST in.  A key it knows is not a new job.
TakeIn(service, state) ==
    IF Known(service) THEN UNCHANGED jobs
    ELSE jobs' = [jobs EXCEPT ![Job(service)] = [request |-> attempt, state |-> state]]

\* the job that a poll, and the call that follows it, asks for
Posted(service) == {k \in Keys : jobs[<<service, k>>].state # "none"}
Current(service) == jobs[<<service, CHOOSE k \in Posted(service) :
                                        \A o \in Posted(service) : o <= k>>]

\* the next call, with all its tries ahead
Then(call) ==
    /\ pc' = call /\ tries' = 0
    /\ UNCHANGED <<status, attempt, usage>>

GiveUp_StatusKept ==
    /\ pc' = "over" /\ tries' = 0
    /\ UNCHANGED <<status, attempt, waited, evidence, unclear, usage>>

\* _execute's except: failed, and no usage
GiveUp ==
    /\ status' = "failed" /\ pc' = "over" /\ tries' = 0
    /\ UNCHANGED <<attempt, waited, evidence, unclear, usage>>

-----------------------------------------------------------------------------
(* Calls that the services answer.                                         *)

Search ==
    /\ pc = "search"
    /\ TakeIn("search", "running")
    /\ Then("search_poll") /\ waited' = 0
    /\ UNCHANGED <<evidence, unclear>>

PollSearch ==
    /\ pc = "search_poll" /\ Current("search").state = "completed"
    /\ Then("search_result")
    /\ UNCHANGED <<waited, evidence, unclear, jobs>>

SearchResult ==
    /\ pc = "search_result"
    /\ evidence' = Current("search").request
    /\ Then("argus")
    /\ UNCHANGED <<waited, unclear, jobs>>

\* An ambiguous dossier does not stop the attempt; the enrichments are only
\* for a request with a source_person.
Argus ==
    /\ pc = "argus"
    /\ \E verdict \in {"completed", "unclear"} : TakeIn("argus", verdict)
    /\ unclear' = (jobs'[Job("argus")].state = "unclear")
    /\ Then("paths") \/ Then("report")
    /\ UNCHANGED <<waited, evidence>>

Paths ==
    /\ pc = "paths"
    /\ TakeIn("paths", "completed")
    /\ Then("contact")
    /\ UNCHANGED <<waited, evidence, unclear>>

Contact ==
    /\ pc = "contact"
    /\ TakeIn("contact", "completed")
    /\ Then("report")
    /\ UNCHANGED <<waited, evidence, unclear>>

Report ==
    /\ pc = "report"
    /\ TakeIn("report", "running")
    /\ Then("report_poll") /\ waited' = 0
    /\ UNCHANGED <<evidence, unclear>>

\* a report that failed, or was cancelled, is the end of polling all the same
PollReport ==
    /\ pc = "report_poll" /\ Current("report").state \in Ended
    /\ Then("artifacts")
    /\ UNCHANGED <<waited, evidence, unclear, jobs>>

JobsUsed_NoArgus == {Job("search"), Job("report")}

\* usage_breakdown: the usage reported with the evidence, the analysis and the
\* report; that of the enrichments is not looked at
JobsUsed == {Job(service) : service \in Pipeline}

\* execute returned: _execute stores the status, the result and the usage
Finish(used) ==
    /\ status' = IF unclear THEN "needs_clarification" ELSE "completed"
    /\ usage' = used
    /\ pc' = "over" /\ tries' = 0
    /\ UNCHANGED <<attempt, waited, evidence, unclear>>

Artifacts ==
    /\ pc = "artifacts"
    /\ Finish(JobsUsed)
    /\ UNCHANGED jobs

\* an answer without report_run_id is the report itself
ReportAtOnce ==
    /\ pc = "report"
    /\ TakeIn("report", "completed")
    /\ jobs'[Job("report")].state \in Ended
    /\ Finish(JobsUsed)

\* a request with dry_run calls no service at all
DryRun ==
    /\ pc = "search" /\ tries = 0
    /\ Finish({})
    /\ UNCHANGED jobs

PollAgain_NoDeadline ==
    /\ \/ pc = "search_poll" /\ Current("search").state = "running" /\ Then("search_sleep")
       \/ pc = "report_poll" /\ Current("report").state = "running" /\ Then("report_sleep")
    /\ UNCHANGED <<waited, evidence, unclear, jobs>>

\* a poll of a job that is still running, with time left
PollAgain ==
    /\ waited < Deadline
    /\ \/ pc = "search_poll" /\ Current("search").state = "running" /\ Then("search_sleep")
       \/ pc = "report_poll" /\ Current("report").state = "running" /\ Then("report_sleep")
    /\ UNCHANGED <<waited, evidence, unclear, jobs>>

Wake ==
    /\ \/ pc = "search_sleep" /\ Then("search_poll")
       \/ pc = "report_sleep" /\ Then("report_poll")
    /\ UNCHANGED <<waited, evidence, unclear, jobs>>

\* ... of a job that failed, or with no time left (the job is left running)
PollFailed ==
    /\ \/ pc = "search_poll" /\ Current("search").state = "failed"
       \/ pc = "search_poll" /\ Current("search").state = "running" /\ waited = Deadline
       \/ pc = "report_poll" /\ Current("report").state = "running" /\ waited = Deadline
    /\ GiveUp
    /\ UNCHANGED jobs

-----------------------------------------------------------------------------
(* Calls that fail.                                                        *)

Enriching == pc \in Enrichments

\* a service has taken a POST in, or has not, and no answer arrives
Disturbed ==
    \/ pc \in {"search", "report"} /\ TakeIn(pc, "running")
    \/ pc = "argus" /\ \E verdict \in {"completed", "unclear"} : TakeIn("argus", verdict)
    \/ Enriching /\ TakeIn(pc, "completed")
    \/ UNCHANGED jobs

Retry ==
    /\ pc \in Calls /\ tries < MaxRetries
    /\ Disturbed
    /\ tries' = tries + 1
    /\ UNCHANGED <<status, attempt, pc, waited, evidence, unclear, usage>>

\* httpx.HTTPError: the last try, or an answer that no retry will change
HttpError ==
    /\ pc \in Calls
    /\ Disturbed
    /\ IF Enriching
       THEN Then("report") /\ UNCHANGED <<waited, evidence, unclear>>
       ELSE GiveUp

\* ServiceCircuitOpenError, an answer that is no JSON or lacks run_id: not an
\* HTTPError, so not even an enrichment survives it
OtherError ==
    /\ pc \in Calls
    /\ Disturbed
    /\ GiveUp

-----------------------------------------------------------------------------
(* Around the attempt.                                                     *)

\* clarify_research: a new request for the run, no result and no usage
Clarify ==
    /\ status = "needs_clarification" /\ attempt < MaxAttempts
    /\ status' = "running" /\ attempt' = attempt + 1
    /\ pc' = "search" /\ tries' = 0 /\ waited' = 0
    /\ evidence' = 0 /\ unclear' = FALSE
    /\ usage' = {}
    /\ UNCHANGED jobs

JobEnds(j) ==
    /\ jobs[j].state = "running"
    /\ \E outcome \in {"completed", "failed"} :
        jobs' = [jobs EXCEPT ![j].state = outcome]
    /\ UNCHANGED <<status, attempt, pc, tries, waited, evidence, unclear, usage>>

Tick ==
    /\ pc \in {"search_poll", "report_poll"} \cup Asleep /\ waited < Deadline
    /\ waited' = waited + 1
    /\ UNCHANGED <<status, attempt, pc, tries, evidence, unclear, usage, jobs>>

Execute ==
    \/ Search \/ PollSearch \/ SearchResult
    \/ Argus \/ Paths \/ Contact
    \/ Report \/ PollReport \/ Artifacts \/ ReportAtOnce \/ DryRun
    \/ PollAgain \/ Wake \/ PollFailed
    \/ Retry \/ HttpError \/ OtherError

Next ==
    \/ Execute
    \/ Clarify
    \/ \E j \in JobIds : JobEnds(j)
    \/ Tick

Spec == Init /\ [][Next]_vars

\* Calls have timeouts and sleeps end, and the clock goes on; a job need not
\* end, and nobody has to clarify.
FairSpec == Spec /\ WF_vars(Execute) /\ WF_vars(Tick)

-----------------------------------------------------------------------------
(* Properties.                                                             *)

\* Retries never make a service do the same work twice: there is one job for
\* each request at most (the Idempotency-Key is the run's, not the call's).
OneJobPerRequest ==
    \A service \in Services, n \in Attempts :
        Cardinality({k \in Keys : jobs[<<service, k>>].request = n}) <= 1

Billed == {j \in JobIds : jobs[j].state \in Ended}

Uncounted == Billed \ usage

\* The usage stored with a result counts what was done and nothing else, and
\* what was done and is not counted are the enrichments at most, whatever was
\* repeated or clarified on the way (usage_breakdown, which leaves them out).
\* A dry run has no evidence.
UsageOfResult ==
    status \in {"completed", "needs_clarification"} /\ evidence # 0 =>
        usage \subseteq Billed /\ Uncounted \subseteq Enrichments \X Keys

\* Every attempt ends, also when a job never does.
AttemptEnds == status = "running" ~> status # "running"

\* What the README says of a clarification: the run is launched again with the
\* complete new request, so its result is about that request.
ResultOfLatestRequest ==
    status \in {"completed", "needs_clarification"} => evidence \in {0, attempt}
=============================================================================
