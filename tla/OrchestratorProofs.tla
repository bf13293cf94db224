------------------------- MODULE OrchestratorProofs -------------------------
(* Theorems about the attempts at one run, for any number of attempts and  *)
(* of retries, and any deadline.                                           *)
EXTENDS Orchestrator, FiniteSetTheorems, TLAPS

-----------------------------------------------------------------------------
(* The inductive invariant.                                                *)

JobRecord == [request : Attempts \cup {0}, state : Ended \cup {"none", "running"}]
The(service) == <<service, 0>>
Taken(service) == jobs[The(service)].state # "none"
Done(service) == jobs[The(service)].state \in Ended

\* Services see one key only, and ARGUS answers at once.
AtOnce == {"argus"} \cup Enrichments

Lone ==
    /\ \A j \in JobIds : j[2] # 0 => jobs[j] = NoJob
    /\ \A service \in AtOnce : jobs[The(service)].state \in {"none", "completed", "unclear"}

\* What the calls made so far have left at the services.
Collecting == {"search", "search_poll", "search_sleep", "search_result"}
Composing == {"report", "report_poll", "report_sleep", "artifacts"}

SoFar ==
    /\ pc \in Collecting => evidence = 0
    /\ pc \in {"search_poll", "search_sleep"} => Taken("search")
    /\ pc \in {"search_result", "argus", "paths", "contact"} \cup Composing => Done("search")
    /\ pc \in {"paths", "contact"} \cup Composing => Done("argus")
    /\ pc \in {"report_poll", "report_sleep"} => Taken("report")
    /\ pc = "artifacts" => Done("report")

\* A result that is about evidence has used the jobs of the pipeline.
Answered ==
    status \in {"completed", "needs_clarification"} /\ evidence # 0 =>
        /\ \A service \in Pipeline : Done(service)
        /\ usage = {The(service) : service \in Pipeline}

IInv == TypeOK /\ Lone /\ SoFar /\ Answered

-----------------------------------------------------------------------------
(* What happens at the services.                                           *)

\* Jobs are never forgotten, and what has ended stays as it is.
Kept ==
    \A service \in Services : /\ Taken(service) => Taken(service)'
                              /\ Done(service) => Done(service)'

LEMMA TheJob ==
    /\ \A service \in Services : The(service) \in JobIds /\ Job(service) = The(service)
    /\ JobsUsed = {The(service) : service \in Pipeline}
  <1>1. 0 \in Keys
    BY ConstantsAssumption DEF Keys
  <1> QED
    BY <1>1 DEF The, Job, JobsUsed, JobIds, Key, Services

LEMMA CurrentJob ==
    ASSUME IInv, NEW service \in Services, Taken(service)
    PROVE  Current(service) = jobs[The(service)]
  <1>1. Posted(service) = {0}
    <2>1. 0 \in Keys
      BY ConstantsAssumption DEF Keys
    <2>2. \A k \in Keys : k # 0 => jobs[<<service, k>>].state = "none"
      BY DEF IInv, Lone, JobIds, NoJob
    <2> QED
      BY <2>1, <2>2 DEF Posted, Taken, The
  <1>2. (CHOOSE k \in Posted(service) : \A o \in Posted(service) : o <= k) = 0
    BY <1>1
  <1> QED
    BY <1>2 DEF Current, The

LEMMA TakenIn ==
    ASSUME IInv, NEW service \in Services,
           NEW state \in {"running", "completed", "unclear"},
           service \in AtOnce => state # "running",
           TakeIn(service, state)
    PROVE  jobs' \in [JobIds -> JobRecord] /\ Lone' /\ Kept /\ Taken(service)'
  <1>1. The(service) \in JobIds /\ Job(service) = The(service)
    BY TheJob
  <1>2. jobs \in [JobIds -> JobRecord]
    BY DEF IInv, TypeOK, JobRecord
  <1>3. CASE Known(service)
    BY <1>1, <1>2, <1>3 DEF TakeIn, Known, Taken, Kept, Done, Lone, IInv
  <1>4. CASE ~Known(service)
    <2>1. PICK x : /\ x = [request |-> attempt, state |-> state]
                   /\ jobs' = [jobs EXCEPT ![The(service)] = x]
      BY <1>1, <1>4 DEF TakeIn
    <2>2. x \in JobRecord /\ x.state = state
      BY <2>1 DEF IInv, TypeOK, JobRecord, Ended
    <2>3. jobs' \in [JobIds -> JobRecord] /\ jobs'[The(service)] = x
          /\ \A j \in JobIds : j # The(service) => jobs'[j] = jobs[j]
      BY <1>1, <1>2, <2>1, <2>2
    <2>4. jobs[The(service)].state = "none"
      BY <1>1, <1>4 DEF Known
    <2>5. \A s \in Services : The(s) \in JobIds /\ (s # service => The(s) # The(service))
      BY TheJob DEF The
    <2>6. Kept /\ Taken(service)'
      BY <2>2, <2>3, <2>4, <2>5 DEF Kept, Taken, Done, Ended
    <2>7. Lone'
      <3>1. \A j \in JobIds : j[2] # 0 => jobs'[j] = NoJob
        BY <2>3 DEF IInv, Lone, The
      <3>2. \A s \in AtOnce : jobs'[The(s)].state \in {"none", "completed", "unclear"}
        BY <1>1, <2>2, <2>3, <2>5 DEF IInv, Lone, AtOnce, Services, Pipeline
      <3> QED
        BY <3>1, <3>2 DEF Lone
    <2> QED
      BY <2>3, <2>6, <2>7
  <1> QED
    BY <1>3, <1>4

LEMMA LeftAlone ==
    ASSUME IInv, UNCHANGED jobs
    PROVE  jobs' \in [JobIds -> JobRecord] /\ Lone' /\ Kept
  BY DEF IInv, TypeOK, JobRecord, Lone, Kept, Taken, Done

LEMMA Interrupted ==
    ASSUME IInv, Disturbed
    PROVE  jobs' \in [JobIds -> JobRecord] /\ Lone' /\ Kept
  <1>1. CASE pc \in {"search", "report"} /\ TakeIn(pc, "running")
    BY <1>1, TakenIn DEF Services, Pipeline, AtOnce, Enrichments
  <1>2. CASE \E verdict \in {"completed", "unclear"} : TakeIn("argus", verdict)
    BY <1>2, TakenIn DEF Services, Pipeline
  <1>3. CASE Enriching /\ TakeIn(pc, "completed")
    BY <1>3, TakenIn DEF Enriching, Services
  <1> QED
    BY <1>1, <1>2, <1>3, LeftAlone DEF Disturbed

LEMMA InitIInv == Init => IInv
  <1> SUFFICES ASSUME Init PROVE IInv
    OBVIOUS
  <1>1. 0 \in Keys /\ 0 \in 0..Deadline /\ 1 \in Attempts
    BY ConstantsAssumption DEF Keys, Attempts
  <1>2. NoJob \in JobRecord
    BY DEF NoJob, JobRecord
  <1>3. TypeOK
    BY <1>1, <1>2 DEF Init, TypeOK, Keys, Calls, JobRecord
  <1>4. \A service \in AtOnce : The(service) \in JobIds
    BY TheJob DEF AtOnce, Services, Pipeline
  <1> QED
    BY <1>3, <1>4 DEF Init, IInv, Lone, SoFar, Answered, NoJob, Composing

-----------------------------------------------------------------------------
(* Every action.                                                           *)

\* Progress is kept by what leaves the attempt where it is.
LEMMA SamePlace ==
    ASSUME IInv, Kept, UNCHANGED <<status, pc, evidence, usage>>
    PROVE  SoFar' /\ Answered'
  <1>1. \A service \in Services : (Taken(service) => Taken(service)') /\ (Done(service) => Done(service)')
    BY DEF Kept
  <1>2. SoFar'
    BY <1>1 DEF IInv, SoFar, Services, Pipeline
  <1>3. Answered'
    BY <1>1 DEF IInv, Answered, Services
  <1> QED
    BY <1>2, <1>3

\* An attempt that is under way has no result to account for.
LEMMA UnderWay ==
    ASSUME IInv, NEW call \in Calls \cup Asleep, Then(call), pc # "over"
    PROVE  Answered' /\ status' \in {"running"} /\ pc' = call /\ tries' \in 0..MaxRetries
           /\ UNCHANGED <<attempt, usage>>
  BY ConstantsAssumption DEF IInv, TypeOK, Then, Answered

\* The end of an attempt that has failed.
LEMMA GivenUp ==
    ASSUME IInv, GiveUp, jobs' \in [JobIds -> JobRecord], Lone'
    PROVE  IInv'
  <1>1. TypeOK'
    BY ConstantsAssumption DEF IInv, TypeOK, GiveUp, JobRecord
  <1>2. SoFar' /\ Answered'
    BY DEF GiveUp, SoFar, Answered, Collecting, Composing
  <1> QED
    BY <1>1, <1>2 DEF IInv

LEMMA CallsStep ==
    ASSUME IInv, Search \/ PollSearch \/ SearchResult \/ Argus \/ Paths \/ Contact
                 \/ Report \/ PollReport
    PROVE  IInv'
  <1> USE DEF Collecting, Composing, Calls, Asleep, Services, Pipeline, Enrichments, AtOnce
  <1>1. CASE Search
    <2>1. jobs' \in [JobIds -> JobRecord] /\ Lone' /\ Kept /\ Taken("search")'
      BY <1>1, TakenIn DEF Search
    <2>2. Answered' /\ status' \in {"running"} /\ pc' = "search_poll" /\ tries' \in 0..MaxRetries
          /\ UNCHANGED <<attempt, usage>>
      BY <1>1, UnderWay DEF Search
    <2>3. TypeOK'
      BY <1>1, <2>1, <2>2, ConstantsAssumption DEF IInv, TypeOK, Search, JobRecord
    <2>4. SoFar'
      BY <1>1, <2>1, <2>2 DEF IInv, SoFar, Search
    <2> QED
      BY <2>1, <2>2, <2>3, <2>4 DEF IInv
  <1>2. CASE PollSearch
    <2>1. jobs' \in [JobIds -> JobRecord] /\ Lone' /\ Kept
      BY <1>2, LeftAlone DEF PollSearch
    <2>2. Answered' /\ status' \in {"running"} /\ pc' = "search_result" /\ tries' \in 0..MaxRetries
          /\ UNCHANGED <<attempt, usage>>
      BY <1>2, UnderWay DEF PollSearch
    <2>3. TypeOK'
      BY <1>2, <2>1, <2>2 DEF IInv, TypeOK, PollSearch, JobRecord
    <2>4. Taken("search")
      BY <1>2 DEF IInv, SoFar, PollSearch
    <2>5. Done("search")'
      BY <1>2, <2>1, <2>4, CurrentJob DEF PollSearch, Done, Ended, Kept
    <2>6. SoFar'
      BY <1>2, <2>2, <2>5 DEF IInv, SoFar, PollSearch
    <2> QED
      BY <2>1, <2>2, <2>3, <2>6 DEF IInv
  <1>3. CASE SearchResult
    <2>1. jobs' \in [JobIds -> JobRecord] /\ Lone' /\ Kept
      BY <1>3, LeftAlone DEF SearchResult
    <2>2. Answered' /\ status' \in {"running"} /\ pc' = "argus" /\ tries' \in 0..MaxRetries
          /\ UNCHANGED <<attempt, usage>>
      BY <1>3, UnderWay DEF SearchResult
    <2>3. Done("search")
      BY <1>3 DEF IInv, SoFar, SearchResult
    <2>4. Current("search") \in JobRecord
      <3>1. Taken("search")
        BY <2>3 DEF Done, Taken, Ended
      <3> QED
        BY <3>1, CurrentJob, TheJob DEF IInv, TypeOK, JobRecord
    <2>5. evidence' \in Attempts \cup {0}
      BY <1>3, <2>4 DEF SearchResult, JobRecord
    <2>6. TypeOK'
      BY <1>3, <2>1, <2>2, <2>5 DEF IInv, TypeOK, SearchResult, JobRecord
    <2>7. SoFar'
      BY <2>1, <2>2, <2>3 DEF SoFar, Kept
    <2> QED
      BY <2>1, <2>2, <2>6, <2>7 DEF IInv
  <1>4. CASE Argus
    <2>1. jobs' \in [JobIds -> JobRecord] /\ Lone' /\ Kept /\ Taken("argus")'
      BY <1>4, TakenIn DEF Argus
    <2>2. PICK call \in {"paths", "report"} : Then(call)
      BY <1>4 DEF Argus
    <2>3. Answered' /\ status' \in {"running"} /\ pc' = call /\ tries' \in 0..MaxRetries
          /\ UNCHANGED <<attempt, usage>>
      BY <1>4, <2>2, UnderWay DEF Argus
    <2>4. TypeOK'
      BY <1>4, <2>1, <2>3 DEF IInv, TypeOK, Argus, JobRecord
    <2>5. Done("argus")'
      BY <2>1 DEF Lone, Taken, Done, Ended
    <2>6. Done("search")'
      BY <1>4, <2>1 DEF IInv, SoFar, Argus, Kept
    <2>7. SoFar'
      BY <2>3, <2>5, <2>6 DEF SoFar
    <2> QED
      BY <2>1, <2>3, <2>4, <2>7 DEF IInv
  <1>5. CASE Paths \/ Contact
    <2>1. jobs' \in [JobIds -> JobRecord] /\ Lone' /\ Kept
      BY <1>5, TakenIn DEF Paths, Contact
    <2>2. PICK call \in {"contact", "report"} : Then(call)
      BY <1>5 DEF Paths, Contact
    <2>3. Answered' /\ status' \in {"running"} /\ pc' = call /\ tries' \in 0..MaxRetries
          /\ UNCHANGED <<attempt, usage>>
      BY <1>5, <2>2, UnderWay DEF Paths, Contact
    <2>4. TypeOK'
      BY <1>5, <2>1, <2>3 DEF IInv, TypeOK, Paths, Contact, JobRecord
    <2>5. Done("argus")' /\ Done("search")'
      BY <1>5, <2>1 DEF IInv, SoFar, Paths, Contact, Kept
    <2>6. SoFar'
      BY <2>3, <2>5 DEF SoFar
    <2> QED
      BY <2>1, <2>3, <2>4, <2>6 DEF IInv
  <1>6. CASE Report
    <2>1. jobs' \in [JobIds -> JobRecord] /\ Lone' /\ Kept /\ Taken("report")'
      BY <1>6, TakenIn DEF Report
    <2>2. Answered' /\ status' \in {"running"} /\ pc' = "report_poll" /\ tries' \in 0..MaxRetries
          /\ UNCHANGED <<attempt, usage>>
      BY <1>6, UnderWay DEF Report
    <2>3. TypeOK'
      BY <1>6, <2>1, <2>2, ConstantsAssumption DEF IInv, TypeOK, Report, JobRecord
    <2>4. Done("argus")' /\ Done("search")'
      BY <1>6, <2>1 DEF IInv, SoFar, Report, Kept
    <2>5. SoFar'
      BY <2>1, <2>2, <2>4 DEF SoFar
    <2> QED
      BY <2>1, <2>2, <2>3, <2>5 DEF IInv
  <1>7. CASE PollReport
    <2>1. jobs' \in [JobIds -> JobRecord] /\ Lone' /\ Kept
      BY <1>7, LeftAlone DEF PollReport
    <2>2. Answered' /\ status' \in {"running"} /\ pc' = "artifacts" /\ tries' \in 0..MaxRetries
          /\ UNCHANGED <<attempt, usage>>
      BY <1>7, UnderWay DEF PollReport
    <2>3. TypeOK'
      BY <1>7, <2>1, <2>2 DEF IInv, TypeOK, PollReport, JobRecord
    <2>4. Taken("report") /\ Done("argus")' /\ Done("search")'
      BY <1>7, <2>1 DEF IInv, SoFar, PollReport, Kept
    <2>5. Done("report")'
      BY <1>7, <2>1, <2>4, CurrentJob DEF PollReport, Done, Kept
    <2>6. SoFar'
      BY <2>2, <2>4, <2>5 DEF SoFar
    <2> QED
      BY <2>1, <2>2, <2>3, <2>6 DEF IInv
  <1> QED
    BY <1>1, <1>2, <1>3, <1>4, <1>5, <1>6, <1>7

\* The result and its usage are stored.
LEMMA FinishStep ==
    ASSUME IInv, Artifacts \/ ReportAtOnce \/ DryRun
    PROVE  IInv'
  <1> USE DEF Collecting, Composing
  <1>1. CASE Artifacts \/ ReportAtOnce
    <2>1. jobs' \in [JobIds -> JobRecord] /\ Lone' /\ Kept
      BY <1>1, LeftAlone, TakenIn DEF Artifacts, ReportAtOnce, Services, Pipeline, AtOnce, Enrichments
    <2>2. Finish(JobsUsed)
      BY <1>1 DEF Artifacts, ReportAtOnce
    <2>3. JobsUsed = {The(service) : service \in Pipeline} /\ JobsUsed \subseteq JobIds
      BY TheJob DEF Services
    <2>4. TypeOK'
      BY <2>1, <2>2, <2>3, ConstantsAssumption DEF IInv, TypeOK, Finish, JobRecord
    <2>5. Done("report")'
      BY <1>1, <2>1, TheJob DEF Artifacts, ReportAtOnce, IInv, SoFar, Kept, Done, Services, Pipeline
    <2>6. Done("search")' /\ Done("argus")'
      BY <1>1, <2>1 DEF Artifacts, ReportAtOnce, IInv, SoFar, Kept, Services, Pipeline
    <2>7. \A service \in Pipeline : Done(service)'
      BY <2>5, <2>6 DEF Pipeline
    <2>8. Answered'
      BY <2>2, <2>3, <2>7 DEF Finish, Answered
    <2>9. SoFar'
      BY <2>2 DEF Finish, SoFar
    <2> QED
      BY <2>1, <2>4, <2>8, <2>9 DEF IInv
  <1>2. CASE DryRun
    <2>1. jobs' \in [JobIds -> JobRecord] /\ Lone'
      BY <1>2, LeftAlone DEF DryRun
    <2>2. TypeOK'
      BY <1>2, <2>1, ConstantsAssumption DEF DryRun, IInv, TypeOK, Finish, JobRecord
    <2>3. evidence' = 0 /\ pc' = "over"
      BY <1>2 DEF DryRun, Finish, IInv, SoFar
    <2>4. SoFar' /\ Answered'
      BY <2>3 DEF SoFar, Answered
    <2> QED
      BY <2>1, <2>2, <2>4 DEF IInv
  <1> QED
    BY <1>1, <1>2

\* Between two polls.
LEMMA WaitStep ==
    ASSUME IInv, PollAgain \/ Wake \/ Tick
    PROVE  IInv'
  <1> USE DEF Collecting, Composing, Calls, Asleep, Services, Pipeline
  <1>1. jobs' \in [JobIds -> JobRecord] /\ Lone' /\ Kept
    BY LeftAlone DEF PollAgain, Wake, Tick
  <1>2. CASE PollAgain \/ Wake
    <2>1. PICK service \in {"search", "report"}, call \in Calls \cup Asleep :
            /\ Then(call) /\ pc # "over"
            /\ service = "search" => pc \in {"search_poll", "search_sleep"}
                                    /\ call \in {"search_poll", "search_sleep"}
            /\ service = "report" => pc \in {"report_poll", "report_sleep"}
                                    /\ call \in {"report_poll", "report_sleep"}
      BY <1>2 DEF PollAgain, Wake
    <2>2. UNCHANGED <<waited, evidence, unclear, jobs>>
      BY <1>2 DEF PollAgain, Wake
    <2>3. Answered' /\ status' \in {"running"} /\ pc' = call /\ tries' \in 0..MaxRetries
          /\ UNCHANGED <<attempt, usage>>
      BY <2>1, UnderWay
    <2>4. TypeOK'
      BY <1>1, <2>1, <2>2, <2>3 DEF IInv, TypeOK, JobRecord
    <2>5. SoFar'
      BY <1>1, <2>1, <2>2, <2>3 DEF IInv, SoFar, Kept
    <2> QED
      BY <1>1, <2>3, <2>4, <2>5 DEF IInv
  <1>3. CASE Tick
    <2>1. TypeOK'
      BY <1>1, <1>3, ConstantsAssumption DEF IInv, TypeOK, Tick, JobRecord
    <2>2. SoFar' /\ Answered'
      BY <1>1, <1>3, SamePlace DEF Tick
    <2> QED
      BY <1>1, <2>1, <2>2 DEF IInv
  <1> QED
    BY <1>2, <1>3

\* Calls that fail.
LEMMA FailureStep ==
    ASSUME IInv, PollFailed \/ Retry \/ HttpError \/ OtherError
    PROVE  IInv'
  <1> USE DEF Collecting, Composing, Services, Pipeline
  <1>1. CASE PollFailed
    BY <1>1, LeftAlone, GivenUp DEF PollFailed
  <1>2. CASE Retry
    <2>1. jobs' \in [JobIds -> JobRecord] /\ Lone' /\ Kept
      BY <1>2, Interrupted DEF Retry
    <2>2. TypeOK'
      BY <1>2, <2>1, ConstantsAssumption DEF IInv, TypeOK, Retry, JobRecord
    <2>3. SoFar' /\ Answered'
      BY <1>2, <2>1, SamePlace DEF Retry
    <2> QED
      BY <2>1, <2>2, <2>3 DEF IInv
  <1>3. CASE OtherError \/ (HttpError /\ ~Enriching)
    <2>1. jobs' \in [JobIds -> JobRecord] /\ Lone'
      BY <1>3, Interrupted DEF OtherError, HttpError
    <2> QED
      BY <1>3, <2>1, GivenUp DEF OtherError, HttpError
  <1>4. CASE HttpError /\ Enriching
    <2>1. jobs' \in [JobIds -> JobRecord] /\ Lone' /\ Kept
      BY <1>4, Interrupted DEF HttpError
    <2>2. Then("report") /\ UNCHANGED <<waited, evidence, unclear>> /\ pc # "over"
      BY <1>4 DEF HttpError, Enriching, Enrichments
    <2>3. Answered' /\ status' \in {"running"} /\ pc' = "report" /\ tries' \in 0..MaxRetries
          /\ UNCHANGED <<attempt, usage>>
      BY <2>2, UnderWay DEF Calls
    <2>4. TypeOK'
      BY <2>1, <2>2, <2>3 DEF IInv, TypeOK, JobRecord, Calls
    <2>5. Done("argus")' /\ Done("search")'
      BY <1>4, <2>1 DEF IInv, SoFar, Enriching, Enrichments, Kept
    <2>6. SoFar'
      BY <2>3, <2>5 DEF SoFar
    <2> QED
      BY <2>1, <2>3, <2>4, <2>6 DEF IInv
  <1> QED
    BY <1>1, <1>2, <1>3, <1>4

LEMMA ClarifyStep ==
    ASSUME IInv, Clarify
    PROVE  IInv'
  <1>1. jobs' \in [JobIds -> JobRecord] /\ Lone'
    BY LeftAlone DEF Clarify
  <1>2. attempt' \in Attempts /\ 0 \in 0..Deadline /\ 0 \in 0..MaxRetries
    BY ConstantsAssumption DEF IInv, TypeOK, Clarify, Attempts
  <1>3. TypeOK'
    BY <1>1, <1>2 DEF TypeOK, Clarify, JobRecord, Calls
  <1>4. SoFar' /\ Answered'
    BY DEF Clarify, SoFar, Answered, Composing
  <1> QED
    BY <1>1, <1>3, <1>4 DEF IInv

LEMMA JobEndsStep ==
    ASSUME IInv, NEW j \in JobIds, JobEnds(j)
    PROVE  IInv'
  <1>0. PICK outcome \in {"completed", "failed"} :
            jobs' = [jobs EXCEPT ![j] = [jobs[j] EXCEPT !.state = outcome]]
    BY DEF JobEnds
  <1>1. PICK x : /\ x = [jobs[j] EXCEPT !.state = outcome]
                 /\ jobs' = [jobs EXCEPT ![j] = x]
    BY <1>0
  <1>2. jobs \in [JobIds -> JobRecord] /\ jobs[j].state = "running"
    BY DEF IInv, TypeOK, JobRecord, JobEnds
  <1>3. x \in JobRecord /\ x.state \in Ended
    BY <1>1, <1>2 DEF JobRecord, Ended
  <1>4. jobs' \in [JobIds -> JobRecord] /\ jobs'[j] = x
        /\ \A i \in JobIds : i # j => jobs'[i] = jobs[i]
    BY <1>1, <1>2, <1>3
  <1>5. Kept
    BY <1>2, <1>3, <1>4, TheJob DEF Kept, Taken, Done, Ended
  <1>6. Lone'
    <2>1. j[2] = 0 /\ \A service \in AtOnce : j # The(service)
      BY <1>2 DEF IInv, Lone, NoJob
    <2> QED
      BY <1>4, <2>1, TheJob DEF IInv, Lone, AtOnce, Services, Pipeline
  <1>7. UNCHANGED <<status, attempt, pc, tries, waited, evidence, unclear, usage>>
    BY DEF JobEnds
  <1>8. TypeOK'
    BY <1>4, <1>7 DEF IInv, TypeOK, JobRecord
  <1>9. SoFar' /\ Answered'
    BY <1>5, <1>7, SamePlace
  <1> QED
    BY <1>6, <1>8, <1>9 DEF IInv

LEMMA StepIInv == IInv /\ [Next]_vars => IInv'
  <1> SUFFICES ASSUME IInv, [Next]_vars PROVE IInv'
    OBVIOUS
  <1>1. CASE Execute
    BY <1>1, CallsStep, FinishStep, WaitStep, FailureStep DEF Execute
  <1>2. CASE UNCHANGED vars
    <2>1. TypeOK'
      BY <1>2 DEF IInv, TypeOK, vars
    <2>2. Lone' /\ Kept
      BY <1>2, LeftAlone DEF vars
    <2>3. SoFar' /\ Answered'
      BY <1>2, <2>2, SamePlace DEF vars
    <2> QED
      BY <2>1, <2>2, <2>3 DEF IInv
  <1> QED
    BY <1>1, <1>2, ClarifyStep, JobEndsStep, WaitStep DEF Next

-----------------------------------------------------------------------------
(* The theorems.                                                           *)

THEOREM Inductive == Spec => []IInv
  BY InitIInv, StepIInv, PTL DEF Spec

\* An attempt is over exactly when the status says so.
THEOREM TypeCorrect == Spec => []TypeOK
  <1>1. IInv => TypeOK
    BY DEF IInv
  <1> QED
    BY <1>1, Inductive, PTL

\* However often calls are repeated, a service has one job for a request at
\* most: the Idempotency-Key is the run's.
THEOREM WorkDoneOnce == Spec => []OneJobPerRequest
  <1>1. IInv => OneJobPerRequest
    <2> SUFFICES ASSUME IInv, NEW service \in Services, NEW n \in Attempts
                 PROVE  Cardinality({k \in Keys : jobs[<<service, k>>].request = n}) <= 1
      BY DEF OneJobPerRequest
    <2> DEFINE K == {k \in Keys : jobs[<<service, k>>].request = n}
    <2>1. K \subseteq {0}
      <3>1. \A k \in Keys : k # 0 => jobs[<<service, k>>].request = 0
        BY DEF IInv, Lone, JobIds, NoJob
      <3>2. n # 0
        BY DEF Attempts
      <3> QED
        BY <3>1, <3>2
    <2>2. Cardinality({0}) = 1 /\ IsFiniteSet({0})
      BY FS_Singleton
    <2>3. Cardinality(K) <= Cardinality({0})
      BY <2>1, <2>2, FS_Subset
    <2> QED
      BY <2>2, <2>3
  <1> QED
    BY <1>1, Inductive, PTL

\* The usage stored with a result counts the jobs of the pipeline, all of them
\* done, and nothing else; what was done for the run and is not counted are
\* enrichments only (usage_breakdown), after retries and after clarifications.
THEOREM PipelineCounted == Spec => []UsageOfResult
  <1>1. IInv => UsageOfResult
    <2> SUFFICES ASSUME IInv, status \in {"completed", "needs_clarification"}, evidence # 0
                 PROVE  usage \subseteq Billed /\ Uncounted \subseteq Enrichments \X Keys
      BY DEF UsageOfResult
    <2>1. (\A service \in Pipeline : Done(service)) /\ usage = {The(service) : service \in Pipeline}
      BY DEF IInv, Answered
    <2>2. usage \subseteq Billed
      BY <2>1, TheJob DEF Billed, Done, Services
    <2>3. ASSUME NEW j \in Uncounted PROVE j \in Enrichments \X Keys
      <3>1. j \in JobIds /\ jobs[j].state \in Ended /\ j \notin usage
        BY <2>3 DEF Uncounted, Billed
      <3>2. j[2] = 0
        BY <3>1 DEF IInv, Lone, NoJob, Ended
      <3>3. PICK service \in Services, k \in Keys : j = <<service, k>>
        BY <3>1 DEF JobIds
      <3>4. j = The(service)
        BY <3>2, <3>3 DEF The
      <3>5. service \notin Pipeline
        BY <2>1, <3>1, <3>4
      <3> QED
        BY <3>3, <3>5 DEF Services
    <2> QED
      BY <2>2, <2>3
  <1> QED
    BY <1>1, Inductive, PTL
=============================================================================
