---------------------------- MODULE ResearchRuns ----------------------------
(***************************************************************************)
(* The life of research runs: rows of the table research_runs, read and    *)
(* written by the HTTP handlers of API processes (create, cancel, clarify, *)
(* purge, privacy delete) and by the executors of _execute: background     *)
(* tasks of an API process, or the one loop of a worker process.           *)
(*                                                                         *)
(* Granularity.  A process runs one asyncio event loop and its SQLAlchemy  *)
(* calls are synchronous, so inside a process a coroutine is interrupted   *)
(* only where it awaits (Awaiting).  Other processes share nothing but the *)
(* database and interleave between any two statements: a SELECT and the    *)
(* UPDATE that relies on it are therefore two actions.                     *)
(***************************************************************************)
EXTENDS Naturals, FiniteSets, FiniteSetsExt

CONSTANTS
    MaxRuns,      \* bound: how many runs are ever created
    Workspaces, Keys, Requests,
    None,         \* SQL NULL, and "not there"
    PersonOf,     \* the person a request is about
    MaxCostOf,    \* max_cost_usd of a request
    Budget,       \* monthly_budget_usd
    Charges,      \* what an attempt can turn out to cost
    ApiProcs, Workers,
    Executors,    \* coroutines that can be inside _execute
    Host,         \* the process an executor runs in
    AutoExecute,  \* REACHPATH_AUTO_EXECUTE
    BatchLimit,   \* the LIMIT of RunStore.queued
    MaxCrashes, MaxFaults, MaxDays, MaxMonths  \* bounds on the environment

Procs == ApiProcs \cup Workers
Runs == 1..MaxRuns
Persons == {PersonOf[q] : q \in Requests}

ASSUME ConstantsAssumption ==
    /\ MaxRuns \in Nat /\ Budget \in Nat /\ BatchLimit \in Nat \ {0}
    /\ Charges \subseteq Nat
    /\ MaxCostOf \in [Requests -> Nat]
    /\ DOMAIN PersonOf = Requests
    /\ None \notin Workspaces \cup Keys \cup Requests
    /\ ApiProcs \cap Workers = {}
    /\ Host \in [Executors -> ApiProcs \cup Workers]
    /\ AutoExecute \in BOOLEAN
    /\ {MaxCrashes, MaxFaults, MaxDays, MaxMonths} \subseteq Nat

\* A finite deployment, and charges with a largest among them.
ASSUME FinitenessAssumption == IsFiniteSet(Executors) /\ IsFiniteSet(Charges)

VARIABLES
    rows,       \* research_runs, by run; ids are given out in created_at order
    nextRun,    \* the id the next ResearchRun() gets
    thisMonth,  \* runs whose created_at lies in the current calendar month
    aged,       \* runs whose updated_at is at least a day old
    ex,         \* executors: where each is inside _execute, and its locals
    inbox,      \* per process: runs handed over to its executors, not yet claimed
    handler,    \* per API process: the HTTP handler it is in the middle of
    audit,      \* research_run events in the table audit_events
    env         \* how often the environment has struck

vars == <<rows, nextRun, thisMonth, aged, ex, inbox, handler, audit, env>>

Statuses == {"queued", "running", "needs_clarification", "completed",
             "failed", "cancelled"}
Final == {"completed", "needs_clarification", "failed", "cancelled"}
Outcomes == {"completed", "needs_clarification", "failed", "budget_exhausted"}
RunEvents == {"created", "replayed", "cancelled", "clarified",
              "status_changed", "failed", "budget_exhausted"}

NoRow == [ws |-> None, key |-> None, req |-> None, status |-> "absent",
          result |-> None, cost |-> 0]

\* A deleted row leaves its workspace behind: an attempt under way goes on with
\* the workspace it was started for (the workspace_id of _execute).
DeletedRow(row) == [NoRow EXCEPT !.status = "deleted", !.ws = row.ws]
IdleExecutor == [pc |-> "idle", run |-> 0, req |-> None,
                 outcome |-> "none", cost |-> 0]
NoHandler == [op |-> "none", run |-> 0, ws |-> None, key |-> None,
              req |-> None, event |-> "none", victims |-> {}]

Row == [ws : Workspaces \cup {None}, key : Keys \cup {None},
        req : Requests \cup {None}, status : Statuses \cup {"absent", "deleted"},
        result : Requests \cup {None}, cost : Nat]
ExecutorState ==
    [pc : {"idle", "claim", "budget", "call", "select", "write", "audit", "dispatch"},
     run : Runs \cup {0}, req : Requests \cup {None},
     outcome : Outcomes \cup {"none"}, cost : Nat]
HandlerState ==
    [op : {"none", "create", "cancel_select", "cancel_commit", "clarify",
           "delete", "audit"},
     run : Runs \cup {0}, ws : Workspaces \cup {None}, key : Keys \cup {None},
     req : Requests \cup {None}, event : RunEvents \cup {"none"},
     victims : SUBSET Runs]

Live(r) == rows[r].status \in Statuses

TypeOK ==
    /\ rows \in [Runs -> Row]
    /\ nextRun \in 1..(MaxRuns + 1)
    /\ thisMonth \subseteq Runs /\ aged \subseteq Runs
    /\ ex \in [Executors -> ExecutorState]
    /\ inbox \in [Procs -> SUBSET Runs]
    /\ handler \in [ApiProcs -> HandlerState]
    /\ audit \subseteq Runs \X RunEvents
    /\ env \in [crash : 0..MaxCrashes, fault : 0..MaxFaults,
                day : 0..MaxDays, month : 0..MaxMonths]
    \* locals that are set when they are used
    /\ \A e \in Executors :
        /\ ex[e].pc # "idle" => ex[e].run \in Runs
        /\ ex[e].pc \notin {"idle", "claim"} => ex[e].req \in Requests
        /\ ex[e].pc \in {"select", "write", "audit", "dispatch"} =>
                ex[e].outcome \in Outcomes
    /\ \A p \in ApiProcs :
        /\ handler[p].op \notin {"none", "delete"} => handler[p].run \in Runs
        /\ handler[p].op = "create" =>
                handler[p].ws \in Workspaces /\ handler[p].req \in Requests
        /\ handler[p].op = "clarify" => handler[p].req \in Requests
        /\ handler[p].op = "audit" => handler[p].event \in RunEvents
    /\ \A r \in Runs :
        Live(r) => rows[r].ws \in Workspaces /\ rows[r].req \in Requests

-----------------------------------------------------------------------------
(* What the queries of RunStore compute.                                   *)

InWorkspace(ws) == {r \in Runs : Live(r) /\ rows[r].ws = ws}

\* RunStore.monthly_cost: the usage stored on this month's rows
Consumed(ws) ==
    MapThenSumSet(LAMBDA r : rows[r].cost, InWorkspace(ws) \cap thisMonth)

WithKey(ws, k) == {r \in InWorkspace(ws) : k # None /\ rows[r].key = k}
Queued == {r \in Runs : rows[r].status = "queued"}

OldestQueued_OffByOne ==
    {r \in Queued : Cardinality({o \in Queued : o <= r}) < BatchLimit}

\* RunStore.queued: the BatchLimit oldest queued runs
OldestQueued ==
    {r \in Queued : Cardinality({o \in Queued : o < r}) < BatchLimit}

\* What a coroutine leaves to the others of its process: only an await.
Awaiting == {"idle", "call", "dispatch"}
Busy(p) ==
    \/ p \in ApiProcs /\ handler[p].op # "none"
    \/ \E e \in Executors : Host[e] = p /\ ex[e].pc \notin Awaiting

Hosted(p) == {e \in Executors : Host[e] = p}

Init ==
    /\ rows = [r \in Runs |-> NoRow]
    /\ nextRun = 1
    /\ thisMonth = {} /\ aged = {}
    /\ ex = [e \in Executors |-> IdleExecutor]
    /\ inbox = [p \in Procs |-> {}]
    /\ handler = [p \in ApiProcs |-> NoHandler]
    /\ audit = {}
    /\ env = [crash |-> 0, fault |-> 0, day |-> 0, month |-> 0]

-----------------------------------------------------------------------------
(* HTTP handlers.  A handler that refuses (402, 404, 409) changes nothing  *)
(* and is not an action.  Its last write, when it is about one run, is the *)
(* audit event, after which the response starts the background task.       *)

Begin(p, h) ==
    /\ handler' = [handler EXCEPT ![p] = h]
    /\ UNCHANGED <<rows, thisMonth, aged, ex, inbox, audit, env>>

\* A handler that ends early: a lost update or an integrity error is a 500.
Abort(p) ==
    /\ handler' = [handler EXCEPT ![p] = NoHandler]
    /\ UNCHANGED <<rows, nextRun, thisMonth, aged, ex, inbox, audit, env>>

\* rows[r] becomes row, stamped now, and the handler goes on to its audit.
StoreAndAudit(p, r, row, event) ==
    /\ rows' = [rows EXCEPT ![r] = row]
    /\ aged' = aged \ {r}
    /\ handler' = [handler EXCEPT ![p] = [NoHandler EXCEPT
                        !.op = "audit", !.run = r, !.event = event]]
    /\ UNCHANGED <<nextRun, thisMonth, ex, inbox, audit, env>>

Ready(p) == p \in ApiProcs /\ ~Busy(p)

\* create_research's 402 check: nothing is reserved for the runs under way
Affordable(ws, q) ==
    /\ Consumed(ws) < Budget
    /\ Consumed(ws) + MaxCostOf[q] <= Budget

\* create_research, RunStore.create: the key is known with the same request
ReplayResearch(p, ws, k, q) ==
    /\ Ready(p) /\ Affordable(ws, q)
    /\ \E r \in WithKey(ws, k) :
        /\ rows[r].req = q
        /\ Begin(p, [NoHandler EXCEPT !.op = "audit", !.run = r, !.event = "replayed"])
    /\ UNCHANGED nextRun

\* ... or it is not known, and a ResearchRun() is built for it
CreateResearch(p, ws, k, q) ==
    /\ Ready(p) /\ Affordable(ws, q)
    /\ WithKey(ws, k) = {}
    /\ nextRun \in Runs
    /\ nextRun' = nextRun + 1
    /\ thisMonth' = thisMonth \cup {nextRun}
    /\ handler' = [handler EXCEPT ![p] = [NoHandler EXCEPT
                        !.op = "create", !.run = nextRun,
                        !.ws = ws, !.key = k, !.req = q]]
    /\ UNCHANGED <<rows, aged, ex, inbox, audit, env>>

InsertRun_NotUnique(p) ==
    LET h == handler[p] IN
    /\ h.op = "create"
    /\ StoreAndAudit(p, h.run,
           [NoRow EXCEPT !.ws = h.ws, !.key = h.key, !.req = h.req,
                         !.status = "queued"], "created")

InsertRun_NoWorkspace(p) ==
    LET h == handler[p] IN
    /\ h.op = "create"
    /\ StoreAndAudit(p, h.run,
           [NoRow EXCEPT !.key = h.key, !.req = h.req, !.status = "queued"], "created")

\* RunStore.create commits; UNIQUE (workspace_id, idempotency_key) may refuse
InsertRun(p) ==
    LET h == handler[p] IN
    /\ h.op = "create"
    /\ IF WithKey(h.ws, h.key) = {}
       THEN StoreAndAudit(p, h.run,
                [NoRow EXCEPT !.ws = h.ws, !.key = h.key, !.req = h.req,
                              !.status = "queued"], "created")
       ELSE Abort(p)

RecordAudit_ClarifyNotScheduled(p) ==
    LET h == handler[p] IN
    /\ h.op = "audit"
    /\ audit' = audit \cup {<<h.run, h.event>>}
    /\ handler' = [handler EXCEPT ![p] = NoHandler]
    /\ inbox' = IF AutoExecute /\ h.event = "created"
                THEN [inbox EXCEPT ![p] = @ \cup {h.run}] ELSE inbox
    /\ UNCHANGED <<rows, nextRun, thisMonth, aged, ex, env>>

\* record_audit, then the response, then its background task if there is one
RecordAudit(p) ==
    LET h == handler[p] IN
    /\ h.op = "audit"
    /\ audit' = audit \cup {<<h.run, h.event>>}
    /\ handler' = [handler EXCEPT ![p] = NoHandler]
    /\ inbox' = IF AutoExecute /\ h.event \in {"created", "clarified"}
                THEN [inbox EXCEPT ![p] = @ \cup {h.run}] ELSE inbox
    /\ UNCHANGED <<rows, nextRun, thisMonth, aged, ex, env>>

\* cancel_research: get ...
CancelGet(p, r) ==
    /\ Ready(p) /\ rows[r].status \in {"queued", "running"}
    /\ Begin(p, [NoHandler EXCEPT !.op = "cancel_select", !.run = r])
    /\ UNCHANGED nextRun

\* ... update's SELECT; a row gone by then is audited all the same ("or run") ...
CancelSelect(p) ==
    LET h == handler[p] IN
    /\ h.op = "cancel_select"
    /\ Begin(p, IF Live(h.run) THEN [h EXCEPT !.op = "cancel_commit"]
                ELSE [h EXCEPT !.op = "audit", !.event = "cancelled"])
    /\ UNCHANGED nextRun

CancelCommit_NoAudit(p) ==
    LET h == handler[p] IN
    /\ h.op = "cancel_commit" /\ Live(h.run)
    /\ rows' = [rows EXCEPT ![h.run].status = "cancelled"]
    /\ aged' = aged \ {h.run}
    /\ handler' = [handler EXCEPT ![p] = NoHandler]
    /\ UNCHANGED <<nextRun, thisMonth, ex, inbox, audit, env>>

\* ... and its UPDATE ... WHERE id = r, whatever the status is by now
CancelCommit(p) ==
    LET h == handler[p] IN
    /\ h.op = "cancel_commit"
    /\ IF Live(h.run)
       THEN StoreAndAudit(p, h.run, [rows[h.run] EXCEPT !.status = "cancelled"], "cancelled")
       ELSE Abort(p)

ClarifySelect_AnyStatus(p, r, q) ==
    /\ Ready(p) /\ Live(r)
    /\ Begin(p, [NoHandler EXCEPT !.op = "clarify", !.run = r, !.req = q])
    /\ UNCHANGED nextRun

\* clarify_research, requeue_with_request: the guarded SELECT ...
ClarifySelect(p, r, q) ==
    /\ Ready(p) /\ rows[r].status = "needs_clarification"
    /\ Begin(p, [NoHandler EXCEPT !.op = "clarify", !.run = r, !.req = q])
    /\ UNCHANGED nextRun

ClarifyCommit_KeepsResult(p) ==
    LET h == handler[p] IN
    /\ h.op = "clarify"
    /\ IF Live(h.run)
       THEN StoreAndAudit(p, h.run,
                [rows[h.run] EXCEPT !.req = h.req, !.status = "queued", !.cost = 0],
                "clarified")
       ELSE Abort(p)

\* ... and the UPDATE: a new request (and hash), no result, no usage
ClarifyCommit(p) ==
    LET h == handler[p] IN
    /\ h.op = "clarify"
    /\ IF Live(h.run)
       THEN StoreAndAudit(p, h.run,
                [rows[h.run] EXCEPT !.req = h.req, !.status = "queued",
                                    !.result = None, !.cost = 0],
                "clarified")
       ELSE Abort(p)

\* purge_research_runs: what it finds removable ...
PurgeSelect(p, ws) ==
    LET removable == {r \in InWorkspace(ws) \cap aged : rows[r].status \in Final} IN
    /\ Ready(p) /\ removable # {}
    /\ Begin(p, [NoHandler EXCEPT !.op = "delete", !.victims = removable])
    /\ UNCHANGED nextRun

\* ... privacy_delete: what it finds about a person, in whatever status ...
PrivacySelect(p, ws, person) ==
    LET matching == {r \in InWorkspace(ws) : PersonOf[rows[r].req] = person} IN
    /\ Ready(p) /\ matching # {}
    /\ Begin(p, [NoHandler EXCEPT !.op = "delete", !.victims = matching])
    /\ UNCHANGED nextRun

\* ... and DELETE ... WHERE id = r for each
DeleteCommit(p) ==
    LET h == handler[p] IN
    /\ h.op = "delete"
    /\ rows' = [r \in Runs |-> IF r \in h.victims /\ Live(r) THEN DeletedRow(rows[r]) ELSE rows[r]]
    /\ aged' = aged \ h.victims
    /\ handler' = [handler EXCEPT ![p] = NoHandler]
    /\ UNCHANGED <<nextRun, thisMonth, ex, inbox, audit, env>>

-----------------------------------------------------------------------------
(* Executors: a worker polls, drains what it found and polls again; an API *)
(* process starts each scheduled task by itself.                           *)

Step(e, x) ==
    /\ ex' = [ex EXCEPT ![e] = x]
    /\ UNCHANGED <<nextRun, thisMonth, handler, env>>

\* drain_once: list the queue; the list is all the loop knows until it is done
Poll(w) ==
    /\ w \in Workers
    /\ \A e \in Hosted(w) : ex[e].pc = "idle"
    /\ inbox[w] = {} /\ Queued # {}
    /\ inbox' = [inbox EXCEPT ![w] = OldestQueued]
    /\ UNCHANGED <<rows, nextRun, thisMonth, aged, ex, handler, audit, env>>

\* An exception that leaves _execute ends a task, or a worker process, which
\* restarts with nothing listed.
Die(e) ==
    /\ Step(e, IdleExecutor)
    /\ inbox' = IF Host[e] \in Workers THEN [inbox EXCEPT ![Host[e]] = {}] ELSE inbox
    /\ UNCHANGED <<rows, aged, audit>>

\* the run an executor turns to: a worker keeps to the order of its list
Takes(e, r) ==
    /\ r \in inbox[Host[e]]
    /\ Host[e] \in Workers => \A o \in inbox[Host[e]] : r <= o

ClaimSelect_AnyStatus(e) ==
    /\ ex[e].pc = "idle" /\ ~Busy(Host[e])
    /\ \E r \in Runs :
        /\ Takes(e, r)
        /\ Step(e, IF Live(r) THEN [IdleExecutor EXCEPT !.pc = "claim", !.run = r]
                   ELSE IdleExecutor)
        /\ inbox' = [inbox EXCEPT ![Host[e]] = @ \ {r}]
    /\ UNCHANGED <<rows, aged, audit>>

\* _execute, RunStore.claim: the SELECT ... AND status = 'queued' ...
ClaimSelect(e) ==
    /\ ex[e].pc = "idle" /\ ~Busy(Host[e])
    /\ \E r \in Runs :
        /\ Takes(e, r)
        /\ Step(e, IF rows[r].status = "queued"
                   THEN [IdleExecutor EXCEPT !.pc = "claim", !.run = r]
                   ELSE IdleExecutor)
        /\ inbox' = [inbox EXCEPT ![Host[e]] = @ \ {r}]
    /\ UNCHANGED <<rows, aged, audit>>

\* ... and the UPDATE ... WHERE id = r; the request is read after the commit
ClaimCommit(e) ==
    LET r == ex[e].run IN
    /\ ex[e].pc = "claim"
    /\ IF Live(r)
       THEN /\ rows' = [rows EXCEPT ![r].status = "running"]
            /\ aged' = aged \ {r}
            /\ Step(e, [ex[e] EXCEPT !.pc = "budget", !.req = rows[r].req])
            /\ UNCHANGED <<inbox, audit>>
       ELSE Die(e)

CheckBudget_Skipped(e) ==
    /\ ex[e].pc = "budget"
    /\ Step(e, [ex[e] EXCEPT !.pc = "call"])
    /\ UNCHANGED <<rows, aged, inbox, audit>>

\* the attempt may start only while something is left of the budget
CheckBudget(e) ==
    /\ ex[e].pc = "budget"
    /\ Step(e, IF Consumed(rows[ex[e].run].ws) >= Budget
               THEN [ex[e] EXCEPT !.pc = "select", !.outcome = "budget_exhausted"]
               ELSE [ex[e] EXCEPT !.pc = "call"])
    /\ UNCHANGED <<rows, aged, inbox, audit>>

\* orchestrator.execute returns a dossier and its usage, or raises
Answer(e) ==
    /\ ex[e].pc = "call" /\ ~Busy(Host[e])
    /\ \/ \E o \in {"completed", "needs_clarification"}, c \in Charges :
            Step(e, [ex[e] EXCEPT !.pc = "select", !.outcome = o, !.cost = c])
       \/ Step(e, [ex[e] EXCEPT !.pc = "select", !.outcome = "failed"])
    /\ UNCHANGED <<rows, aged, inbox, audit>>

\* An exception in the try block goes to the except handler, which reports
\* "failed"; one in the except handler leaves _execute.
Raise(e) ==
    IF ex[e].outcome = "failed" THEN Die(e)
    ELSE /\ Step(e, [ex[e] EXCEPT !.pc = "select", !.outcome = "failed"])
         /\ UNCHANGED <<rows, aged, inbox, audit>>

UpdateSelect_FailureIgnored(e) ==
    /\ ex[e].pc = "select"
    /\ Step(e, [ex[e] EXCEPT !.pc =
            IF Live(ex[e].run) /\ ex[e].outcome # "failed" THEN "write" ELSE "audit"])
    /\ UNCHANGED <<rows, aged, inbox, audit>>

\* RunStore.update: its SELECT; no row, no UPDATE, and nobody looks ...
UpdateSelect(e) ==
    /\ ex[e].pc = "select"
    /\ Step(e, [ex[e] EXCEPT !.pc = IF Live(ex[e].run) THEN "write" ELSE "audit"])
    /\ UNCHANGED <<rows, aged, inbox, audit>>

\* a failure keeps the result and the usage the row has
Reported(row, x) ==
    IF x.outcome \in {"completed", "needs_clarification"}
    THEN [row EXCEPT !.status = x.outcome, !.result = x.req, !.cost = x.cost]
    ELSE [row EXCEPT !.status = "failed"]

UpdateCommit_Merge(e) ==
    LET r == ex[e].run IN
    /\ ex[e].pc = "write"
    /\ rows' = [rows EXCEPT ![r] = Reported(@, ex[e])]
    /\ aged' = aged \ {r}
    /\ Step(e, [ex[e] EXCEPT !.pc = "audit"])
    /\ UNCHANGED <<inbox, audit>>

\* ... and its UPDATE ... WHERE id = r, whatever the status is by now
UpdateCommit(e) ==
    LET r == ex[e].run IN
    /\ ex[e].pc = "write"
    /\ IF Live(r)
       THEN /\ rows' = [rows EXCEPT ![r] = Reported(@, ex[e])]
            /\ aged' = aged \ {r}
            /\ Step(e, [ex[e] EXCEPT !.pc = "audit"])
            /\ UNCHANGED <<inbox, audit>>
       ELSE Raise(e)

OutcomeEvent(o) ==
    IF o \in {"completed", "needs_clarification"} THEN "status_changed" ELSE o

\* record_audit; then the webhooks are awaited
AuditOutcome(e) ==
    /\ ex[e].pc = "audit"
    /\ audit' = audit \cup {<<ex[e].run, OutcomeEvent(ex[e].outcome)>>}
    /\ Step(e, [ex[e] EXCEPT !.pc = "dispatch"])
    /\ UNCHANGED <<rows, aged, inbox>>

\* _safe_dispatch_webhooks swallows what a delivery raises
DispatchDone(e) ==
    /\ ex[e].pc = "dispatch" /\ ~Busy(Host[e])
    /\ Step(e, IdleExecutor)
    /\ UNCHANGED <<rows, aged, inbox, audit>>

-----------------------------------------------------------------------------
(* The environment.                                                        *)

Strike(kind, bound) ==
    /\ env[kind] < bound
    /\ env' = [env EXCEPT ![kind] = @ + 1]

\* The database refuses the next statement of an executor.
StoreError(e) ==
    /\ Strike("fault", MaxFaults)
    /\ ex[e].pc \notin {"idle", "call"}
    /\ ex[e].pc = "dispatch" => ~Busy(Host[e])
    /\ LET report == ex[e].pc # "claim" /\ ex[e].outcome # "failed" IN
        /\ ex' = [ex EXCEPT ![e] =
                IF report THEN [@ EXCEPT !.pc = "select", !.outcome = "failed"]
                ELSE IdleExecutor]
        /\ inbox' = IF ~report /\ Host[e] \in Workers
                    THEN [inbox EXCEPT ![Host[e]] = {}] ELSE inbox
    /\ UNCHANGED <<rows, nextRun, thisMonth, aged, handler, audit>>

\* ... or of a handler: a 500, and no background task.
HandlerError(p) ==
    /\ Strike("fault", MaxFaults)
    /\ handler[p].op # "none"
    /\ handler' = [handler EXCEPT ![p] = NoHandler]
    /\ UNCHANGED <<rows, nextRun, thisMonth, aged, ex, inbox, audit>>

\* A process dies and is restarted (restart: unless-stopped).
Crash(p) ==
    /\ Strike("crash", MaxCrashes)
    /\ ex' = [e \in Executors |-> IF Host[e] = p THEN IdleExecutor ELSE ex[e]]
    /\ inbox' = [inbox EXCEPT ![p] = {}]
    /\ handler' = [q \in ApiProcs |-> IF q = p THEN NoHandler ELSE handler[q]]
    /\ UNCHANGED <<rows, nextRun, thisMonth, aged, audit>>

\* A day takes longer than any stretch of code without an await.
DayPasses ==
    /\ Strike("day", MaxDays)
    /\ \A p \in Procs : ~Busy(p)
    /\ aged' = {r \in Runs : Live(r)}
    /\ UNCHANGED <<rows, nextRun, thisMonth, ex, inbox, handler, audit>>

NewMonth ==
    /\ Strike("month", MaxMonths)
    /\ thisMonth' = {}
    /\ UNCHANGED <<rows, nextRun, aged, ex, inbox, handler, audit>>

-----------------------------------------------------------------------------
Request(p) ==
    \/ \E ws \in Workspaces, k \in Keys \cup {None}, q \in Requests :
        ReplayResearch(p, ws, k, q) \/ CreateResearch(p, ws, k, q)
    \/ \E r \in Runs : CancelGet(p, r)
    \/ \E r \in Runs, q \in Requests : ClarifySelect(p, r, q)
    \/ \E ws \in Workspaces : PurgeSelect(p, ws)
    \/ \E ws \in Workspaces, person \in Persons : PrivacySelect(p, ws, person)

Handle(p) ==
    \/ InsertRun(p) \/ RecordAudit(p)
    \/ CancelSelect(p) \/ CancelCommit(p)
    \/ ClarifyCommit(p) \/ DeleteCommit(p)

Execute(e) ==
    \/ ClaimSelect(e) \/ ClaimCommit(e) \/ CheckBudget(e) \/ Answer(e)
    \/ UpdateSelect(e) \/ UpdateCommit(e) \/ AuditOutcome(e) \/ DispatchDone(e)

Environment ==
    \/ \E e \in Executors : StoreError(e)
    \/ \E p \in ApiProcs : HandlerError(p)
    \/ \E p \in Procs : Crash(p)
    \/ DayPasses
    \/ NewMonth

Next ==
    \/ \E p \in ApiProcs : Request(p) \/ Handle(p)
    \/ \E w \in Workers : Poll(w)
    \/ \E e \in Executors : Execute(e)
    \/ Environment

Spec == Init /\ [][Next]_vars

\* Code that has begun goes on.  The event loop resumes ready coroutines in
\* turn, so an executor that can resume again and again does (strong fairness:
\* its siblings and the handlers may be in its way now and then); every await
\* of an attempt has a timeout.  Clients and the environment owe nothing.
Fairness ==
    /\ \A p \in ApiProcs : WF_vars(Handle(p))
    /\ \A w \in Workers : WF_vars(Poll(w))
    /\ \A e \in Executors : SF_vars(Execute(e))

FairSpec == Spec /\ Fairness

-----------------------------------------------------------------------------
(* Properties.                                                             *)

\* An executor is attempting its run until it has reported or given up; the
\* except handler only tells of an attempt that is over.
Attempting(e) ==
    \/ ex[e].pc \in {"budget", "call"}
    \/ ex[e].pc \in {"select", "write"} /\ ex[e].outcome # "failed"

\* No run is attempted by two executors at once (claim, api.py _execute).
AttemptExclusive ==
    \A e, f \in Executors :
        e # f /\ Attempting(e) /\ Attempting(f) => ex[e].run # ex[f].run

\* What a row shows as the result was computed for the request it shows, and
\* a run that has yet to be attempted shows none (requeue_with_request resets
\* what update has stored, and a late report must not bring it back).
ResultOfRequest ==
    \A r \in Runs : Live(r) =>
        /\ rows[r].result \in {None, rows[r].req}
        /\ rows[r].status = "queued" => rows[r].result = None
        /\ rows[r].status \in {"completed", "needs_clarification"} =>
                rows[r].result = rows[r].req

\* A workspace never has two runs under one Idempotency-Key, however many API
\* processes look the key up at the same time (RunStore.create).
OneRunPerKey ==
    \A ws \in Workspaces, k \in Keys : Cardinality(WithKey(ws, k)) <= 1

MaxCharge == Max(Charges \cup {0})

\* The budget stops attempts before they start, so what a month has consumed
\* passes it by no more than one charge per executor (_execute, monthly_cost).
OvershootBounded ==
    Budget > 0 => \A ws \in Workspaces :
        Consumed(ws) < Budget + Cardinality(Executors) * MaxCharge

\* No process has died, and the database has refused nothing.
Undisturbed == env.crash = 0 /\ env.fault = 0

\* When nobody is in the middle of a step, the audit log accounts for every
\* run: that it was created, and for the status it has reached.  Only a crash or
\* a database error between the commits of a step can leave a gap.
AuditTrail ==
    Undisturbed /\ (\A p \in Procs : ~Busy(p)) =>
        \A r \in Runs : Live(r) =>
            /\ <<r, "created">> \in audit
            /\ rows[r].status = "cancelled" => <<r, "cancelled">> \in audit
            /\ rows[r].status \in {"completed", "needs_clarification"} =>
                    <<r, "status_changed">> \in audit
            /\ rows[r].status = "failed" =>
                    <<r, "failed">> \in audit \/ <<r, "budget_exhausted">> \in audit

\* Somebody is going to turn to r: the handler that has queued it is about to
\* schedule it, a task for it waits in its process, or an executor is claiming it.
Scheduled(r) ==
    \/ \E p \in ApiProcs :
        /\ handler[p].op = "audit" /\ handler[p].run = r
        /\ handler[p].event \in {"created", "clarified"}
    \/ \E p \in ApiProcs : r \in inbox[p]
    \/ \E e \in Executors : ex[e].pc = "claim" /\ ex[e].run = r

\* An executor has claimed r and has not told how that ended.
InAttempt(r) ==
    \E e \in Executors : ex[e].run = r /\ ex[e].pc \in {"budget", "call", "select", "write"}

\* Nobody forgets a run: a running one has an executor that will report on it,
\* and where runs are background tasks a queued one has a task on its way to
\* it (create_research, clarify_research, _execute).  QueuedServed and
\* AttemptsEnd say that these get there.
Attended ==
    Undisturbed => \A r \in Runs :
        /\ rows[r].status = "running" => InAttempt(r)
        /\ AutoExecute /\ rows[r].status = "queued" => Scheduled(r)

\* The inductive invariant behind AttemptExclusive and ResultOfRequest, for one
\* API process and one process that executes (ResearchRunsProofs).

\* One coroutine of a process is between two awaits at a time.
OneCoroutine ==
    /\ \A p \in ApiProcs, e \in Executors :
        handler[p].op # "none" /\ Host[e] = p => ex[e].pc \in Awaiting
    /\ \A e, f \in Executors :
        e # f /\ Host[e] = Host[f] /\ ex[e].pc \notin Awaiting =>
            ex[f].pc \in Awaiting

\* From the claim on, nobody else attempts the run or queues it again.
InFlight(e) == ex[e].pc = "claim" \/ Attempting(e)
InFlightExclusive ==
    \A e, f \in Executors :
        e # f /\ InFlight(e) /\ InFlight(f) => ex[e].run # ex[f].run
InFlightStatus ==
    \A e \in Executors :
        /\ ex[e].pc = "claim" =>
            rows[ex[e].run].status \in {"queued", "cancelled", "deleted"}
        /\ Attempting(e) =>
            /\ rows[ex[e].run].status \in {"running", "cancelled", "failed", "deleted"}
            /\ Live(ex[e].run) => ex[e].req = rows[ex[e].run].req

\* A clarification that has passed its guard concerns a run nobody attempts.
ClarifyPending ==
    \A p \in ApiProcs : handler[p].op = "clarify" =>
        /\ rows[handler[p].run].status \in {"needs_clarification", "failed", "deleted"}
        /\ \A e \in Executors : InFlight(e) => ex[e].run # handler[p].run

\* A run that has yet to be inserted has no row.
CreatePending ==
    /\ \A r \in Runs : r >= nextRun => rows[r].status = "absent"
    /\ \A p \in ApiProcs : handler[p].op = "create" =>
        handler[p].run < nextRun /\ rows[handler[p].run].status = "absent"

IInv ==
    /\ TypeOK /\ OneCoroutine
    /\ InFlightExclusive /\ InFlightStatus
    /\ ClarifyPending /\ CreatePending
    /\ ResultOfRequest

\* A row that a purge or a privacy request has deleted never comes back, not
\* even when an attempt at it is still under way (RunStore.update).
DeletedStaysDeleted ==
    [][\A r \in Runs : rows[r].status = "deleted" => rows'[r].status = "deleted"]_vars

\* An attempt starts only at a run that is queued at that very moment: what
\* "atomically claim a queued run" means (RunStore.claim).
ClaimsQueuedOnly ==
    [][\A r \in Runs : rows[r].status # "running" /\ rows'[r].status = "running" =>
            rows[r].status = "queued"]_vars

\* With the handlers in another process than the executor, the only thing that
\* can befall a completed run is the CANCELLED of a request that saw it running.
CompletedLeftOnlyByCancel ==
    [][\A r \in Runs : rows[r].status = "completed" =>
            \/ rows'[r].status \in {"completed", "deleted"}
            \/ /\ rows'[r] = [rows[r] EXCEPT !.status = "cancelled"]
               /\ \E p \in ApiProcs : handler[p].op = "cancel_commit"]_vars

\* Every queued run is taken up, cancelled or deleted, when the executors are
\* background tasks (add_task): only what a process loses with its memory, or
\* an error before add_task, can leave it in the queue.
QueuedServed ==
    \A r \in Runs : rows[r].status = "queued" ~> rows[r].status # "queued" \/ ~Undisturbed

\* Every attempt comes to an end, whatever the services answer (_execute).
AttemptsEnd ==
    \A r \in Runs : rows[r].status = "running" ~> rows[r].status # "running" \/ ~Undisturbed

\* A worker takes up the run that is the oldest in the queue.  No more can be
\* promised: the queue is ordered by created_at and listed BatchLimit at a
\* time, so older runs that are clarified again and again keep others waiting.
OldestServed ==
    \A r \in Runs :
        LET Oldest == r \in Queued /\ \A o \in Queued : r <= o
        IN  Oldest ~> ~Oldest

\* ... even if the process that executes it dies (BACKLOG: "reprenable").
AttemptsResumed ==
    \A r \in Runs : rows[r].status = "running" ~> rows[r].status # "running"

-----------------------------------------------------------------------------
(* The abstract specification.  An attempt begins when the claim commits;  *)
(* what it computes is out when UpdateCommit stores it.                    *)

Phase(x) ==
    CASE x.pc \in {"idle", "claim"} -> "none"
      [] x.pc \in {"budget", "call"} -> "working"
      [] x.pc \in {"select", "write"} ->
            IF x.outcome \in {"completed", "needs_clarification"} THEN "working" ELSE "failing"
      [] OTHER -> "reported"

View(row) == [status |-> row.status, req |-> row.req, result |-> row.result]
Progress(x) ==
    [phase |-> Phase(x), run |-> IF Phase(x) = "none" THEN None ELSE x.run]
Struck == {k \in {"crash", "fault"} : env[k] > 0}

Apart == \E p \in ApiProcs, e \in Executors : Host[e] # p

Lifecycle == INSTANCE RunLifecycle WITH
    Attempts <- Executors,
    run <- [r \in Runs |-> View(rows[r])],
    attempt <- [e \in Executors |-> Progress(ex[e])],
    struck <- Struck

\* One process that serves requests and one that executes runs make every
\* handler and every report look like one step (RunLifecycle).  If they are the
\* same, no request is lost between a SELECT and the UPDATE that relies on it; if
\* they are not (compose.yml), RunLifecycle lists what may come late.
ImplementsLifecycle == Lifecycle!Spec
=============================================================================
