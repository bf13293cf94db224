------------------------- MODULE ResearchRunsProofs -------------------------
(* Theorems about ResearchRuns, for every deployment and every bound.      *)
EXTENDS ResearchRuns, FiniteSetTheorems, TLAPS

-----------------------------------------------------------------------------
(* Types.                                                                  *)

LEMMA InitType == Init => TypeOK
  BY ConstantsAssumption
  DEF Init, TypeOK, Row, ExecutorState, HandlerState, NoRow, IdleExecutor,
      NoHandler, Runs, Procs, Statuses, Live

\* What a handler's locals satisfy when they are used.
Usable(h) ==
    /\ h \in HandlerState
    /\ h.op \notin {"none", "delete"} => h.run \in Runs
    /\ h.op = "create" => h.ws \in Workspaces /\ h.req \in Requests
    /\ h.op = "clarify" => h.req \in Requests
    /\ h.op = "audit" => h.event \in RunEvents

LEMMA HandlerUsable ==
  ASSUME TypeOK, NEW p \in ApiProcs
  PROVE  Usable(handler[p])
  BY DEF TypeOK, Usable

\* The three ways a handler moves keep the types.
LEMMA BeginType ==
  ASSUME TypeOK, NEW p \in ApiProcs, NEW h, Usable(h),
         Begin(p, h), nextRun' = nextRun
  PROVE  TypeOK'
  BY DEF TypeOK, Begin, Usable, Live

LEMMA AbortType ==
  ASSUME TypeOK, NEW p \in ApiProcs, Abort(p)
  PROVE  TypeOK'
  BY DEF TypeOK, Abort, NoHandler, HandlerState, Live

LEMMA StoreAndAuditType ==
  ASSUME TypeOK, NEW p \in ApiProcs, NEW r \in Runs, NEW row \in Row,
         row.ws \in Workspaces, row.req \in Requests,
         NEW event \in RunEvents, StoreAndAudit(p, r, row, event)
  PROVE  TypeOK'
  BY DEF TypeOK, StoreAndAudit, NoHandler, HandlerState, Live

LEMMA RequestType ==
  ASSUME TypeOK, NEW p \in ApiProcs, Request(p)
  PROVE  TypeOK'
<1>1. ASSUME NEW ws \in Workspaces, NEW k \in Keys \cup {None},
             NEW q \in Requests, ReplayResearch(p, ws, k, q)
      PROVE  TypeOK'
  BY <1>1, BeginType
  DEF ReplayResearch, WithKey, InWorkspace, NoHandler, HandlerState, Usable, RunEvents
<1>2. ASSUME NEW ws \in Workspaces, NEW k \in Keys \cup {None},
             NEW q \in Requests, CreateResearch(p, ws, k, q)
      PROVE  TypeOK'
  <2>1. Usable([NoHandler EXCEPT !.op = "create", !.run = nextRun,
                                 !.ws = ws, !.key = k, !.req = q])
    BY <1>2 DEF CreateResearch, NoHandler, HandlerState, Usable
  <2>2. nextRun' \in 1..(MaxRuns + 1)
    BY <1>2, ConstantsAssumption DEF CreateResearch, Runs
  <2>3. thisMonth' \subseteq Runs
    BY <1>2 DEF CreateResearch, TypeOK
  <2> QED
    BY <1>2, <2>1, <2>2, <2>3 DEF CreateResearch, TypeOK, Usable, Live
<1>3. ASSUME NEW r \in Runs, CancelGet(p, r)
      PROVE  TypeOK'
  BY <1>3, BeginType DEF CancelGet, NoHandler, HandlerState, Usable
<1>4. ASSUME NEW r \in Runs, NEW q \in Requests, ClarifySelect(p, r, q)
      PROVE  TypeOK'
  BY <1>4, BeginType DEF ClarifySelect, NoHandler, HandlerState, Usable
<1>5. ASSUME NEW ws \in Workspaces, PurgeSelect(p, ws)
      PROVE  TypeOK'
  BY <1>5, BeginType DEF PurgeSelect, InWorkspace, NoHandler, HandlerState, Usable
<1>6. ASSUME NEW ws \in Workspaces, NEW person \in Persons,
             PrivacySelect(p, ws, person)
      PROVE  TypeOK'
  BY <1>6, BeginType DEF PrivacySelect, InWorkspace, NoHandler, HandlerState, Usable
<1> QED
  BY <1>1, <1>2, <1>3, <1>4, <1>5, <1>6 DEF Request

LEMMA HandleType ==
  ASSUME TypeOK, NEW p \in ApiProcs, Handle(p)
  PROVE  TypeOK'
<1> DEFINE h == handler[p]
<1>0. Usable(h)
  BY HandlerUsable
<1>1. CASE InsertRun(p)
  <2>1. CASE WithKey(h.ws, h.key) = {}
    <3> DEFINE row == [NoRow EXCEPT !.ws = h.ws, !.key = h.key,
                                    !.req = h.req, !.status = "queued"]
    <3>1. row \in Row /\ row.ws \in Workspaces /\ row.req \in Requests
      BY <1>0, <1>1 DEF InsertRun, Usable, HandlerState, NoRow, Row, Statuses
    <3> QED
      BY <1>0, <1>1, <2>1, <3>1, StoreAndAuditType DEF InsertRun, Usable, RunEvents
  <2>2. CASE WithKey(h.ws, h.key) # {}
    BY <1>1, <2>2, AbortType DEF InsertRun
  <2> QED
    BY <2>1, <2>2
<1>2. CASE RecordAudit(p)
  BY <1>0, <1>2 DEF RecordAudit, TypeOK, Usable, NoHandler, HandlerState, Procs, Live
<1>3. CASE CancelSelect(p)
  <2>1. /\ Usable([h EXCEPT !.op = "cancel_commit"])
        /\ Usable([h EXCEPT !.op = "audit", !.event = "cancelled"])
    BY <1>0, <1>3 DEF CancelSelect, Usable, HandlerState, RunEvents
  <2>2. CASE Live(h.run)
    BY <1>3, <2>1, <2>2, BeginType DEF CancelSelect
  <2>3. CASE ~Live(h.run)
    BY <1>3, <2>1, <2>3, BeginType DEF CancelSelect
  <2> QED
    BY <2>2, <2>3
<1>4. CASE CancelCommit(p)
  <2>1. CASE Live(h.run)
    <3> DEFINE row == [rows[h.run] EXCEPT !.status = "cancelled"]
    <3>1. row \in Row /\ row.ws \in Workspaces /\ row.req \in Requests
      BY <1>0, <1>4, <2>1 DEF CancelCommit, Usable, TypeOK, Row, Statuses
    <3> QED
      BY <1>0, <1>4, <2>1, <3>1, StoreAndAuditType DEF CancelCommit, Usable, RunEvents
  <2>2. CASE ~Live(h.run)
    BY <1>4, <2>2, AbortType DEF CancelCommit
  <2> QED
    BY <2>1, <2>2
<1>5. CASE ClarifyCommit(p)
  <2>1. CASE Live(h.run)
    <3> DEFINE row == [rows[h.run] EXCEPT !.req = h.req, !.status = "queued",
                                          !.result = None, !.cost = 0]
    <3>1. row \in Row /\ row.ws \in Workspaces /\ row.req \in Requests
      <4>1. rows[h.run] \in Row /\ rows[h.run].ws \in Workspaces
        BY <1>0, <1>5, <2>1 DEF ClarifyCommit, Usable, TypeOK
      <4>2. h.req \in Requests
        BY <1>0, <1>5 DEF ClarifyCommit, Usable
      <4> HIDE DEF h
      <4> QED
        BY <4>1, <4>2 DEF Row, Statuses
    <3> QED
      BY <1>0, <1>5, <2>1, <3>1, StoreAndAuditType DEF ClarifyCommit, Usable, RunEvents
  <2>2. CASE ~Live(h.run)
    BY <1>5, <2>2, AbortType DEF ClarifyCommit
  <2> QED
    BY <2>1, <2>2
<1>6. CASE DeleteCommit(p)
  BY <1>0, <1>6
  DEF DeleteCommit, TypeOK, DeletedRow, NoRow, Row, Live, Statuses,
      NoHandler, HandlerState
<1> QED
  BY <1>1, <1>2, <1>3, <1>4, <1>5, <1>6 DEF Handle

\* What an executor's locals satisfy when they are used.
Running(x) ==
    /\ x \in ExecutorState
    /\ x.pc # "idle" => x.run \in Runs
    /\ x.pc \notin {"idle", "claim"} => x.req \in Requests
    /\ x.pc \in {"select", "write", "audit", "dispatch"} => x.outcome \in Outcomes

LEMMA ExecutorRunning ==
  ASSUME TypeOK, NEW e \in Executors
  PROVE  Running(ex[e]) /\ Host[e] \in Procs
  BY ConstantsAssumption DEF TypeOK, Running, Procs

LEMMA StepType ==
  ASSUME TypeOK, NEW e \in Executors, NEW x, Running(x), Step(e, x),
         rows' \in [Runs -> Row],
         \A r \in Runs : Live(r)' => rows'[r].ws \in Workspaces /\ rows'[r].req \in Requests,
         aged' \subseteq Runs, inbox' \in [Procs -> SUBSET Runs],
         audit' \subseteq Runs \X RunEvents
  PROVE  TypeOK'
  BY DEF TypeOK, Step, Running

\* A step that moves only the executor.
LEMMA MoveType ==
  ASSUME TypeOK, NEW e \in Executors, NEW x, Running(x), Step(e, x),
         UNCHANGED <<rows, aged, audit>>,
         inbox' \in [Procs -> SUBSET Runs]
  PROVE  TypeOK'
  BY StepType DEF TypeOK, Live

LEMMA IdleRunning == Running(IdleExecutor)
  BY DEF Running, IdleExecutor, ExecutorState

LEMMA DieType ==
  ASSUME TypeOK, NEW e \in Executors, Die(e)
  PROVE  TypeOK'
<1>1. inbox' \in [Procs -> SUBSET Runs]
  BY ConstantsAssumption DEF Die, TypeOK
<1> QED
  BY <1>1, IdleRunning, MoveType DEF Die

LEMMA RaiseType ==
  ASSUME TypeOK, NEW e \in Executors, ex[e].pc \notin {"idle", "claim"}, Raise(e)
  PROVE  TypeOK'
<1>1. CASE ex[e].outcome = "failed"
  BY <1>1, DieType DEF Raise
<1>2. CASE ex[e].outcome # "failed"
  <2>1. Running([ex[e] EXCEPT !.pc = "select", !.outcome = "failed"])
    BY ExecutorRunning DEF Running, ExecutorState, Outcomes
  <2> QED
    BY <1>2, <2>1, MoveType DEF Raise, TypeOK
<1> QED
  BY <1>1, <1>2

LEMMA ReportedType ==
  ASSUME NEW row \in Row, NEW x, Running(x), x.pc = "write",
         row.ws \in Workspaces, row.req \in Requests
  PROVE  /\ Reported(row, x) \in Row
         /\ Reported(row, x).ws = row.ws /\ Reported(row, x).req = row.req
  BY DEF Reported, Running, Row, ExecutorState, Statuses

LEMMA ExecuteType ==
  ASSUME TypeOK, NEW e \in Executors, Execute(e)
  PROVE  TypeOK'
<1> DEFINE r == ex[e].run
<1>0. Running(ex[e]) /\ Host[e] \in Procs
  BY ExecutorRunning
<1>1. CASE ClaimSelect(e)
  <2>1. PICK o \in Runs :
          /\ Step(e, IF rows[o].status = "queued"
                      THEN [IdleExecutor EXCEPT !.pc = "claim", !.run = o]
                      ELSE IdleExecutor)
          /\ inbox' = [inbox EXCEPT ![Host[e]] = @ \ {o}]
    BY <1>1 DEF ClaimSelect
  <2>2. Running([IdleExecutor EXCEPT !.pc = "claim", !.run = o])
    BY DEF Running, IdleExecutor, ExecutorState
  <2>3. inbox' \in [Procs -> SUBSET Runs]
    BY <2>1 DEF TypeOK
  <2> QED
    BY <1>1, <2>1, <2>2, <2>3, IdleRunning, MoveType DEF ClaimSelect
<1>2. CASE ClaimCommit(e)
  <2>1. CASE Live(r)
    <3>1. Running([ex[e] EXCEPT !.pc = "budget", !.req = rows[r].req])
      BY <1>0, <1>2, <2>1 DEF ClaimCommit, Running, ExecutorState, TypeOK
    <3>2. rows' \in [Runs -> Row]
      BY <1>0, <1>2, <2>1 DEF ClaimCommit, TypeOK, Row, Statuses
    <3>3. \A o \in Runs : Live(o)' => rows'[o].ws \in Workspaces /\ rows'[o].req \in Requests
      BY <1>0, <1>2, <2>1 DEF ClaimCommit, TypeOK, Live, Row
    <3> QED
      BY <1>2, <2>1, <3>1, <3>2, <3>3, StepType DEF ClaimCommit, TypeOK
  <2>2. CASE ~Live(r)
    BY <1>2, <2>2, DieType DEF ClaimCommit
  <2> QED
    BY <2>1, <2>2
<1>3. CASE CheckBudget(e)
  <2>1. /\ Running([ex[e] EXCEPT !.pc = "select", !.outcome = "budget_exhausted"])
        /\ Running([ex[e] EXCEPT !.pc = "call"])
    BY <1>0, <1>3 DEF CheckBudget, Running, ExecutorState, Outcomes
  <2> QED
    BY <1>3, <2>1, MoveType DEF CheckBudget, TypeOK
<1>4. CASE Answer(e)
  <2>1. \A o \in Outcomes, c \in Charges :
          Running([ex[e] EXCEPT !.pc = "select", !.outcome = o, !.cost = c])
    BY <1>0, <1>4, ConstantsAssumption DEF Answer, Running, ExecutorState
  <2>2. Running([ex[e] EXCEPT !.pc = "select", !.outcome = "failed"])
    BY <1>0, <1>4 DEF Answer, Running, ExecutorState, Outcomes
  <2> QED
    BY <1>4, <2>1, <2>2, MoveType DEF Answer, TypeOK, Outcomes
<1>5. CASE UpdateSelect(e)
  <2>1. \A pc \in {"write", "audit"} : Running([ex[e] EXCEPT !.pc = pc])
    BY <1>0, <1>5 DEF UpdateSelect, Running, ExecutorState
  <2> QED
    BY <1>5, <2>1, MoveType DEF UpdateSelect, TypeOK
<1>6. CASE UpdateCommit(e)
  <2>1. CASE Live(r)
    <3>1. Running([ex[e] EXCEPT !.pc = "audit"])
      BY <1>0, <1>6 DEF UpdateCommit, Running, ExecutorState
    <3>2. rows[r] \in Row /\ rows[r].ws \in Workspaces /\ rows[r].req \in Requests
      BY <1>0, <1>6, <2>1 DEF UpdateCommit, Running, TypeOK
    <3>3. /\ Reported(rows[r], ex[e]) \in Row
          /\ Reported(rows[r], ex[e]).ws = rows[r].ws
          /\ Reported(rows[r], ex[e]).req = rows[r].req
      BY <1>0, <1>6, <3>2, ReportedType DEF UpdateCommit
    <3>4. rows' = [rows EXCEPT ![r] = Reported(rows[r], ex[e])]
      BY <1>6, <2>1 DEF UpdateCommit
    <3>5. rows' \in [Runs -> Row]
      BY <3>3, <3>4 DEF TypeOK
    <3>6. \A o \in Runs : Live(o)' => rows'[o].ws \in Workspaces /\ rows'[o].req \in Requests
      BY <3>2, <3>3, <3>4 DEF TypeOK, Live
    <3> QED
      BY <1>6, <2>1, <3>1, <3>5, <3>6, StepType DEF UpdateCommit, TypeOK
  <2>2. CASE ~Live(r)
    BY <1>6, <2>2, RaiseType DEF UpdateCommit
  <2> QED
    BY <2>1, <2>2
<1>7. CASE AuditOutcome(e)
  <2>1. Running([ex[e] EXCEPT !.pc = "dispatch"])
    BY <1>0, <1>7 DEF AuditOutcome, Running, ExecutorState
  <2>2. r \in Runs /\ OutcomeEvent(ex[e].outcome) \in RunEvents
    BY <1>0, <1>7 DEF AuditOutcome, Running, OutcomeEvent, Outcomes, RunEvents
  <2>3. audit' \subseteq Runs \X RunEvents
    BY <1>7, <2>2 DEF AuditOutcome, TypeOK
  <2> QED
    BY <1>7, <2>1, <2>3, StepType DEF AuditOutcome, TypeOK, Live
<1>8. CASE DispatchDone(e)
  BY <1>8, IdleRunning, MoveType DEF DispatchDone, TypeOK
<1> QED
  BY <1>1, <1>2, <1>3, <1>4, <1>5, <1>6, <1>7, <1>8 DEF Execute

LEMMA EnvironmentType ==
  ASSUME TypeOK, Environment
  PROVE  TypeOK'
<1>1. ASSUME NEW e \in Executors, StoreError(e)
      PROVE  TypeOK'
  <2>1. env' \in [crash : 0..MaxCrashes, fault : 0..MaxFaults,
                  day : 0..MaxDays, month : 0..MaxMonths]
    BY <1>1, ConstantsAssumption DEF StoreError, Strike, TypeOK
  <2>2. Running(ex[e]) /\ Host[e] \in Procs
    BY ExecutorRunning
  <2>3. ex[e].pc # "claim" => Running([ex[e] EXCEPT !.pc = "select", !.outcome = "failed"])
    BY <1>1, <2>2 DEF StoreError, Running, ExecutorState, Outcomes
  <2>4. inbox' \in [Procs -> SUBSET Runs]
    BY <1>1, <2>2 DEF StoreError, TypeOK
  <2>5. \E x : Running(x) /\ ex' = [ex EXCEPT ![e] = x]
    BY <1>1, <2>3, IdleRunning DEF StoreError
  <2> QED
    BY <1>1, <2>1, <2>4, <2>5 DEF StoreError, TypeOK, Running, Live
<1>2. ASSUME NEW p \in ApiProcs, HandlerError(p)
      PROVE  TypeOK'
  <2>1. env' \in [crash : 0..MaxCrashes, fault : 0..MaxFaults,
                  day : 0..MaxDays, month : 0..MaxMonths]
    BY <1>2, ConstantsAssumption DEF HandlerError, Strike, TypeOK
  <2> QED
    BY <1>2, <2>1 DEF HandlerError, TypeOK, NoHandler, HandlerState, Live
<1>3. ASSUME NEW p \in Procs, Crash(p)
      PROVE  TypeOK'
  <2>1. env' \in [crash : 0..MaxCrashes, fault : 0..MaxFaults,
                  day : 0..MaxDays, month : 0..MaxMonths]
    BY <1>3, ConstantsAssumption DEF Crash, Strike, TypeOK
  <2>2. /\ ex' \in [Executors -> ExecutorState]
        /\ \A e \in Executors : Running(ex'[e])
    BY <1>3, IdleRunning, ExecutorRunning DEF Crash, TypeOK, Running
  <2>3. /\ handler' \in [ApiProcs -> HandlerState]
        /\ \A q \in ApiProcs : Usable(handler'[q])
    BY <1>3, HandlerUsable DEF Crash, TypeOK, Usable, NoHandler, HandlerState
  <2> QED
    BY <1>3, <2>1, <2>2, <2>3 DEF Crash, TypeOK, Running, Usable, Live
<1>4. CASE DayPasses
  <2>1. env' \in [crash : 0..MaxCrashes, fault : 0..MaxFaults,
                  day : 0..MaxDays, month : 0..MaxMonths]
    BY <1>4, ConstantsAssumption DEF DayPasses, Strike, TypeOK
  <2> QED
    BY <1>4, <2>1 DEF DayPasses, TypeOK, Live
<1>5. CASE NewMonth
  <2>1. env' \in [crash : 0..MaxCrashes, fault : 0..MaxFaults,
                  day : 0..MaxDays, month : 0..MaxMonths]
    BY <1>5, ConstantsAssumption DEF NewMonth, Strike, TypeOK
  <2> QED
    BY <1>5, <2>1 DEF NewMonth, TypeOK, Live
<1> QED
  BY <1>1, <1>2, <1>3, <1>4, <1>5 DEF Environment

LEMMA NextType == TypeOK /\ [Next]_vars => TypeOK'
<1> SUFFICES ASSUME TypeOK, [Next]_vars PROVE TypeOK'
  OBVIOUS
<1>1. ASSUME NEW p \in ApiProcs, Request(p) \/ Handle(p)
      PROVE  TypeOK'
  BY <1>1, RequestType, HandleType
<1>2. ASSUME NEW w \in Workers, Poll(w)
      PROVE  TypeOK'
  BY <1>2 DEF Poll, TypeOK, OldestQueued, Queued, Live, Procs
<1>3. ASSUME NEW e \in Executors, Execute(e)
      PROVE  TypeOK'
  BY <1>3, ExecuteType
<1>4. CASE Environment
  BY <1>4, EnvironmentType
<1>5. CASE UNCHANGED vars
  BY <1>5 DEF vars, TypeOK, Live
<1> QED
  BY <1>1, <1>2, <1>3, <1>4, <1>5 DEF Next

\* The variables keep their types, and the locals of executors and handlers are
\* set when they are used, in every deployment (api.py, store.py, worker.py).
THEOREM TypeCorrect == Spec => []TypeOK
  BY InitType, NextType, PTL DEF Spec

-----------------------------------------------------------------------------
(* One coroutine of a process at a time between two awaits.                *)

\* A step of an executor: it was its turn, and it moves nobody else.
LEMMA ExecuteTurn ==
  ASSUME NEW e \in Executors, Execute(e)
  PROVE  /\ \E x : ex' = [ex EXCEPT ![e] = x]
         /\ ex[e].pc \notin Awaiting \/ ~Busy(Host[e])
         /\ UNCHANGED <<handler, nextRun>>
<1>1. CASE ClaimSelect(e)
  BY <1>1 DEF ClaimSelect, Step
<1>2. CASE ClaimCommit(e)
  BY <1>2 DEF ClaimCommit, Step, Die, Awaiting
<1>3. CASE CheckBudget(e)
  BY <1>3 DEF CheckBudget, Step, Awaiting
<1>4. CASE Answer(e)
  BY <1>4 DEF Answer, Step
<1>5. CASE UpdateSelect(e)
  BY <1>5 DEF UpdateSelect, Step, Awaiting
<1>6. CASE UpdateCommit(e)
  BY <1>6 DEF UpdateCommit, Step, Raise, Die, Awaiting
<1>7. CASE AuditOutcome(e)
  BY <1>7 DEF AuditOutcome, Step, Awaiting
<1>8. CASE DispatchDone(e)
  BY <1>8 DEF DispatchDone, Step
<1> QED
  BY <1>1, <1>2, <1>3, <1>4, <1>5, <1>6, <1>7, <1>8 DEF Execute

\* A request is accepted when nothing of its process is in the way.
LEMMA RequestTurn ==
  ASSUME NEW p \in ApiProcs, Request(p)
  PROVE  /\ \A e \in Executors : Host[e] = p => ex[e].pc \in Awaiting
         /\ \E h : handler' = [handler EXCEPT ![p] = h]
         /\ UNCHANGED <<rows, ex>>
  BY DEF Request, ReplayResearch, CreateResearch, CancelGet, ClarifySelect,
         PurgeSelect, PrivacySelect, Begin, Ready, Busy

LEMMA HandleTurn ==
  ASSUME NEW p \in ApiProcs, Handle(p)
  PROVE  /\ handler[p].op # "none"
         /\ \E h : handler' = [handler EXCEPT ![p] = h]
         /\ UNCHANGED <<ex, nextRun>>
  BY DEF Handle, InsertRun, RecordAudit, CancelSelect, CancelCommit,
         ClarifyCommit, DeleteCommit, Begin, Abort, StoreAndAudit

LEMMA OneCoroutineStep ==
  ASSUME TypeOK, OneCoroutine, Next
  PROVE  OneCoroutine'
<1>1. ASSUME NEW p \in ApiProcs, Request(p)
      PROVE  OneCoroutine'
  BY <1>1, RequestTurn DEF OneCoroutine, TypeOK
<1>2. ASSUME NEW p \in ApiProcs, Handle(p)
      PROVE  OneCoroutine'
  BY <1>2, HandleTurn DEF OneCoroutine, TypeOK
<1>3. ASSUME NEW w \in Workers, Poll(w)
      PROVE  OneCoroutine'
  BY <1>3 DEF OneCoroutine, Poll
<1>4. ASSUME NEW e \in Executors, Execute(e)
      PROVE  OneCoroutine'
  <2>1. \A f \in Executors : f # e /\ Host[f] = Host[e] => ex[f].pc \in Awaiting
    BY <1>4, ExecuteTurn DEF OneCoroutine, Busy
  <2>2. Host[e] \in ApiProcs => handler[Host[e]].op = "none"
    BY <1>4, ExecuteTurn DEF OneCoroutine, Busy
  <2> QED
    BY <1>4, <2>1, <2>2, ExecuteTurn DEF OneCoroutine, TypeOK
<1>5. ASSUME NEW e \in Executors, StoreError(e)
      PROVE  OneCoroutine'
  <2>1. \A f \in Executors : f # e /\ Host[f] = Host[e] => ex[f].pc \in Awaiting
    BY <1>5 DEF StoreError, OneCoroutine, Busy, Awaiting
  <2>2. Host[e] \in ApiProcs => handler[Host[e]].op = "none"
    BY <1>5 DEF StoreError, OneCoroutine, Busy, Awaiting
  <2> QED
    BY <1>5, <2>1, <2>2 DEF StoreError, OneCoroutine, TypeOK
<1>6. ASSUME NEW p \in ApiProcs, HandlerError(p)
      PROVE  OneCoroutine'
  BY <1>6 DEF HandlerError, OneCoroutine, TypeOK, NoHandler
<1>7. ASSUME NEW p \in Procs, Crash(p)
      PROVE  OneCoroutine'
  BY <1>7 DEF Crash, OneCoroutine, TypeOK, NoHandler, IdleExecutor, Awaiting
<1>8. CASE DayPasses \/ NewMonth
  BY <1>8 DEF DayPasses, NewMonth, OneCoroutine
<1> QED
  BY <1>1, <1>2, <1>3, <1>4, <1>5, <1>6, <1>7, <1>8 DEF Next, Environment

\* What the processes do leaves the environment as it is.
LEMMA EnvKept ==
  /\ \A p \in ApiProcs : Request(p) \/ Handle(p) => UNCHANGED env
  /\ \A e \in Executors : Execute(e) => UNCHANGED env
<1>1. ASSUME NEW p \in ApiProcs, Request(p) PROVE UNCHANGED env
  BY <1>1 DEF Request, ReplayResearch, CreateResearch, CancelGet, ClarifySelect,
              PurgeSelect, PrivacySelect, Begin
<1>2. ASSUME NEW p \in ApiProcs, Handle(p) PROVE UNCHANGED env
  BY <1>2 DEF Handle, InsertRun, RecordAudit, CancelSelect, CancelCommit,
              ClarifyCommit, DeleteCommit, Begin, Abort, StoreAndAudit
<1>3. ASSUME NEW e \in Executors, Execute(e) PROVE UNCHANGED env
  BY <1>3 DEF Execute, ClaimSelect, ClaimCommit, CheckBudget, Answer, UpdateSelect,
              UpdateCommit, AuditOutcome, DispatchDone, Step, Die, Raise
<1> QED
  BY <1>1, <1>2, <1>3

-----------------------------------------------------------------------------
(* The inductive invariant, with one API process and one process that      *)
(* executes: the deployments of compose.yml and of a local API.            *)

SingleApi == \A p, q \in ApiProcs : p = q
SingleExecutingProcess == \A e, f \in Executors : Host[e] = Host[f]

RunsInv == /\ InFlightExclusive /\ InFlightStatus
           /\ ClarifyPending /\ CreatePending
           /\ ResultOfRequest

LEMMA LiveIsOld ==
  ASSUME TypeOK, CreatePending, NEW r \in Runs, Live(r)
  PROVE  r < nextRun
<1>1. ~(r >= nextRun)
  BY DEF CreatePending, Live, Statuses
<1>2. r \in Int /\ nextRun \in Int
  BY ConstantsAssumption DEF TypeOK, Runs
<1> QED
  BY <1>1, <1>2

\* What a request makes its handler begin.
LEMMA RequestBegins ==
  ASSUME TypeOK, NEW p \in ApiProcs, Request(p)
  PROVE  \/ \E r \in Runs, q \in Requests : ClarifySelect(p, r, q)
         \/ /\ handler'[p].op = "create" /\ handler'[p].run = nextRun
            /\ nextRun \in Runs /\ nextRun' = nextRun + 1
         \/ handler'[p].op \notin {"create", "clarify"} /\ nextRun' = nextRun
<1>1. ASSUME NEW ws \in Workspaces, NEW k \in Keys \cup {None},
             NEW q \in Requests, ReplayResearch(p, ws, k, q)
      PROVE  handler'[p].op = "audit" /\ nextRun' = nextRun
  BY <1>1 DEF ReplayResearch, Begin, TypeOK, NoHandler
<1>2. ASSUME NEW ws \in Workspaces, NEW k \in Keys \cup {None},
             NEW q \in Requests, CreateResearch(p, ws, k, q)
      PROVE  /\ handler'[p].op = "create" /\ handler'[p].run = nextRun
             /\ nextRun \in Runs /\ nextRun' = nextRun + 1
  BY <1>2 DEF CreateResearch, TypeOK, NoHandler
<1>3. ASSUME NEW r \in Runs, CancelGet(p, r)
      PROVE  handler'[p].op = "cancel_select" /\ nextRun' = nextRun
  BY <1>3 DEF CancelGet, Begin, TypeOK, NoHandler
<1>4. ASSUME NEW ws \in Workspaces, PurgeSelect(p, ws)
      PROVE  handler'[p].op = "delete" /\ nextRun' = nextRun
  BY <1>4 DEF PurgeSelect, Begin, TypeOK, NoHandler
<1>5. ASSUME NEW ws \in Workspaces, NEW person \in Persons, PrivacySelect(p, ws, person)
      PROVE  handler'[p].op = "delete" /\ nextRun' = nextRun
  BY <1>5 DEF PrivacySelect, Begin, TypeOK, NoHandler
<1> QED
  BY <1>1, <1>2, <1>3, <1>4, <1>5 DEF Request

LEMMA RequestKeeps ==
  ASSUME TypeOK, RunsInv, SingleApi, NEW p \in ApiProcs, Request(p)
  PROVE  RunsInv'
<1>1. UNCHANGED <<rows, ex>>
  BY RequestTurn
<1>2. InFlightExclusive' /\ InFlightStatus' /\ ResultOfRequest'
  BY <1>1 DEF RunsInv, InFlightExclusive, InFlightStatus, InFlight, Attempting,
              ResultOfRequest, Live
<1>3. ASSUME NEW r \in Runs, NEW q \in Requests, ClarifySelect(p, r, q)
      PROVE  ClarifyPending' /\ CreatePending'
  <2>1. \A e \in Executors : InFlight(e) => ex[e].run # r
    BY <1>3 DEF RunsInv, InFlightStatus, InFlight, ClarifySelect
  <2>2. handler'[p].op = "clarify" /\ handler'[p].run = r
    BY <1>3 DEF ClarifySelect, Begin, TypeOK, NoHandler
  <2>3. ClarifyPending'
    BY <1>1, <1>3, <2>1, <2>2
    DEF SingleApi, ClarifyPending, ClarifySelect, InFlight, Attempting
  <2>4. CreatePending'
    BY <1>1, <1>3, <2>2 DEF SingleApi, RunsInv, CreatePending, ClarifySelect
  <2> QED
    BY <2>3, <2>4
<1>4. ASSUME handler'[p].op = "create", handler'[p].run = nextRun,
             nextRun \in Runs, nextRun' = nextRun + 1
      PROVE  ClarifyPending' /\ CreatePending'
  <2>1. nextRun \in Nat /\ \A r \in Runs : r \in Nat
    BY <1>4, ConstantsAssumption DEF Runs
  <2>2. ClarifyPending'
    BY <1>4 DEF SingleApi, ClarifyPending
  <2>3. \A r \in Runs : r >= nextRun + 1 => r >= nextRun
    BY <2>1
  <2>4. CreatePending'
    BY <1>1, <1>4, <2>1, <2>3 DEF SingleApi, RunsInv, CreatePending
  <2> QED
    BY <2>2, <2>4
<1>5. ASSUME handler'[p].op \notin {"create", "clarify"}, nextRun' = nextRun
      PROVE  ClarifyPending' /\ CreatePending'
  BY <1>1, <1>5 DEF SingleApi, RunsInv, ClarifyPending, CreatePending
<1> QED
  BY <1>2, <1>3, <1>4, <1>5, RequestBegins DEF RunsInv

\* A handler that leaves the rows alone and does not begin a clarification.
LEMMA HandlerMoves ==
  ASSUME TypeOK, RunsInv, SingleApi, NEW p \in ApiProcs, NEW h,
         handler' = [handler EXCEPT ![p] = h], h.op \notin {"create", "clarify"},
         UNCHANGED <<rows, ex, nextRun>>
  PROVE  RunsInv'
  BY DEF TypeOK, RunsInv, SingleApi, InFlightExclusive, InFlightStatus, InFlight,
         Attempting, ClarifyPending, CreatePending, ResultOfRequest, Live

\* A handler that stores a row which agrees with the attempts at it.
LEMMA StoreKeeps ==
  ASSUME TypeOK, RunsInv, SingleApi, NEW p \in ApiProcs, NEW r \in Runs,
         NEW row, NEW event, StoreAndAudit(p, r, row, event),
         r < nextRun,
         row.result \in {None, row.req},
         row.status = "queued" => row.result = None,
         row.status \in {"completed", "needs_clarification"} => row.result = row.req,
         \/ Live(r) /\ row = [rows[r] EXCEPT !.status = "cancelled"]
         \/ \A e \in Executors : InFlight(e) => ex[e].run # r
  PROVE  RunsInv'
<1>1. /\ rows' = [rows EXCEPT ![r] = row]
      /\ UNCHANGED <<ex, nextRun>>
      /\ handler'[p].op = "audit"
  BY DEF StoreAndAudit, TypeOK
<1>2. InFlightExclusive'
  BY <1>1 DEF RunsInv, InFlightExclusive, InFlight, Attempting
<1>3. InFlightStatus'
  <2>1. ASSUME NEW e \in Executors, ex[e].run # r
        PROVE  rows'[ex[e].run] = rows[ex[e].run]
    BY <1>1, <2>1 DEF TypeOK
  <2>2. ASSUME Live(r), row = [rows[r] EXCEPT !.status = "cancelled"]
        PROVE  rows'[r].status = "cancelled" /\ rows'[r].req = rows[r].req
    BY <1>1, <2>2 DEF TypeOK, Row
  <2> QED
    BY <1>1, <2>1, <2>2 DEF RunsInv, InFlightStatus, InFlight, Attempting, Live
<1>4. ClarifyPending'
  BY <1>1 DEF ClarifyPending, SingleApi
<1>5. CreatePending'
  BY <1>1, ConstantsAssumption DEF RunsInv, CreatePending, SingleApi, TypeOK, Runs
<1>6. ResultOfRequest'
  BY <1>1 DEF RunsInv, ResultOfRequest, TypeOK, Live
<1> QED
  BY <1>2, <1>3, <1>4, <1>5, <1>6 DEF RunsInv

LEMMA HandleKeeps ==
  ASSUME TypeOK, RunsInv, SingleApi, NEW p \in ApiProcs, Handle(p)
  PROVE  RunsInv'
<1> DEFINE h == handler[p]
<1>0. Usable(h)
  BY HandlerUsable
<1>1. CASE InsertRun(p)
  <2>1. CASE WithKey(h.ws, h.key) = {}
    <3>1. h.run \in Runs /\ h.run < nextRun
      BY <1>0, <1>1 DEF InsertRun, RunsInv, CreatePending, Usable
    <3>2. \A e \in Executors : InFlight(e) => ex[e].run # h.run
      BY <1>1 DEF InsertRun, RunsInv, CreatePending, InFlightStatus, InFlight
    <3> DEFINE row == [NoRow EXCEPT !.ws = h.ws, !.key = h.key,
                                    !.req = h.req, !.status = "queued"]
    <3>3. row.result = None /\ row.status = "queued"
      BY DEF NoRow
    <3>4. StoreAndAudit(p, h.run, row, "created")
      BY <1>1, <2>1 DEF InsertRun
    <3> HIDE DEF row
    <3> QED
      BY <3>1, <3>2, <3>3, <3>4, StoreKeeps
  <2>2. CASE WithKey(h.ws, h.key) # {}
    BY <1>1, <2>2, HandlerMoves DEF InsertRun, Abort, NoHandler
  <2> QED
    BY <2>1, <2>2
<1>2. CASE RecordAudit(p)
  BY <1>2, HandlerMoves DEF RecordAudit, NoHandler
<1>3. CASE CancelSelect(p)
  BY <1>0, <1>3, HandlerMoves DEF CancelSelect, Begin, Usable, HandlerState
<1>4. CASE CancelCommit(p)
  <2>1. CASE Live(h.run)
    <3>1. h.run \in Runs /\ h.run < nextRun
      BY <1>0, <1>4, <2>1, LiveIsOld DEF CancelCommit, RunsInv, Usable
    <3>2. rows[h.run].result \in {None, rows[h.run].req}
      BY <2>1, <3>1 DEF RunsInv, ResultOfRequest
    <3>3. rows[h.run] \in Row
      BY <3>1 DEF TypeOK
    <3> QED
      BY <1>4, <2>1, <3>1, <3>2, <3>3, StoreKeeps DEF CancelCommit, Row
  <2>2. CASE ~Live(h.run)
    BY <1>4, <2>2, HandlerMoves DEF CancelCommit, Abort, NoHandler
  <2> QED
    BY <2>1, <2>2
<1>5. CASE ClarifyCommit(p)
  <2>1. CASE Live(h.run)
    <3>1. h.run \in Runs /\ h.run < nextRun
      BY <1>0, <1>5, <2>1, LiveIsOld DEF ClarifyCommit, RunsInv, Usable
    <3>2. \A e \in Executors : InFlight(e) => ex[e].run # h.run
      BY <1>5 DEF ClarifyCommit, RunsInv, ClarifyPending
    <3>3. rows[h.run] \in Row
      BY <3>1 DEF TypeOK
    <3> DEFINE row == [rows[h.run] EXCEPT !.req = h.req, !.status = "queued",
                                          !.result = None, !.cost = 0]
    <3>4. row.result = None /\ row.status = "queued"
      BY <3>3 DEF Row
    <3>5. StoreAndAudit(p, h.run, row, "clarified")
      BY <1>5, <2>1 DEF ClarifyCommit
    <3> HIDE DEF row
    <3> QED
      BY <3>1, <3>2, <3>4, <3>5, StoreKeeps
  <2>2. CASE ~Live(h.run)
    BY <1>5, <2>2, HandlerMoves DEF ClarifyCommit, Abort, NoHandler
  <2> QED
    BY <2>1, <2>2
<1>6. CASE DeleteCommit(p)
  <2>1. /\ \A r \in Runs : \/ Live(r) /\ rows'[r] = DeletedRow(rows[r])
                           \/ rows'[r] = rows[r]
        /\ handler'[p] = NoHandler
        /\ UNCHANGED <<ex, nextRun>>
    BY <1>6 DEF DeleteCommit, TypeOK
  <2>2. \A r \in Runs : Live(r) => r < nextRun
    BY LiveIsOld DEF RunsInv
  <2>3. InFlightExclusive'
    BY <2>1 DEF RunsInv, InFlightExclusive, InFlight, Attempting
  <2>4. InFlightStatus'
    <3>1. \A row : DeletedRow(row).status = "deleted"
      BY DEF DeletedRow, NoRow
    <3> QED
      BY <2>1, <3>1 DEF RunsInv, InFlightStatus, InFlight, Attempting, TypeOK, Live, Statuses
  <2>5. ClarifyPending'
    BY <2>1 DEF SingleApi, ClarifyPending, NoHandler
  <2>6. CreatePending'
    <3>1. ASSUME NEW r \in Runs, r >= nextRun
          PROVE  rows'[r].status = "absent"
      <4>1. nextRun \in Int /\ r \in Int
        BY ConstantsAssumption DEF TypeOK, Runs
      <4>2. ~Live(r)
        BY <2>2, <3>1, <4>1
      <4> QED
        BY <2>1, <3>1, <4>2 DEF RunsInv, CreatePending
    <3>2. \A q \in ApiProcs : handler'[q].op # "create"
      BY <2>1 DEF SingleApi, NoHandler
    <3> QED
      BY <2>1, <3>1, <3>2 DEF CreatePending
  <2>7. ResultOfRequest'
    BY <2>1 DEF RunsInv, ResultOfRequest, Live, DeletedRow, NoRow, Statuses
  <2> QED
    BY <2>3, <2>4, <2>5, <2>6, <2>7 DEF RunsInv
<1> QED
  BY <1>1, <1>2, <1>3, <1>4, <1>5, <1>6 DEF Handle

\* An executor that moves on with its run, or lets go of it.
LEMMA MoveKeeps ==
  ASSUME TypeOK, RunsInv, NEW e \in Executors, NEW x,
         ex' = [ex EXCEPT ![e] = x],
         UNCHANGED <<rows, handler, nextRun>>,
         InFlight(e)' =>
            /\ InFlight(e)
            /\ x.run = ex[e].run /\ x.req = ex[e].req
            /\ x.pc = "claim" <=> ex[e].pc = "claim"
  PROVE  RunsInv'
<1>1. ex'[e] = x /\ \A f \in Executors : f # e => ex'[f] = ex[f]
  BY DEF TypeOK
<1>2. \A f \in Executors : InFlight(f)' => InFlight(f) /\ ex'[f].run = ex[f].run
  BY <1>1 DEF InFlight, Attempting
<1>3. InFlightExclusive'
  BY <1>2 DEF RunsInv, InFlightExclusive
<1>4. InFlightStatus'
  BY <1>1 DEF RunsInv, InFlightStatus, InFlight, Attempting, Live
<1>5. ClarifyPending'
  BY <1>2 DEF RunsInv, ClarifyPending
<1>6. CreatePending' /\ ResultOfRequest'
  BY DEF RunsInv, CreatePending, ResultOfRequest, Live
<1> QED
  BY <1>3, <1>4, <1>5, <1>6 DEF RunsInv

LEMMA ClaimSelectKeeps ==
  ASSUME TypeOK, RunsInv, SingleExecutingProcess,
         NEW e \in Executors, ClaimSelect(e)
  PROVE  RunsInv'
<1>1. PICK r \in Runs :
        Step(e, IF rows[r].status = "queued"
                THEN [IdleExecutor EXCEPT !.pc = "claim", !.run = r]
                ELSE IdleExecutor)
  BY DEF ClaimSelect
<1>2. UNCHANGED <<rows, handler, nextRun>>
  BY <1>1 DEF ClaimSelect, Step
<1>3. CASE rows[r].status # "queued"
  BY <1>1, <1>2, <1>3, MoveKeeps DEF Step, IdleExecutor, InFlight, Attempting, TypeOK
<1>4. CASE rows[r].status = "queued"
  <2>1. /\ ex'[e].pc = "claim" /\ ex'[e].run = r
        /\ \A f \in Executors : f # e => ex'[f] = ex[f]
    <3>1. PICK x : x = [IdleExecutor EXCEPT !.pc = "claim", !.run = r] /\ Step(e, x)
      BY <1>1, <1>4
    <3>2. x.pc = "claim" /\ x.run = r
      BY <3>1 DEF IdleExecutor
    <3>3. ex'[e] = x /\ \A f \in Executors : f # e => ex'[f] = ex[f]
      BY <3>1 DEF Step, TypeOK
    <3> QED
      BY <3>2, <3>3
  <2>2. \A f \in Executors : f # e => ex[f].pc # "claim"
    BY DEF ClaimSelect, SingleExecutingProcess, Busy, Awaiting
  <2>3. \A f \in Executors : f # e /\ InFlight(f) => ex[f].run # r
    BY <1>4, <2>2 DEF RunsInv, InFlightStatus, InFlight
  <2>4. InFlightExclusive'
    BY <2>1, <2>3 DEF RunsInv, InFlightExclusive, InFlight, Attempting
  <2>5. InFlightStatus'
    BY <1>2, <1>4, <2>1 DEF RunsInv, InFlightStatus, InFlight, Attempting, Live
  <2>6. ClarifyPending'
    BY <1>2, <1>4, <2>1 DEF RunsInv, ClarifyPending, InFlight, Attempting
  <2>7. CreatePending' /\ ResultOfRequest'
    BY <1>2 DEF RunsInv, CreatePending, ResultOfRequest, Live
  <2> QED
    BY <2>4, <2>5, <2>6, <2>7 DEF RunsInv
<1> QED
  BY <1>3, <1>4

LEMMA ClaimCommitKeeps ==
  ASSUME TypeOK, RunsInv, NEW e \in Executors, ClaimCommit(e)
  PROVE  RunsInv'
<1> DEFINE r == ex[e].run
<1>1. r \in Runs /\ InFlight(e) /\ ex[e].pc = "claim"
  BY DEF ClaimCommit, InFlight, TypeOK
<1>2. CASE Live(r)
  <2>1. /\ rows' = [rows EXCEPT ![r].status = "running"]
        /\ rows[r] \in Row
        /\ UNCHANGED <<handler, nextRun>>
    BY <1>1, <1>2 DEF ClaimCommit, Step, TypeOK
  <2>2. /\ rows'[r].status = "running" /\ rows'[r].req = rows[r].req
        /\ rows'[r].result = rows[r].result
        /\ \A o \in Runs : o # r => rows'[o] = rows[o]
    BY <1>1, <2>1 DEF Row, TypeOK
  <2>3. /\ ex'[e].pc = "budget" /\ ex'[e].run = r /\ ex'[e].req = rows[r].req
        /\ \A f \in Executors : f # e => ex'[f] = ex[f]
    <3> DEFINE x == [ex[e] EXCEPT !.pc = "budget", !.req = rows[r].req]
    <3>1. x.pc = "budget" /\ x.run = r /\ x.req = rows[r].req
      BY DEF TypeOK, ExecutorState
    <3>2. ex' = [ex EXCEPT ![e] = x]
      BY <1>2 DEF ClaimCommit, Step
    <3> HIDE DEF x
    <3> QED
      BY <3>1, <3>2 DEF TypeOK
  <2>4. \A f \in Executors : f # e /\ InFlight(f) => ex[f].run # r
    BY <1>1 DEF RunsInv, InFlightExclusive
  <2>5. InFlightExclusive'
    BY <2>3, <2>4 DEF RunsInv, InFlightExclusive, InFlight, Attempting
  <2>6. InFlightStatus'
    <3>1. ASSUME NEW f \in Executors, f # e, InFlight(f)
          PROVE  ex[f].run \in Runs /\ rows'[ex[f].run] = rows[ex[f].run]
      BY <2>2, <2>4, <3>1 DEF TypeOK, InFlight, Attempting
    <3> QED
      BY <2>2, <2>3, <3>1 DEF RunsInv, InFlightStatus, InFlight, Attempting, Live
  <2>7. ClarifyPending'
    <3>1. \A p \in ApiProcs : handler[p].op = "clarify" =>
            handler[p].run \in Runs /\ handler[p].run # r
      BY <1>1 DEF RunsInv, ClarifyPending, TypeOK
    <3> QED
      BY <2>1, <2>2, <2>3, <3>1 DEF RunsInv, ClarifyPending, InFlight, Attempting
  <2>8. CreatePending'
    BY <1>1, <1>2, <2>1, <2>2 DEF RunsInv, CreatePending, Live, Statuses, TypeOK
  <2>9. ResultOfRequest'
    BY <1>1, <1>2, <2>2 DEF RunsInv, ResultOfRequest, Live
  <2> QED
    BY <2>5, <2>6, <2>7, <2>8, <2>9 DEF RunsInv
<1>3. CASE ~Live(r)
  BY <1>3, MoveKeeps
  DEF ClaimCommit, Die, Step, IdleExecutor, InFlight, Attempting, TypeOK
<1> QED
  BY <1>2, <1>3

\* After an exception nothing is attempted any more.
LEMMA StopKeeps ==
  ASSUME TypeOK, RunsInv, NEW e \in Executors,
         UNCHANGED <<rows, handler, nextRun>>,
         \/ ex' = [ex EXCEPT ![e] = IdleExecutor]
         \/ ex' = [ex EXCEPT ![e] = [ex[e] EXCEPT !.pc = "select", !.outcome = "failed"]]
  PROVE  RunsInv'
<1>1. CASE ex' = [ex EXCEPT ![e] = IdleExecutor]
  <2>1. ~InFlight(e)'
    BY <1>1 DEF InFlight, Attempting, TypeOK, IdleExecutor
  <2> QED
    BY <1>1, <2>1, MoveKeeps
<1>2. CASE ex' = [ex EXCEPT ![e] = [ex[e] EXCEPT !.pc = "select", !.outcome = "failed"]]
  <2> DEFINE reporting == [ex[e] EXCEPT !.pc = "select", !.outcome = "failed"]
  <2>1. reporting.pc = "select" /\ reporting.outcome = "failed"
    BY DEF TypeOK, ExecutorState
  <2>2. ex' = [ex EXCEPT ![e] = reporting]
    BY <1>2
  <2> HIDE DEF reporting
  <2>3. ~InFlight(e)'
    BY <2>1, <2>2 DEF InFlight, Attempting, TypeOK
  <2> QED
    BY <2>2, <2>3, MoveKeeps
<1> QED
  BY <1>1, <1>2

LEMMA RaiseKeeps ==
  ASSUME TypeOK, RunsInv, NEW e \in Executors, Raise(e)
  PROVE  RunsInv'
  BY StopKeeps DEF Raise, Die, Step

LEMMA UpdateCommitKeeps ==
  ASSUME TypeOK, OneCoroutine, RunsInv, SingleExecutingProcess,
         NEW e \in Executors, UpdateCommit(e)
  PROVE  RunsInv'
<1> DEFINE r == ex[e].run
           row == Reported(rows[r], ex[e])
<1>1. r \in Runs /\ ex[e].pc = "write" /\ ex[e].outcome \in Outcomes
  BY DEF UpdateCommit, TypeOK
<1>2. CASE Live(r)
  <2>1. /\ rows' = [rows EXCEPT ![r] = row]
        /\ rows[r] \in Row
        /\ UNCHANGED <<handler, nextRun>>
    BY <1>1, <1>2 DEF UpdateCommit, Step, TypeOK
  <2>2. /\ rows'[r] = row
        /\ \A o \in Runs : o # r => rows'[o] = rows[o]
    BY <1>1, <2>1 DEF TypeOK
  <2>3. /\ ~InFlight(e)'
        /\ \A f \in Executors : f # e => ex'[f] = ex[f]
    BY <1>2 DEF UpdateCommit, Step, TypeOK, ExecutorState, InFlight, Attempting
  <2>4. row.req = rows[r].req
    BY <2>1 DEF Reported, Row
  <2>5. \/ InFlight(e) /\ row.status = ex[e].outcome /\ row.result = ex[e].req
           /\ row.status \in {"completed", "needs_clarification"}
        \/ row.status = "failed" /\ row.result = rows[r].result
    BY <1>1, <2>1 DEF Reported, Row, Outcomes, InFlight, Attempting
  <2>6. \A f \in Executors : f # e => ex[f].pc # "claim"
    BY <1>1 DEF OneCoroutine, SingleExecutingProcess, Awaiting
  <2>7. InFlightExclusive'
    BY <2>3 DEF RunsInv, InFlightExclusive, InFlight, Attempting
  <2>8. InFlightStatus'
    <3>1. ASSUME NEW f \in Executors, InFlight(f)'
          PROVE  /\ Attempting(f) /\ f # e /\ ex'[f] = ex[f] /\ ex[f].run \in Runs
                 /\ ex[f].run # r \/ row.status = "failed"
      BY <2>3, <2>5, <2>6, <3>1 DEF InFlight, Attempting, RunsInv, InFlightExclusive, TypeOK
    <3>2. ASSUME NEW f \in Executors, InFlight(f)'
          PROVE  /\ rows'[ex[f].run].status \in {"running", "cancelled", "failed", "deleted"}
                 /\ Live(ex[f].run)' => ex[f].req = rows'[ex[f].run].req
                 /\ ex'[f].pc # "claim"
      BY <1>2, <2>2, <2>4, <2>6, <3>1, <3>2 DEF RunsInv, InFlightStatus, Live
    <3> QED
      BY <3>1, <3>2 DEF InFlightStatus, InFlight
  <2>9. ClarifyPending'
    <3>1. \A p \in ApiProcs : handler[p].op = "clarify" =>
            /\ handler[p].run \in Runs
            /\ handler[p].run # r \/ row.status = "failed"
      BY <2>5 DEF RunsInv, ClarifyPending, TypeOK
    <3> QED
      BY <2>1, <2>2, <2>3, <3>1 DEF RunsInv, ClarifyPending, InFlight, Attempting
  <2>10. CreatePending'
    BY <1>1, <1>2, <2>1, <2>2 DEF RunsInv, CreatePending, Live, Statuses, TypeOK
  <2>11. ResultOfRequest'
    <3>1. InFlight(e) => ex[e].req = rows[r].req
      BY <1>1, <1>2 DEF RunsInv, InFlightStatus, InFlight
    <3> QED
      BY <1>2, <2>2, <2>4, <2>5, <3>1 DEF RunsInv, ResultOfRequest, Live
  <2> QED
    BY <2>7, <2>8, <2>9, <2>10, <2>11 DEF RunsInv
<1>3. CASE ~Live(r)
  BY <1>3, RaiseKeeps DEF UpdateCommit
<1> QED
  BY <1>2, <1>3

LEMMA ExecuteKeeps ==
  ASSUME TypeOK, OneCoroutine, RunsInv, SingleExecutingProcess,
         NEW e \in Executors, Execute(e)
  PROVE  RunsInv'
<1>0. ex[e] \in ExecutorState
  BY DEF TypeOK
<1>1. CASE CheckBudget(e)
  BY <1>0, <1>1, MoveKeeps
  DEF CheckBudget, Step, InFlight, Attempting, TypeOK, ExecutorState
<1>2. CASE Answer(e)
  <2>1. PICK x : /\ Step(e, x) /\ x.pc = "select"
                 /\ x.run = ex[e].run /\ x.req = ex[e].req
    <3> DEFINE told(o, c) == [ex[e] EXCEPT !.pc = "select", !.outcome = o, !.cost = c]
               failed == [ex[e] EXCEPT !.pc = "select", !.outcome = "failed"]
    <3>1. /\ \A o, c : /\ told(o, c).pc = "select"
                       /\ told(o, c).run = ex[e].run /\ told(o, c).req = ex[e].req
          /\ failed.pc = "select" /\ failed.run = ex[e].run /\ failed.req = ex[e].req
      BY <1>0 DEF ExecutorState
    <3>2. (\E o, c : Step(e, told(o, c))) \/ Step(e, failed)
      BY <1>2 DEF Answer
    <3> HIDE DEF told, failed
    <3> QED
      BY <3>1, <3>2
  <2> QED
    BY <1>2, <2>1, MoveKeeps DEF Answer, Step, InFlight, Attempting, TypeOK
<1>3. CASE UpdateSelect(e)
  BY <1>0, <1>3, MoveKeeps
  DEF UpdateSelect, Step, InFlight, Attempting, TypeOK, ExecutorState
<1>4. CASE AuditOutcome(e)
  BY <1>0, <1>4, MoveKeeps
  DEF AuditOutcome, Step, InFlight, Attempting, TypeOK, ExecutorState
<1>5. CASE DispatchDone(e)
  BY <1>5, MoveKeeps
  DEF DispatchDone, Step, IdleExecutor, InFlight, Attempting, TypeOK
<1> QED
  BY <1>1, <1>2, <1>3, <1>4, <1>5,
     ClaimSelectKeeps, ClaimCommitKeeps, UpdateCommitKeeps DEF Execute

LEMMA EnvironmentKeeps ==
  ASSUME TypeOK, RunsInv, SingleApi, Environment
  PROVE  RunsInv'
<1>1. ASSUME NEW e \in Executors, StoreError(e)
      PROVE  RunsInv'
  BY <1>1, StopKeeps DEF StoreError
<1>2. ASSUME NEW p \in ApiProcs, HandlerError(p)
      PROVE  RunsInv'
  BY <1>2, HandlerMoves DEF HandlerError, NoHandler
<1>3. ASSUME NEW p \in Procs, Crash(p)
      PROVE  RunsInv'
  <2>1. UNCHANGED <<rows, nextRun>>
    BY <1>3 DEF Crash
  <2>2. \A e \in Executors : InFlight(e)' => ex'[e] = ex[e]
    BY <1>3 DEF Crash, InFlight, Attempting, IdleExecutor
  <2>3. \A q \in ApiProcs : handler'[q] = handler[q] \/ handler'[q].op = "none"
    BY <1>3 DEF Crash, NoHandler
  <2>4. InFlightExclusive' /\ InFlightStatus'
    BY <2>1, <2>2 DEF RunsInv, InFlightExclusive, InFlightStatus, InFlight, Attempting, Live
  <2>5. ClarifyPending' /\ CreatePending' /\ ResultOfRequest'
    BY <2>1, <2>2, <2>3
    DEF RunsInv, ClarifyPending, CreatePending, ResultOfRequest, InFlight, Attempting, Live
  <2> QED
    BY <2>4, <2>5 DEF RunsInv
<1>4. CASE DayPasses \/ NewMonth
  BY <1>4
  DEF DayPasses, NewMonth, RunsInv, InFlightExclusive, InFlightStatus, InFlight,
      Attempting, ClarifyPending, CreatePending, ResultOfRequest, Live
<1> QED
  BY <1>1, <1>2, <1>3, <1>4 DEF Environment

LEMMA IInvIsInductive ==
  ASSUME SingleApi, SingleExecutingProcess
  PROVE  IInv /\ [Next]_vars => IInv'
<1> SUFFICES ASSUME IInv, [Next]_vars PROVE IInv'
  OBVIOUS
<1>1. TypeOK /\ OneCoroutine /\ RunsInv
  BY DEF IInv, RunsInv
<1>2. TypeOK'
  BY <1>1, NextType
<1>3. CASE Next
  <2>1. OneCoroutine'
    BY <1>1, <1>3, OneCoroutineStep
  <2>2. ASSUME NEW w \in Workers, Poll(w)
        PROVE  RunsInv'
    BY <1>1, <2>2
    DEF Poll, RunsInv, InFlightExclusive, InFlightStatus, InFlight, Attempting,
        ClarifyPending, CreatePending, ResultOfRequest, Live
  <2>3. RunsInv'
    BY <1>1, <1>3, <2>2, RequestKeeps, HandleKeeps, ExecuteKeeps, EnvironmentKeeps DEF Next
  <2> QED
    BY <1>2, <2>1, <2>3 DEF IInv, RunsInv
<1>4. CASE UNCHANGED vars
  BY <1>1, <1>2, <1>4
  DEF IInv, vars, OneCoroutine, RunsInv, InFlightExclusive, InFlightStatus, InFlight,
      Attempting, ClarifyPending, CreatePending, ResultOfRequest, Live
<1> QED
  BY <1>3, <1>4

LEMMA IInvInitially == Init => IInv
<1> SUFFICES ASSUME Init PROVE IInv
  OBVIOUS
<1>1. TypeOK
  BY InitType
<1> QED
  BY <1>1
  DEF Init, IInv, OneCoroutine, InFlightExclusive, InFlightStatus, InFlight, Attempting,
      ClarifyPending, CreatePending, ResultOfRequest, Live, Statuses,
      NoRow, IdleExecutor, NoHandler, Awaiting

\* With one API process and one executing process, however many background tasks
\* it interleaves and whatever crashes or fails, the inductive invariant holds.
THEOREM Inductive ==
  ASSUME SingleApi, SingleExecutingProcess
  PROVE  Spec => []IInv
  BY IInvInitially, IInvIsInductive, PTL DEF Spec

\* ... so no run is attempted twice at the same time (RunStore.claim is not
\* atomic, but its SELECT and UPDATE cannot be separated inside one process) ...
THEOREM NoConcurrentAttempts ==
  ASSUME SingleApi, SingleExecutingProcess
  PROVE  Spec => []AttemptExclusive
<1>1. IInv => AttemptExclusive
  BY DEF IInv, InFlightExclusive, InFlight, AttemptExclusive
<1> QED
  BY <1>1, Inductive, PTL

\* ... and a row never shows a result computed for another request than its own
\* (requeue_with_request against a late RunStore.update).
THEOREM ResultsMatchRequests ==
  ASSUME SingleApi, SingleExecutingProcess
  PROVE  Spec => []ResultOfRequest
<1>1. IInv => ResultOfRequest
  BY DEF IInv
<1> QED
  BY <1>1, Inductive, PTL

\* Whatever writes a row finds it there, and creation writes where nothing was.
LEMMA DeletedKept ==
  ASSUME IInv, Next, NEW r \in Runs, rows[r].status = "deleted"
  PROVE  rows'[r].status = "deleted"
<1>0. /\ TypeOK /\ CreatePending
      /\ ~Live(r)
  BY DEF IInv, Live, Statuses
<1>1. ASSUME NEW p \in ApiProcs, Request(p)
      PROVE  rows'[r] = rows[r]
  BY <1>1, RequestTurn
<1>2. ASSUME NEW p \in ApiProcs, Handle(p)
      PROVE  rows'[r] = rows[r]
  <2>1. CASE InsertRun(p)
    BY <1>0, <2>1 DEF InsertRun, StoreAndAudit, Abort, CreatePending, TypeOK
  <2>2. CASE CancelCommit(p) \/ ClarifyCommit(p)
    BY <1>0, <2>2 DEF CancelCommit, ClarifyCommit, StoreAndAudit, Abort, TypeOK
  <2>3. CASE DeleteCommit(p)
    BY <1>0, <2>3 DEF DeleteCommit
  <2>4. CASE RecordAudit(p) \/ CancelSelect(p)
    BY <2>4 DEF RecordAudit, CancelSelect, Begin
  <2> QED
    BY <1>2, <2>1, <2>2, <2>3, <2>4 DEF Handle
<1>3. ASSUME NEW e \in Executors, Execute(e)
      PROVE  rows'[r] = rows[r]
  <2>1. CASE ClaimCommit(e)
    BY <1>0, <2>1 DEF ClaimCommit, Die, TypeOK
  <2>2. CASE UpdateCommit(e)
    BY <1>0, <2>2 DEF UpdateCommit, Raise, Die, TypeOK
  <2>3. CASE UNCHANGED rows
    BY <2>3
  <2> QED
    BY <1>3, <2>1, <2>2, <2>3
    DEF Execute, ClaimSelect, CheckBudget, Answer, UpdateSelect, AuditOutcome, DispatchDone
<1>4. ASSUME UNCHANGED rows
      PROVE  rows'[r] = rows[r]
  BY <1>4
<1> QED
  BY <1>1, <1>2, <1>3, <1>4
  DEF Next, Poll, Environment, StoreError, HandlerError, Crash, DayPasses, NewMonth

\* A deleted run never comes back: not by a late RunStore.update of an attempt that
\* was under way, nor by a clarification or a cancel that had found it.
THEOREM DeletionsLast ==
  ASSUME SingleApi, SingleExecutingProcess
  PROVE  Spec => DeletedStaysDeleted
<1>1. IInv /\ [Next]_vars =>
        [\A r \in Runs : rows[r].status = "deleted" => rows'[r].status = "deleted"]_vars
  BY DeletedKept
<1> QED
  BY <1>1, Inductive, PTL DEF Spec, DeletedStaysDeleted

-----------------------------------------------------------------------------
(* Completed runs, while the database works: then a failure is reported by *)
(* an attempt that has not reported before, and it is the only one at its  *)
(* run, as far as its report.                                              *)

AtWork(e) == ex[e].pc \in {"budget", "call", "select", "write"}
InHand(e) == ex[e].pc = "claim" \/ AtWork(e)

HandInv ==
    /\ \A e, f \in Executors :
        e # f /\ InHand(e) /\ InHand(f) => ex[e].run # ex[f].run
    /\ \A e \in Executors : AtWork(e) =>
        rows[ex[e].run].status \in {"running", "cancelled", "failed", "deleted"}
    /\ \A p \in ApiProcs : handler[p].op = "clarify" =>
        /\ rows[handler[p].run].status \in {"needs_clarification", "deleted"}
        /\ \A e \in Executors : InHand(e) => ex[e].run # handler[p].run

\* A run in hand is neither absent nor waiting for a clarification, nor completed.
LEMMA InHandStatus ==
  ASSUME IInv, HandInv, NEW e \in Executors, InHand(e)
  PROVE  /\ ex[e].run \in Runs
         /\ rows[ex[e].run].status \in {"queued", "running", "cancelled", "failed", "deleted"}
         /\ AtWork(e) => rows[ex[e].run].status # "queued"
  BY DEF IInv, TypeOK, InFlightStatus, HandInv, InHand, AtWork

\* Rows change their status where nobody has them in hand, or to one that an
\* attempt under way has to expect.
LEMMA HandRows ==
  ASSUME IInv, HandInv, SingleApi, NEW p \in ApiProcs, NEW h, h.op # "clarify",
         handler' = [handler EXCEPT ![p] = h], UNCHANGED ex,
         \A r \in Runs : \/ rows'[r].status = rows[r].status
                         \/ rows'[r].status \in {"cancelled", "deleted"}
                         \/ \A e \in Executors : InHand(e) => ex[e].run # r
  PROVE  HandInv'
<1>1. \A q \in ApiProcs : handler'[q] = h
  BY DEF SingleApi, IInv, TypeOK
<1>2. \A e \in Executors : /\ InHand(e)' <=> InHand(e)
                           /\ AtWork(e)' <=> AtWork(e)
                           /\ AtWork(e) => InHand(e)
  BY DEF InHand, AtWork
<1>3. ASSUME NEW e \in Executors, AtWork(e)
      PROVE  rows'[ex[e].run].status \in {"running", "cancelled", "failed", "deleted"}
  BY <1>2, <1>3, InHandStatus DEF HandInv
<1> QED
  BY <1>1, <1>2, <1>3 DEF HandInv

LEMMA HandRequest ==
  ASSUME IInv, HandInv, SingleApi, NEW p \in ApiProcs, Request(p)
  PROVE  HandInv'
<1>1. UNCHANGED <<rows, ex>> /\ TypeOK
  BY RequestTurn DEF IInv
<1>2. \A e \in Executors : /\ InHand(e)' <=> InHand(e)
                           /\ AtWork(e)' <=> AtWork(e)
  BY <1>1 DEF InHand, AtWork
<1>3. ASSUME NEW r \in Runs, NEW q \in Requests, ClarifySelect(p, r, q)
      PROVE  HandInv'
  <2>1. handler'[p].op = "clarify" /\ handler'[p].run = r
    BY <1>1, <1>3 DEF ClarifySelect, Begin, TypeOK, NoHandler
  <2>2. rows[r].status = "needs_clarification"
    BY <1>3 DEF ClarifySelect
  <2>3. \A e \in Executors : InHand(e) => ex[e].run # r
    BY <2>2, InHandStatus
  <2> QED
    BY <1>1, <1>2, <2>1, <2>2, <2>3 DEF HandInv, SingleApi
<1>4. ASSUME handler'[p].op # "clarify"
      PROVE  HandInv'
  BY <1>1, <1>2, <1>4 DEF HandInv, SingleApi
<1> QED
  BY <1>1, <1>3, <1>4, RequestBegins

LEMMA HandHandle ==
  ASSUME IInv, HandInv, SingleApi, NEW p \in ApiProcs, Handle(p)
  PROVE  HandInv'
<1> DEFINE h == handler[p]
<1>0. TypeOK /\ CreatePending /\ NoHandler.op = "none" /\ UNCHANGED ex
  BY HandleTurn DEF IInv, NoHandler
<1>1. ASSUME NEW r \in Runs, NEW row, NEW event, StoreAndAudit(p, r, row, event),
             row.status = "cancelled" \/ \A e \in Executors : InHand(e) => ex[e].run # r
      PROVE  HandInv'
  <2> DEFINE next == [NoHandler EXCEPT !.op = "audit", !.run = r, !.event = event]
  <2>1. handler' = [handler EXCEPT ![p] = next] /\ rows' = [rows EXCEPT ![r] = row]
    BY <1>1 DEF StoreAndAudit
  <2>2. next.op = "audit"
    BY DEF NoHandler
  <2>3. \A o \in Runs : rows'[o] = IF o = r THEN row ELSE rows[o]
    BY <1>0, <2>1 DEF TypeOK
  <2> HIDE DEF next
  <2> QED
    BY <1>0, <1>1, <2>1, <2>2, <2>3, HandRows
<1>2. ASSUME NEW x, x.op # "clarify", handler' = [handler EXCEPT ![p] = x], UNCHANGED rows
      PROVE  HandInv'
  BY <1>0, <1>2, HandRows
<1>3. Usable(h)
  BY <1>0, HandlerUsable
<1>4. CASE InsertRun(p)
  <2>1. CASE WithKey(h.ws, h.key) = {}
    <3>1. h.run \in Runs /\ rows[h.run].status = "absent"
      BY <1>0, <1>3, <1>4 DEF InsertRun, CreatePending, Usable
    <3>2. \A e \in Executors : InHand(e) => ex[e].run # h.run
      BY <3>1, InHandStatus
    <3>3. \E row : StoreAndAudit(p, h.run, row, "created")
      BY <1>4, <2>1 DEF InsertRun
    <3> QED
      BY <1>1, <3>1, <3>2, <3>3
  <2>2. CASE WithKey(h.ws, h.key) # {}
    BY <1>0, <1>2, <1>4, <2>2 DEF InsertRun, Abort
  <2> QED
    BY <2>1, <2>2
<1>5. CASE RecordAudit(p)
  BY <1>0, <1>2, <1>5, HandRows DEF RecordAudit
<1>6. CASE CancelSelect(p)
  BY <1>2, <1>3, <1>6 DEF CancelSelect, Begin, Usable, HandlerState
<1>7. CASE CancelCommit(p)
  <2>1. CASE Live(h.run)
    <3>1. h.run \in Runs /\ rows[h.run] \in Row
      BY <1>0, <1>3, <1>7 DEF CancelCommit, Usable, TypeOK
    <3>2. [rows[h.run] EXCEPT !.status = "cancelled"].status = "cancelled"
      BY <3>1 DEF Row
    <3> QED
      BY <1>1, <1>7, <2>1, <3>1, <3>2 DEF CancelCommit
  <2>2. CASE ~Live(h.run)
    BY <1>0, <1>2, <1>7, <2>2 DEF CancelCommit, Abort
  <2> QED
    BY <2>1, <2>2
<1>8. CASE ClarifyCommit(p)
  <2>1. CASE Live(h.run)
    <3>1. h.run \in Runs /\ \A e \in Executors : InHand(e) => ex[e].run # h.run
      BY <1>3, <1>8 DEF ClarifyCommit, Usable, HandInv
    <3>2. \E row : StoreAndAudit(p, h.run, row, "clarified")
      BY <1>8, <2>1 DEF ClarifyCommit
    <3> QED
      BY <1>1, <3>1, <3>2
  <2>2. CASE ~Live(h.run)
    BY <1>0, <1>2, <1>8, <2>2 DEF ClarifyCommit, Abort
  <2> QED
    BY <2>1, <2>2
<1>9. CASE DeleteCommit(p)
  <2>1. \A r \in Runs : rows'[r].status = "deleted" \/ rows'[r] = rows[r]
    BY <1>9 DEF DeleteCommit, DeletedRow, NoRow
  <2> QED
    BY <1>0, <1>9, <2>1, HandRows DEF DeleteCommit
<1> QED
  BY <1>4, <1>5, <1>6, <1>7, <1>8, <1>9 DEF Handle

\* An executor that keeps its run, or lets go of it, and stores nothing.
LEMMA HandMove ==
  ASSUME IInv, HandInv, NEW e \in Executors, NEW x,
         ex' = [ex EXCEPT ![e] = x], UNCHANGED <<rows, handler>>,
         x.pc \in {"idle", "audit", "dispatch"} \/ (AtWork(e) /\ x.run = ex[e].run)
  PROVE  HandInv'
<1>1. \A f \in Executors : ex'[f] = IF f = e THEN x ELSE ex[f]
  BY DEF IInv, TypeOK
<1>2. \A f \in Executors :
        /\ InHand(f)' => InHand(f) /\ ex'[f].run = ex[f].run
        /\ AtWork(f)' => AtWork(f) /\ InHand(f)'
  BY <1>1 DEF InHand, AtWork
<1>3. \A f, g \in Executors : f # g /\ InHand(f)' /\ InHand(g)' => ex'[f].run # ex'[g].run
  BY <1>2 DEF HandInv
<1>4. \A f \in Executors : AtWork(f)' =>
        rows'[ex'[f].run].status \in {"running", "cancelled", "failed", "deleted"}
  BY <1>2 DEF HandInv
<1>5. \A p \in ApiProcs : handler'[p].op = "clarify" =>
        /\ rows'[handler'[p].run].status \in {"needs_clarification", "deleted"}
        /\ \A f \in Executors : InHand(f)' => ex'[f].run # handler'[p].run
  BY <1>2 DEF HandInv
<1> QED
  BY <1>3, <1>4, <1>5 DEF HandInv

LEMMA HandClaimSelect ==
  ASSUME IInv, HandInv, SingleExecutingProcess, NEW e \in Executors, ClaimSelect(e)
  PROVE  HandInv'
<1>1. PICK r \in Runs :
        Step(e, IF rows[r].status = "queued"
                THEN [IdleExecutor EXCEPT !.pc = "claim", !.run = r]
                ELSE IdleExecutor)
  BY DEF ClaimSelect
<1>2. UNCHANGED <<rows, handler>>
  BY <1>1 DEF ClaimSelect, Step
<1>3. CASE rows[r].status # "queued"
  BY <1>1, <1>2, <1>3, HandMove DEF Step, IdleExecutor
<1>4. CASE rows[r].status = "queued"
  <2>1. /\ ex'[e].pc = "claim" /\ ex'[e].run = r
        /\ \A f \in Executors : f # e => ex'[f] = ex[f]
    BY <1>1, <1>4 DEF Step, IInv, TypeOK, IdleExecutor
  <2>2. \A f \in Executors : f # e => ex[f].pc # "claim"
    BY DEF ClaimSelect, SingleExecutingProcess, Busy, Awaiting
  <2>3. \A f \in Executors : f # e /\ InHand(f) => ex[f].run # r
    BY <1>4, <2>2, InHandStatus DEF InHand
  <2> QED
    BY <1>2, <1>4, <2>1, <2>3 DEF HandInv, InHand, AtWork
<1> QED
  BY <1>3, <1>4

\* An executor that writes the row of its run: nobody else has it in hand.
LEMMA HandStore ==
  ASSUME IInv, HandInv, NEW e \in Executors, NEW x, NEW row, InHand(e),
         ex' = [ex EXCEPT ![e] = x], rows' = [rows EXCEPT ![ex[e].run] = row],
         UNCHANGED handler,
         \/ x.pc = "audit"
         \/ x.pc = "budget" /\ x.run = ex[e].run /\ row.status = "running"
  PROVE  HandInv'
<1>1. /\ \A f \in Executors : ex'[f] = IF f = e THEN x ELSE ex[f]
      /\ \A r \in Runs : rows'[r] = IF r = ex[e].run THEN row ELSE rows[r]
      /\ ex[e].run \in Runs
  BY InHandStatus DEF IInv, TypeOK
<1>2. ASSUME NEW f \in Executors, f # e, InHand(f)
      PROVE  ex[f].run \in Runs /\ ex[f].run # ex[e].run /\ rows'[ex[f].run] = rows[ex[f].run]
  BY <1>1, <1>2, InHandStatus DEF HandInv
<1>3. ASSUME NEW p \in ApiProcs, handler[p].op = "clarify"
      PROVE  rows'[handler[p].run] = rows[handler[p].run]
  BY <1>1, <1>3 DEF HandInv, IInv, TypeOK
<1>4. \A f \in Executors :
        /\ InHand(f)' => ex'[f].run = ex[f].run /\ InHand(f)
        /\ AtWork(f)' /\ f # e => AtWork(f) /\ InHand(f)
        /\ AtWork(e)' => rows'[ex[e].run].status = "running" /\ ex'[e].run = ex[e].run
  BY <1>1 DEF InHand, AtWork
<1>5. \A e1, f \in Executors : e1 # f /\ InHand(e1)' /\ InHand(f)' => ex'[e1].run # ex'[f].run
  BY <1>4 DEF HandInv
<1>6. \A f \in Executors : AtWork(f)' =>
        rows'[ex'[f].run].status \in {"running", "cancelled", "failed", "deleted"}
  BY <1>1, <1>2, <1>4 DEF HandInv
<1>7. \A p \in ApiProcs : handler'[p].op = "clarify" =>
        /\ rows'[handler'[p].run].status \in {"needs_clarification", "deleted"}
        /\ \A f \in Executors : InHand(f)' => ex'[f].run # handler'[p].run
  BY <1>3, <1>4 DEF HandInv
<1> QED
  BY <1>5, <1>6, <1>7 DEF HandInv

LEMMA HandExecute ==
  ASSUME IInv, HandInv, SingleExecutingProcess, NEW e \in Executors, Execute(e)
  PROVE  HandInv'
<1>0. ex[e] \in ExecutorState /\ UNCHANGED handler /\ IdleExecutor.pc = "idle"
  BY ExecuteTurn DEF IInv, TypeOK, IdleExecutor
<1>1. CASE ClaimCommit(e)
  <2>1. CASE Live(ex[e].run)
    <3> DEFINE x == [ex[e] EXCEPT !.pc = "budget", !.req = rows[ex[e].run].req]
               row == [rows[ex[e].run] EXCEPT !.status = "running"]
    <3>1. ex[e].run \in Runs /\ InHand(e) /\ rows[ex[e].run] \in Row
      BY <1>1 DEF ClaimCommit, InHand, IInv, TypeOK
    <3>2. /\ x.pc = "budget" /\ x.run = ex[e].run /\ row.status = "running"
          /\ ex' = [ex EXCEPT ![e] = x] /\ rows' = [rows EXCEPT ![ex[e].run] = row]
      BY <1>0, <1>1, <2>1, <3>1 DEF ClaimCommit, Step, ExecutorState, Row
    <3> HIDE DEF x, row
    <3> QED
      BY <1>0, <3>1, <3>2, HandStore
  <2>2. CASE ~Live(ex[e].run)
    BY <1>0, <1>1, <2>2, HandMove DEF ClaimCommit, Die, Step
  <2> QED
    BY <2>1, <2>2
<1>2. CASE UpdateCommit(e)
  <2>1. CASE Live(ex[e].run)
    <3> DEFINE x == [ex[e] EXCEPT !.pc = "audit"]
    <3>1. /\ x.pc = "audit" /\ ex' = [ex EXCEPT ![e] = x] /\ InHand(e)
          /\ rows' = [rows EXCEPT ![ex[e].run] = Reported(rows[ex[e].run], ex[e])]
      BY <1>0, <1>2, <2>1 DEF UpdateCommit, Step, ExecutorState, InHand, AtWork
    <3> HIDE DEF x
    <3> QED
      BY <1>0, <3>1, HandStore
  <2>2. CASE ~Live(ex[e].run)
    <3>1. Raise(e) /\ AtWork(e)
      BY <1>2, <2>2 DEF UpdateCommit, AtWork
    <3>2. CASE ex[e].outcome = "failed"
      BY <1>0, <3>1, <3>2, HandMove DEF Raise, Die, Step
    <3>3. CASE ex[e].outcome # "failed"
      <4> DEFINE x == [ex[e] EXCEPT !.pc = "select", !.outcome = "failed"]
      <4>1. x.run = ex[e].run /\ ex' = [ex EXCEPT ![e] = x] /\ UNCHANGED rows
        BY <1>0, <3>1, <3>3 DEF Raise, Step, ExecutorState
      <4> HIDE DEF x
      <4> QED
        BY <1>0, <3>1, <4>1, HandMove
    <3> QED
      BY <3>2, <3>3
  <2> QED
    BY <2>1, <2>2
<1>3. CASE CheckBudget(e)
  <2>1. PICK x : Step(e, x) /\ x.run = ex[e].run
    <3> DEFINE exhausted == [ex[e] EXCEPT !.pc = "select", !.outcome = "budget_exhausted"]
               affordable == [ex[e] EXCEPT !.pc = "call"]
    <3>1. exhausted.run = ex[e].run /\ affordable.run = ex[e].run
      BY <1>0 DEF ExecutorState
    <3>2. Step(e, exhausted) \/ Step(e, affordable)
      BY <1>3 DEF CheckBudget
    <3> HIDE DEF exhausted, affordable
    <3> QED
      BY <3>1, <3>2
  <2> QED
    BY <1>3, <2>1, HandMove DEF CheckBudget, Step, AtWork
<1>4. CASE Answer(e)
  <2>1. PICK x : Step(e, x) /\ x.run = ex[e].run
    <3> DEFINE told(o, c) == [ex[e] EXCEPT !.pc = "select", !.outcome = o, !.cost = c]
               failed == [ex[e] EXCEPT !.pc = "select", !.outcome = "failed"]
    <3>1. (\A o, c : told(o, c).run = ex[e].run) /\ failed.run = ex[e].run
      BY <1>0 DEF ExecutorState
    <3>2. (\E o, c : Step(e, told(o, c))) \/ Step(e, failed)
      BY <1>4 DEF Answer
    <3> HIDE DEF told, failed
    <3> QED
      BY <3>1, <3>2
  <2> QED
    BY <1>4, <2>1, HandMove DEF Answer, Step, AtWork
<1>5. CASE UpdateSelect(e)
  BY <1>0, <1>5, HandMove DEF UpdateSelect, Step, AtWork, ExecutorState
<1>6. CASE AuditOutcome(e)
  BY <1>0, <1>6, HandMove DEF AuditOutcome, Step, ExecutorState
<1>7. CASE DispatchDone(e)
  BY <1>0, <1>7, HandMove DEF DispatchDone, Step
<1> QED
  BY <1>1, <1>2, <1>3, <1>4, <1>5, <1>6, <1>7, HandClaimSelect DEF Execute

\* Faults stay on record.
LEMMA NoFaultBefore ==
  ASSUME TypeOK, [Next]_vars, env'.fault = 0
  PROVE  env.fault = 0 /\ ~Strike("fault", MaxFaults)
<1>0. env \in [crash : 0..MaxCrashes, fault : 0..MaxFaults, day : 0..MaxDays, month : 0..MaxMonths]
  BY DEF TypeOK
<1>1. ~Strike("fault", MaxFaults)
  BY <1>0 DEF Strike
<1>2. ASSUME Environment \/ \E w \in Workers : Poll(w) PROVE env.fault = 0
  BY <1>0, <1>1, <1>2
  DEF Environment, StoreError, HandlerError, Crash, DayPasses, NewMonth, Poll, Strike
<1>3. ASSUME UNCHANGED env PROVE env.fault = 0
  BY <1>3
<1>4. CASE UNCHANGED vars
  BY <1>1, <1>3, <1>4 DEF vars
<1> QED
  BY <1>1, <1>2, <1>3, <1>4, EnvKept DEF Next

LEMMA HandStep ==
  ASSUME SingleApi, SingleExecutingProcess, IInv, HandInv, [Next]_vars, env'.fault = 0
  PROVE  HandInv'
<1>1. ASSUME UNCHANGED <<rows, ex, handler>>
      PROVE  HandInv'
  BY <1>1 DEF HandInv, InHand, AtWork
<1>2. ASSUME NEW p \in Procs, Crash(p)
      PROVE  HandInv'
  <2>1. /\ \A e \in Executors : InHand(e)' => ex'[e] = ex[e]
        /\ \A q \in ApiProcs : handler'[q] = handler[q] \/ handler'[q].op = "none"
        /\ UNCHANGED rows
    BY <1>2 DEF Crash, InHand, AtWork, IdleExecutor, NoHandler
  <2>2. \A e \in Executors : /\ InHand(e)' => InHand(e)
                             /\ AtWork(e)' => AtWork(e) /\ InHand(e)'
    BY <2>1 DEF InHand, AtWork
  <2> QED
    BY <2>1, <2>2 DEF HandInv
<1>3. ~Strike("fault", MaxFaults)
  BY NoFaultBefore DEF IInv
<1>4. CASE Environment
  BY <1>1, <1>2, <1>3, <1>4 DEF Environment, StoreError, HandlerError, DayPasses, NewMonth
<1>5. ASSUME NEW w \in Workers, Poll(w)
      PROVE  HandInv'
  BY <1>1, <1>5 DEF Poll
<1>6. CASE UNCHANGED vars
  BY <1>1, <1>6 DEF vars
<1> QED
  BY <1>4, <1>5, <1>6, HandRequest, HandHandle, HandExecute DEF Next

LEMMA HandsKept ==
  ASSUME SingleApi, SingleExecutingProcess
  PROVE  Spec => [](env.fault = 0 => HandInv)
<1>1. Init => HandInv
  BY DEF Init, HandInv, InHand, AtWork, IdleExecutor, NoHandler
<1>2. IInv /\ (env.fault = 0 => HandInv) /\ [Next]_vars => (env.fault = 0 => HandInv)'
  BY HandStep, NoFaultBefore DEF IInv
<1> QED
  BY <1>1, <1>2, Inductive, PTL DEF Spec

LEMMA CompletedKept ==
  ASSUME IInv, HandInv, Next, NEW r \in Runs, rows[r].status = "completed"
  PROVE  \/ rows'[r].status \in {"completed", "deleted"}
         \/ /\ rows'[r] = [rows[r] EXCEPT !.status = "cancelled"]
            /\ \E p \in ApiProcs : handler[p].op = "cancel_commit"
<1>0. TypeOK /\ CreatePending
  BY DEF IInv
<1>1. ASSUME NEW p \in ApiProcs, Request(p)
      PROVE  rows'[r] = rows[r]
  BY <1>1, RequestTurn
<1>2. ASSUME NEW p \in ApiProcs, Handle(p)
      PROVE  \/ rows'[r] = rows[r]
             \/ rows'[r].status = "deleted"
             \/ /\ rows'[r] = [rows[r] EXCEPT !.status = "cancelled"]
                /\ handler[p].op = "cancel_commit"
  <2>1. CASE InsertRun(p)
    BY <1>0, <2>1 DEF InsertRun, StoreAndAudit, Abort, CreatePending, TypeOK
  <2>2. CASE ClarifyCommit(p)
    BY <1>0, <2>2 DEF ClarifyCommit, StoreAndAudit, Abort, HandInv, TypeOK
  <2>3. CASE CancelCommit(p)
    BY <1>0, <2>3 DEF CancelCommit, StoreAndAudit, Abort, TypeOK
  <2>4. CASE DeleteCommit(p)
    BY <1>0, <2>4 DEF DeleteCommit, DeletedRow, NoRow
  <2>5. CASE RecordAudit(p) \/ CancelSelect(p)
    BY <2>5 DEF RecordAudit, CancelSelect, Begin
  <2> QED
    BY <1>2, <2>1, <2>2, <2>3, <2>4, <2>5 DEF Handle
<1>3. ASSUME NEW e \in Executors, Execute(e)
      PROVE  rows'[r] = rows[r]
  <2>1. InHand(e) => ex[e].run # r
    BY InHandStatus
  <2>2. CASE ClaimCommit(e)
    BY <1>0, <2>1, <2>2 DEF ClaimCommit, Die, InHand, TypeOK
  <2>3. CASE UpdateCommit(e)
    BY <1>0, <2>1, <2>3 DEF UpdateCommit, Raise, Die, InHand, AtWork, TypeOK
  <2>4. CASE UNCHANGED rows
    BY <2>4
  <2> QED
    BY <1>3, <2>2, <2>3, <2>4
    DEF Execute, ClaimSelect, CheckBudget, Answer, UpdateSelect, AuditOutcome, DispatchDone
<1>4. ASSUME UNCHANGED rows
      PROVE  rows'[r] = rows[r]
  BY <1>4
<1> QED
  BY <1>1, <1>2, <1>3, <1>4
  DEF Next, Poll, Environment, StoreError, HandlerError, Crash, DayPasses, NewMonth

\* As long as the database works, all that can befall a completed run, next to its
\* deletion, is the CANCELLED of a request that saw it running: an attempt that
\* reports late is always the one that has the run in hand.
THEOREM CompletionsLast ==
  ASSUME SingleApi, SingleExecutingProcess, MaxFaults = 0
  PROVE  Spec => CompletedLeftOnlyByCancel
<1>1. IInv => env.fault = 0
  BY DEF IInv, TypeOK
<1>2. Spec => [](env.fault = 0 => HandInv)
  BY HandsKept
<1>3. IInv /\ HandInv /\ [Next]_vars =>
        [\A r \in Runs : rows[r].status = "completed" =>
            \/ rows'[r].status \in {"completed", "deleted"}
            \/ /\ rows'[r] = [rows[r] EXCEPT !.status = "cancelled"]
               /\ \E p \in ApiProcs : handler[p].op = "cancel_commit"]_vars
  BY CompletedKept
<1> QED
  BY <1>1, <1>2, <1>3, Inductive, PTL DEF Spec, CompletedLeftOnlyByCancel

-----------------------------------------------------------------------------
(* Keys, in every deployment.                                              *)

\* Two rows of a workspace never share a key.
KeysUnique ==
    \A r, s \in Runs :
        Live(r) /\ Live(s) /\ rows[r].ws = rows[s].ws
        /\ rows[r].key = rows[s].key /\ rows[r].key # None => r = s

\* A row that is there afterwards was there before, under the same key.
SameKeys ==
    \A r \in Runs : Live(r)' =>
        Live(r) /\ rows'[r].ws = rows[r].ws /\ rows'[r].key = rows[r].key

LEMMA StoreSameKeys ==
  ASSUME TypeOK, NEW r \in Runs, Live(r), NEW row, row.ws = rows[r].ws,
         row.key = rows[r].key, rows' = [rows EXCEPT ![r] = row]
  PROVE  SameKeys
  BY DEF TypeOK, SameKeys, Live

LEMMA InsertUnique ==
  ASSUME TypeOK, KeysUnique, NEW p \in ApiProcs, InsertRun(p)
  PROVE  KeysUnique'
<1>1. CASE WithKey(handler[p].ws, handler[p].key) = {}
  <2>1. PICK r, row :
            /\ r \in Runs
            /\ row = [NoRow EXCEPT !.ws = handler[p].ws, !.key = handler[p].key,
                                   !.req = handler[p].req, !.status = "queued"]
            /\ rows' = [rows EXCEPT ![r] = row]
            /\ r = handler[p].run
    BY <1>1 DEF InsertRun, StoreAndAudit, TypeOK
  <2>2. row.ws = handler[p].ws /\ row.key = handler[p].key
    BY <2>1 DEF NoRow
  <2>3. \A s \in Runs : Live(s) /\ rows[s].ws = row.ws /\ rows[s].key = row.key => row.key = None
    BY <1>1, <2>2 DEF WithKey, InWorkspace
  <2>4. rows'[r] = row /\ \A s \in Runs : s # r => rows'[s] = rows[s]
    BY <2>1 DEF TypeOK
  <2> QED
    BY <2>3, <2>4 DEF KeysUnique, Live
<1>2. CASE WithKey(handler[p].ws, handler[p].key) # {}
  BY <1>2 DEF InsertRun, Abort, KeysUnique, Live
<1> QED
  BY <1>1, <1>2

LEMMA KeysStep == TypeOK /\ KeysUnique /\ [Next]_vars => KeysUnique'
<1> SUFFICES ASSUME TypeOK, KeysUnique, [Next]_vars PROVE KeysUnique'
  OBVIOUS
<1>1. ASSUME UNCHANGED rows PROVE SameKeys
  BY <1>1 DEF SameKeys, Live
<1>2. ASSUME NEW p \in ApiProcs, Handle(p) PROVE SameKeys \/ InsertRun(p)
  <2>1. CASE CancelCommit(p)
    <3>1. CASE Live(handler[p].run)
      <4>1. PICK r, row :
                /\ r \in Runs
                /\ r = handler[p].run /\ row = [rows[r] EXCEPT !.status = "cancelled"]
                /\ rows' = [rows EXCEPT ![r] = row]
        BY <2>1, <3>1 DEF CancelCommit, StoreAndAudit, TypeOK
      <4>2. row.ws = rows[r].ws /\ row.key = rows[r].key
        BY <4>1 DEF TypeOK, Row
      <4> QED
        BY <3>1, <4>1, <4>2, StoreSameKeys
    <3> QED
      BY <1>1, <2>1, <3>1 DEF CancelCommit, Abort
  <2>2. CASE ClarifyCommit(p)
    <3>1. CASE Live(handler[p].run)
      <4>1. PICK r, row :
                /\ r \in Runs
                /\ r = handler[p].run
                /\ row = [rows[r] EXCEPT !.req = handler[p].req, !.status = "queued",
                                         !.result = None, !.cost = 0]
                /\ rows' = [rows EXCEPT ![r] = row]
        BY <2>2, <3>1 DEF ClarifyCommit, StoreAndAudit, TypeOK
      <4>2. row.ws = rows[r].ws /\ row.key = rows[r].key
        BY <4>1 DEF TypeOK, Row
      <4> QED
        BY <3>1, <4>1, <4>2, StoreSameKeys
    <3> QED
      BY <1>1, <2>2, <3>1 DEF ClarifyCommit, Abort
  <2>3. CASE DeleteCommit(p)
    BY <2>3 DEF DeleteCommit, SameKeys, Live, DeletedRow, NoRow, Statuses
  <2> QED
    BY <1>1, <1>2, <2>1, <2>2, <2>3 DEF Handle, RecordAudit, CancelSelect, Begin
<1>3. ASSUME NEW e \in Executors, Execute(e) PROVE SameKeys
  <2>1. CASE ClaimCommit(e)
    <3>1. CASE Live(ex[e].run)
      <4>1. PICK r, row :
                /\ r \in Runs
                /\ r = ex[e].run /\ row = [rows[r] EXCEPT !.status = "running"]
                /\ rows' = [rows EXCEPT ![r] = row]
        BY <2>1, <3>1 DEF ClaimCommit, TypeOK
      <4>2. row.ws = rows[r].ws /\ row.key = rows[r].key
        BY <4>1 DEF TypeOK, Row
      <4> QED
        BY <3>1, <4>1, <4>2, StoreSameKeys
    <3> QED
      BY <1>1, <2>1, <3>1 DEF ClaimCommit, Die
  <2>2. CASE UpdateCommit(e)
    <3>1. CASE Live(ex[e].run)
      <4>1. PICK r, row :
                /\ r \in Runs
                /\ r = ex[e].run /\ row = Reported(rows[r], ex[e])
                /\ rows' = [rows EXCEPT ![r] = row]
        BY <2>2, <3>1 DEF UpdateCommit, TypeOK
      <4>2. row.ws = rows[r].ws /\ row.key = rows[r].key
        BY <4>1 DEF TypeOK, Row, Reported
      <4> QED
        BY <3>1, <4>1, <4>2, StoreSameKeys
    <3> QED
      BY <1>1, <2>2, <3>1 DEF UpdateCommit, Raise, Die
  <2> QED
    BY <1>1, <1>3, <2>1, <2>2
    DEF Execute, ClaimSelect, CheckBudget, Answer, UpdateSelect, AuditOutcome, DispatchDone
<1>4. ASSUME NEW p \in ApiProcs, Request(p) PROVE SameKeys
  BY <1>1, <1>4, RequestTurn
<1>5. SameKeys \/ \E p \in ApiProcs : InsertRun(p)
  BY <1>1, <1>2, <1>3, <1>4
  DEF Next, Poll, Environment, StoreError, HandlerError, Crash, DayPasses, NewMonth, vars
<1>6. CASE SameKeys
  BY <1>6 DEF SameKeys, KeysUnique
<1> QED
  BY <1>5, <1>6, InsertUnique

\* A workspace has one run per Idempotency-Key at most, however many API processes
\* and workers there are (RunStore.create and the unique constraint).
THEOREM KeysIdentifyRuns == Spec => []OneRunPerKey
<1>1. Init => KeysUnique
  BY DEF Init, KeysUnique, Live, NoRow, Statuses
<1>2. KeysUnique => OneRunPerKey
  <2> SUFFICES ASSUME KeysUnique, NEW ws \in Workspaces, NEW k \in Keys
               PROVE  Cardinality(WithKey(ws, k)) <= 1
    BY DEF OneRunPerKey
  <2>1. \A r, s \in WithKey(ws, k) : r = s
    BY DEF KeysUnique, WithKey, InWorkspace
  <2>2. CASE WithKey(ws, k) = {}
    BY <2>2, FS_EmptySet
  <2>3. ASSUME NEW r \in WithKey(ws, k) PROVE Cardinality(WithKey(ws, k)) = 1
    <3>1. WithKey(ws, k) = {r}
      BY <2>1
    <3> QED
      BY <3>1, FS_Singleton
  <2> QED
    BY <2>2, <2>3
<1> QED
  BY <1>1, <1>2, KeysStep, TypeCorrect, PTL DEF Spec

-----------------------------------------------------------------------------
(* The audit log, in every deployment.                                     *)

\* An event has been recorded about a run, or is about to be.
Recording(r, event) ==
    \/ <<r, event>> \in audit
    \/ \E p \in ApiProcs : handler[p].op = "audit" /\ handler[p].run = r /\ handler[p].event = event
    \/ \E e \in Executors : ex[e].pc = "audit" /\ ex[e].run = r /\ OutcomeEvent(ex[e].outcome) = event

\* The events that account for the status of a run.
Explained(r, status) ==
    /\ status = "cancelled" => Recording(r, "cancelled")
    /\ status \in {"completed", "needs_clarification"} => Recording(r, "status_changed")
    /\ status = "failed" => Recording(r, "failed") \/ Recording(r, "budget_exhausted")

Trail == \A r \in Runs : Live(r) => Recording(r, "created") /\ Explained(r, rows[r].status)

\* What was about to be recorded still is, or has been.
AuditKept ==
    /\ audit \subseteq audit'
    /\ \A p \in ApiProcs : handler[p].op = "audit" =>
            handler'[p] = handler[p] \/ <<handler[p].run, handler[p].event>> \in audit'
    /\ \A e \in Executors : ex[e].pc = "audit" =>
            ex'[e] = ex[e] \/ <<ex[e].run, OutcomeEvent(ex[e].outcome)>> \in audit'

LEMMA RecordingKept ==
  ASSUME AuditKept, NEW r, NEW event, Recording(r, event)
  PROVE  Recording(r, event)'
<1>1. CASE <<r, event>> \in audit
  BY <1>1 DEF AuditKept, Recording
<1>2. ASSUME NEW p \in ApiProcs, handler[p].op = "audit", handler[p].run = r,
             handler[p].event = event
      PROVE  Recording(r, event)'
  BY <1>2 DEF AuditKept, Recording
<1>3. ASSUME NEW e \in Executors, ex[e].pc = "audit", ex[e].run = r,
             OutcomeEvent(ex[e].outcome) = event
      PROVE  Recording(r, event)'
  <2>1. OutcomeEvent(ex[e].outcome)' = OutcomeEvent(ex'[e].outcome)
    BY DEF OutcomeEvent
  <2> QED
    BY <1>3, <2>1 DEF AuditKept, Recording, OutcomeEvent
<1> QED
  BY <1>1, <1>2, <1>3 DEF Recording

\* A step that stores nothing keeps the trail.
LEMMA TrailKept ==
  ASSUME Trail, AuditKept, UNCHANGED rows
  PROVE  Trail'
  BY RecordingKept DEF Trail, Explained, Live

\* One that stores a row keeps it if it records why.
LEMMA TrailStored ==
  ASSUME TypeOK, Trail, AuditKept, NEW r \in Runs, NEW row,
         rows' = [rows EXCEPT ![r] = row],
         Recording(r, "created") \/ Recording(r, "created")',
         \/ row.status \in {"queued", "running"}
         \/ row.status = "cancelled" /\ Recording(r, "cancelled")'
         \/ row.status \in {"completed", "needs_clarification"} /\ Recording(r, "status_changed")'
         \/ row.status = "failed" /\ (Recording(r, "failed")' \/ Recording(r, "budget_exhausted")')
  PROVE  Trail'
<1>1. rows'[r] = row /\ \A s \in Runs : s # r => rows'[s] = rows[s]
  BY DEF TypeOK
<1>2. Recording(r, "created")'
  BY RecordingKept
<1>3. ASSUME NEW s \in Runs, Live(s)', s # r
      PROVE  Recording(s, "created")' /\ Explained(s, rows[s].status)'
  BY <1>1, <1>3, RecordingKept DEF Trail, Explained, Live
<1>4. Explained(r, row.status)'
  BY DEF Explained
<1> QED
  BY <1>1, <1>2, <1>3, <1>4 DEF Trail, Explained

LEMMA HandlerAuditKept ==
  ASSUME TypeOK, NEW p \in ApiProcs, NEW h, handler' = [handler EXCEPT ![p] = h],
         audit \subseteq audit', UNCHANGED ex,
         handler[p].op = "audit" => <<handler[p].run, handler[p].event>> \in audit'
  PROVE  AuditKept
  BY DEF TypeOK, AuditKept

LEMMA ExecutorAuditKept ==
  ASSUME TypeOK, NEW e \in Executors, NEW x, ex' = [ex EXCEPT ![e] = x],
         audit \subseteq audit', UNCHANGED handler,
         ex[e].pc = "audit" => <<ex[e].run, OutcomeEvent(ex[e].outcome)>> \in audit'
  PROVE  AuditKept
  BY DEF TypeOK, AuditKept

LEMMA TrailRequest ==
  ASSUME TypeOK, Trail, NEW p \in ApiProcs, Request(p)
  PROVE  Trail'
<1>1. handler[p].op = "none" /\ audit' = audit
  BY DEF Request, ReplayResearch, CreateResearch, CancelGet, ClarifySelect,
         PurgeSelect, PrivacySelect, Begin, Ready, Busy
<1>2. PICK h : handler' = [handler EXCEPT ![p] = h] /\ UNCHANGED <<rows, ex>>
  BY RequestTurn
<1> QED
  BY <1>1, <1>2, HandlerAuditKept, TrailKept

\* A handler that stores a row goes on to record the event.
LEMMA TrailStoreAndAudit ==
  ASSUME TypeOK, Trail, NEW p \in ApiProcs, handler[p].op # "audit",
         NEW r \in Runs, NEW row, NEW event, StoreAndAudit(p, r, row, event),
         Live(r) \/ event = "created",
         row.status = "queued" \/ (row.status = "cancelled" /\ event = "cancelled")
  PROVE  Trail'
<1>1. PICK h : /\ h = [NoHandler EXCEPT !.op = "audit", !.run = r, !.event = event]
               /\ handler' = [handler EXCEPT ![p] = h]
               /\ UNCHANGED <<ex, audit>> /\ rows' = [rows EXCEPT ![r] = row]
  BY DEF StoreAndAudit
<1>2. h.op = "audit" /\ h.run = r /\ h.event = event /\ handler'[p] = h
  BY <1>1 DEF NoHandler, TypeOK
<1>3. Recording(r, event)'
  BY <1>2 DEF Recording
<1>4. AuditKept
  BY <1>1, HandlerAuditKept
<1>5. Recording(r, "created") \/ Recording(r, "created")'
  BY <1>3 DEF Trail
<1> QED
  BY <1>1, <1>3, <1>4, <1>5, TrailStored

LEMMA TrailHandle ==
  ASSUME TypeOK, Trail, NEW p \in ApiProcs, Handle(p)
  PROVE  Trail'
<1> DEFINE r == handler[p].run
<1>0. Usable(handler[p]) /\ (handler[p].op \notin {"none", "delete"} => r \in Runs)
  BY HandlerUsable DEF Usable
<1>1. ASSUME UNCHANGED <<rows, audit>>, handler[p].op # "audit" PROVE Trail'
  BY <1>1, HandleTurn, HandlerAuditKept, TrailKept
<1>2. CASE InsertRun(p)
  <2>1. CASE WithKey(handler[p].ws, handler[p].key) = {}
    <3>1. PICK row : /\ row = [NoRow EXCEPT !.ws = handler[p].ws, !.key = handler[p].key,
                                   !.req = handler[p].req, !.status = "queued"]
                     /\ StoreAndAudit(p, r, row, "created")
      BY <1>2, <2>1 DEF InsertRun
    <3>2. row.status = "queued"
      BY <3>1 DEF NoRow
    <3> QED
      BY <1>0, <1>2, <3>1, <3>2, TrailStoreAndAudit DEF InsertRun
  <2> QED
    BY <1>1, <1>2, <2>1 DEF InsertRun, Abort
<1>3. CASE CancelCommit(p)
  <2>1. CASE Live(r)
    <3>1. PICK row : /\ row = [rows[r] EXCEPT !.status = "cancelled"]
                     /\ StoreAndAudit(p, r, row, "cancelled")
      BY <1>3, <2>1 DEF CancelCommit
    <3>2. row.status = "cancelled"
      BY <1>0, <1>3, <3>1 DEF TypeOK, Row, CancelCommit
    <3> QED
      BY <1>0, <1>3, <2>1, <3>1, <3>2, TrailStoreAndAudit DEF CancelCommit
  <2> QED
    BY <1>1, <1>3, <2>1 DEF CancelCommit, Abort
<1>4. CASE ClarifyCommit(p)
  <2>1. CASE Live(r)
    <3>1. PICK row : /\ row = [rows[r] EXCEPT !.req = handler[p].req, !.status = "queued",
                                              !.result = None, !.cost = 0]
                     /\ StoreAndAudit(p, r, row, "clarified")
      BY <1>4, <2>1 DEF ClarifyCommit
    <3>2. row.status = "queued"
      BY <1>0, <1>4, <3>1 DEF TypeOK, Row, ClarifyCommit
    <3> QED
      BY <1>0, <1>4, <2>1, <3>1, <3>2, TrailStoreAndAudit DEF ClarifyCommit
  <2> QED
    BY <1>1, <1>4, <2>1 DEF ClarifyCommit, Abort
<1>5. CASE DeleteCommit(p)
  <2>1. AuditKept
    BY <1>5, HandlerAuditKept DEF DeleteCommit
  <2>2. \A s \in Runs : Live(s)' => Live(s) /\ rows'[s] = rows[s]
    BY <1>5 DEF DeleteCommit, Live, DeletedRow, NoRow, Statuses
  <2> QED
    BY <2>1, <2>2, RecordingKept DEF Trail, Explained
<1>6. CASE RecordAudit(p)
  BY <1>6, HandlerAuditKept, TrailKept DEF RecordAudit
<1>7. CASE CancelSelect(p)
  BY <1>1, <1>7 DEF CancelSelect, Begin
<1> QED
  BY <1>2, <1>3, <1>4, <1>5, <1>6, <1>7 DEF Handle

LEMMA TrailExecute ==
  ASSUME TypeOK, Trail, NEW e \in Executors, Execute(e)
  PROVE  Trail'
<1> DEFINE r == ex[e].run
<1>0. Running(ex[e])
  BY ExecutorRunning
<1>1. ASSUME UNCHANGED <<rows, audit>>, ex[e].pc # "audit" PROVE Trail'
  BY <1>1, ExecuteTurn, ExecutorAuditKept, TrailKept
<1>2. CASE ClaimCommit(e)
  <2>1. CASE Live(r)
    <3>1. PICK row : row = [rows[r] EXCEPT !.status = "running"] /\ rows' = [rows EXCEPT ![r] = row]
      BY <1>2, <2>1 DEF ClaimCommit
    <3>2. r \in Runs /\ row.status = "running"
      BY <1>0, <1>2, <3>1 DEF TypeOK, Row, ClaimCommit, Running
    <3>3. AuditKept
      BY <1>2, <2>1, ExecuteTurn, ExecutorAuditKept DEF ClaimCommit
    <3> QED
      BY <2>1, <3>1, <3>2, <3>3, TrailStored DEF Trail
  <2> QED
    BY <1>1, <1>2, <2>1 DEF ClaimCommit, Die
<1>3. CASE UpdateCommit(e)
  <2>1. CASE Live(r)
    <3>0. PICK run, o : run = r /\ o = ex[e].outcome
      OBVIOUS
    <3>1. PICK row, x : /\ row = Reported(rows[run], ex[e]) /\ rows' = [rows EXCEPT ![run] = row]
                        /\ x = [ex[e] EXCEPT !.pc = "audit"] /\ ex' = [ex EXCEPT ![e] = x]
                        /\ UNCHANGED <<audit, handler>>
      <4>1. /\ rows' = [rows EXCEPT ![run] = Reported(rows[run], ex[e])]
            /\ ex' = [ex EXCEPT ![e] = [ex[e] EXCEPT !.pc = "audit"]]
            /\ UNCHANGED <<audit, handler>>
        BY <1>3, <2>1, <3>0 DEF UpdateCommit, Step
      <4> QED
        BY <4>1
    <3>2. run \in Runs /\ o \in Outcomes /\ ex[e].pc = "write"
      BY <1>0, <1>3, <3>0 DEF UpdateCommit, Running
    <3>3. ex'[e] = x /\ x.pc = "audit" /\ x.run = run /\ x.outcome = o
      BY <1>0, <3>0, <3>1 DEF TypeOK, Running, ExecutorState
    <3>4. Recording(run, OutcomeEvent(o))'
      BY <3>3 DEF Recording, OutcomeEvent
    <3>5. AuditKept
      BY <3>1, <3>2, ExecutorAuditKept
    <3>6. rows[run] \in Row
      BY <3>2 DEF TypeOK
    <3>7. row.status = IF o \in {"completed", "needs_clarification"} THEN o ELSE "failed"
      BY <3>0, <3>1, <3>2, <3>6 DEF Reported, Row
    <3>8. Recording(run, "created")
      BY <2>1, <3>0, <3>2 DEF Trail
    <3>9. CASE o \in {"completed", "needs_clarification"}
      <4>1. Recording(run, "status_changed")' /\ row.status \in {"completed", "needs_clarification"}
        BY <3>4, <3>7, <3>9 DEF OutcomeEvent
      <4> QED
        BY <3>1, <3>2, <3>5, <3>8, <4>1, TrailStored
    <3>10. CASE o \in {"failed", "budget_exhausted"}
      <4>1. Recording(run, o)' /\ row.status = "failed"
        BY <3>4, <3>7, <3>10 DEF OutcomeEvent
      <4>2. Recording(run, "failed")' \/ Recording(run, "budget_exhausted")'
        BY <3>10, <4>1
      <4> QED
        BY <3>1, <3>2, <3>5, <3>8, <4>1, <4>2, TrailStored
    <3> QED
      BY <3>2, <3>9, <3>10 DEF Outcomes
  <2> QED
    BY <1>1, <1>3, <2>1 DEF UpdateCommit, Raise, Die
<1>4. CASE AuditOutcome(e)
  BY <1>4, ExecutorAuditKept, TrailKept DEF AuditOutcome, Step
<1>5. CASE ClaimSelect(e) \/ CheckBudget(e) \/ Answer(e) \/ UpdateSelect(e) \/ DispatchDone(e)
  BY <1>1, <1>5 DEF ClaimSelect, CheckBudget, Answer, UpdateSelect, DispatchDone
<1> QED
  BY <1>2, <1>3, <1>4, <1>5 DEF Execute

\* Disturbances stay on record, and a step into an undisturbed state is none.
LEMMA UndisturbedBefore ==
  ASSUME TypeOK, [Next]_vars, Undisturbed'
  PROVE  /\ Undisturbed
         /\ ~\E e \in Executors : StoreError(e)
         /\ ~\E p \in ApiProcs : HandlerError(p)
         /\ ~\E p \in Procs : Crash(p)
<1>0. env \in [crash : 0..MaxCrashes, fault : 0..MaxFaults, day : 0..MaxDays, month : 0..MaxMonths]
  BY DEF TypeOK
<1>1. /\ ~\E e \in Executors : StoreError(e)
      /\ ~\E p \in ApiProcs : HandlerError(p)
      /\ ~\E p \in Procs : Crash(p)
  <2>1. ASSUME NEW bound, Strike("fault", bound) PROVE FALSE
    BY <1>0, <2>1 DEF Strike, Undisturbed
  <2>2. ASSUME NEW bound, Strike("crash", bound) PROVE FALSE
    BY <1>0, <2>2 DEF Strike, Undisturbed
  <2> QED
    BY <2>1, <2>2 DEF StoreError, HandlerError, Crash
<1>2. ASSUME DayPasses \/ NewMonth PROVE Undisturbed
  BY <1>0, <1>2 DEF Undisturbed, DayPasses, NewMonth, Strike
<1>3. ASSUME UNCHANGED vars \/ \E w \in Workers : Poll(w) PROVE Undisturbed
  BY <1>3 DEF vars, Poll, Undisturbed
<1>4. ASSUME (\E p \in ApiProcs : Request(p) \/ Handle(p)) \/ \E e \in Executors : Execute(e)
      PROVE  Undisturbed
  BY <1>4, EnvKept DEF Undisturbed
<1> QED
  BY <1>1, <1>2, <1>3, <1>4 DEF Next, Environment

LEMMA TrailStep ==
  ASSUME TypeOK, Undisturbed => Trail, [Next]_vars, Undisturbed'
  PROVE  Trail'
<1>1. /\ Trail
      /\ ~\E e \in Executors : StoreError(e)
      /\ ~\E p \in ApiProcs : HandlerError(p)
      /\ ~\E p \in Procs : Crash(p)
  BY UndisturbedBefore
<1>2. CASE UNCHANGED vars
  BY <1>1, <1>2, TrailKept DEF AuditKept, vars
<1>3. CASE \E w \in Workers : Poll(w)
  BY <1>1, <1>3, TrailKept DEF AuditKept, Poll
<1>4. CASE DayPasses \/ NewMonth
  BY <1>1, <1>4, TrailKept DEF AuditKept, DayPasses, NewMonth
<1> QED
  BY <1>1, <1>2, <1>3, <1>4, TrailRequest, TrailHandle, TrailExecute DEF Next, Environment

\* When nobody is in the middle of a step the audit log accounts for every run,
\* in every deployment, until a process dies or the database refuses something
\* (record_audit follows every RunStore.create, update and requeue_with_request).
THEOREM RunsAudited == Spec => []AuditTrail
<1>1. Init => Trail
  BY DEF Init, Trail, Live, NoRow, Statuses
<1>2. TypeOK /\ (Undisturbed => Trail) => AuditTrail
  <2> SUFFICES ASSUME TypeOK, Trail, \A p \in Procs : ~Busy(p), NEW r \in Runs, Live(r)
               PROVE  /\ <<r, "created">> \in audit
                      /\ rows[r].status = "cancelled" => <<r, "cancelled">> \in audit
                      /\ rows[r].status \in {"completed", "needs_clarification"} =>
                            <<r, "status_changed">> \in audit
                      /\ rows[r].status = "failed" =>
                            <<r, "failed">> \in audit \/ <<r, "budget_exhausted">> \in audit
    BY DEF AuditTrail
  <2>1. /\ \A p \in ApiProcs : handler[p].op = "none"
        /\ \A e \in Executors : ex[e].pc \in Awaiting
    BY ExecutorRunning DEF Busy, Procs
  <2>2. \A event : Recording(r, event) => <<r, event>> \in audit
    BY <2>1 DEF Recording, Awaiting
  <2> QED
    BY <2>2 DEF Trail, Explained
<1>3. TypeOK /\ (Undisturbed => Trail) /\ [Next]_vars => (Undisturbed => Trail)'
  BY TrailStep
<1> QED
  BY <1>1, <1>2, <1>3, TypeCorrect, PTL DEF Spec

-----------------------------------------------------------------------------
(* No run is forgotten: what a step takes from a run's attendance, it has  *)
(* put somewhere else, or the run has left the status that needs it.       *)

HandsOn ==
    \A r \in Runs :
        /\ rows'[r].status = "running" =>
            \/ rows[r].status = "running" /\ (InAttempt(r) => InAttempt(r)')
            \/ InAttempt(r)'
        /\ AutoExecute /\ rows'[r].status = "queued" =>
            \/ rows[r].status = "queued" /\ (Scheduled(r) => Scheduled(r)')
            \/ Scheduled(r)'

\* A step of a handler that stores nothing.
LEMMA HandsOnHandler ==
  ASSUME TypeOK, NEW p \in ApiProcs, NEW h, handler' = [handler EXCEPT ![p] = h],
         handler[p].op # "audit", UNCHANGED <<rows, ex, inbox>>
  PROVE  HandsOn
<1>1. \A q \in ApiProcs : handler[q].op = "audit" => handler'[q] = handler[q]
  BY DEF TypeOK
<1> QED
  BY <1>1 DEF HandsOn, InAttempt, Scheduled

\* One that stores a row, and queues it only with an event that schedules it.
LEMMA HandsOnStore ==
  ASSUME TypeOK, NEW p \in ApiProcs, handler[p].op # "audit",
         NEW r \in Runs, NEW row, NEW event, StoreAndAudit(p, r, row, event),
         row.status # "running",
         row.status = "queued" => event \in {"created", "clarified"}
  PROVE  HandsOn
<1>1. PICK h : /\ h = [NoHandler EXCEPT !.op = "audit", !.run = r, !.event = event]
               /\ handler' = [handler EXCEPT ![p] = h]
               /\ UNCHANGED <<ex, inbox>> /\ rows' = [rows EXCEPT ![r] = row]
  BY DEF StoreAndAudit
<1>2. h.op = "audit" /\ h.run = r /\ h.event = event /\ handler'[p] = h
  BY <1>1 DEF NoHandler, TypeOK
<1>3. rows'[r] = row /\ \A s \in Runs : s # r => rows'[s] = rows[s]
  BY <1>1 DEF TypeOK
<1>4. \A q \in ApiProcs : handler[q].op = "audit" => handler'[q] = handler[q]
  BY <1>1 DEF TypeOK
<1>5. row.status = "queued" => Scheduled(r)'
  BY <1>2 DEF Scheduled
<1>6. \A s \in Runs : (InAttempt(s) => InAttempt(s)') /\ (Scheduled(s) => Scheduled(s)')
  BY <1>1, <1>4 DEF InAttempt, Scheduled
<1> QED
  BY <1>3, <1>5, <1>6 DEF HandsOn

LEMMA HandsOnHandle ==
  ASSUME TypeOK, NEW p \in ApiProcs, Handle(p)
  PROVE  HandsOn
<1> DEFINE r == handler[p].run
<1>0. Usable(handler[p]) /\ (handler[p].op \notin {"none", "delete"} => r \in Runs)
  BY HandlerUsable DEF Usable
<1>1. ASSUME UNCHANGED <<rows, inbox>>, handler[p].op # "audit" PROVE HandsOn
  BY <1>1, HandleTurn, HandsOnHandler
<1>2. CASE InsertRun(p)
  <2>1. CASE WithKey(handler[p].ws, handler[p].key) = {}
    <3>1. PICK row : /\ row = [NoRow EXCEPT !.ws = handler[p].ws, !.key = handler[p].key,
                                   !.req = handler[p].req, !.status = "queued"]
                     /\ StoreAndAudit(p, r, row, "created")
      BY <1>2, <2>1 DEF InsertRun
    <3>2. row.status = "queued"
      BY <3>1 DEF NoRow
    <3> QED
      BY <1>0, <1>2, <3>1, <3>2, HandsOnStore DEF InsertRun
  <2> QED
    BY <1>1, <1>2, <2>1 DEF InsertRun, Abort
<1>3. CASE CancelCommit(p)
  <2>1. CASE Live(r)
    <3>1. PICK row : /\ row = [rows[r] EXCEPT !.status = "cancelled"]
                     /\ StoreAndAudit(p, r, row, "cancelled")
      BY <1>3, <2>1 DEF CancelCommit
    <3>2. row.status = "cancelled"
      BY <1>0, <1>3, <3>1 DEF TypeOK, Row, CancelCommit
    <3> QED
      BY <1>0, <1>3, <3>1, <3>2, HandsOnStore DEF CancelCommit
  <2> QED
    BY <1>1, <1>3, <2>1 DEF CancelCommit, Abort
<1>4. CASE ClarifyCommit(p)
  <2>1. CASE Live(r)
    <3>1. PICK row : /\ row = [rows[r] EXCEPT !.req = handler[p].req, !.status = "queued",
                                              !.result = None, !.cost = 0]
                     /\ StoreAndAudit(p, r, row, "clarified")
      BY <1>4, <2>1 DEF ClarifyCommit
    <3>2. row.status = "queued"
      BY <1>0, <1>4, <3>1 DEF TypeOK, Row, ClarifyCommit
    <3> QED
      BY <1>0, <1>4, <3>1, <3>2, HandsOnStore DEF ClarifyCommit
  <2> QED
    BY <1>1, <1>4, <2>1 DEF ClarifyCommit, Abort
<1>5. CASE DeleteCommit(p)
  <2>1. \A s \in Runs : rows'[s].status = rows[s].status \/ rows'[s].status = "deleted"
    BY <1>5 DEF DeleteCommit, DeletedRow, NoRow
  <2>2. \A q \in ApiProcs : handler[q].op = "audit" => handler'[q] = handler[q]
    BY <1>5 DEF DeleteCommit, TypeOK
  <2>3. UNCHANGED <<ex, inbox>>
    BY <1>5 DEF DeleteCommit
  <2> QED
    BY <2>1, <2>2, <2>3 DEF HandsOn, InAttempt, Scheduled
<1>6. CASE RecordAudit(p)
  <2>1. UNCHANGED <<rows, ex>>
    BY <1>6 DEF RecordAudit
  <2>2. \A q \in ApiProcs : q # p => handler'[q] = handler[q]
    BY <1>6 DEF RecordAudit, TypeOK
  <2>3. ASSUME AutoExecute, handler[p].event \in {"created", "clarified"}
        PROVE  r \in inbox'[p]
    <3>1. inbox' = [inbox EXCEPT ![p] = inbox[p] \cup {r}]
      BY <1>6, <2>3 DEF RecordAudit
    <3> QED
      BY <3>1 DEF TypeOK, Procs
  <2>4. \A q \in ApiProcs : inbox[q] \subseteq inbox'[q]
    BY <1>6 DEF RecordAudit, TypeOK, Procs
  <2>5. \A s \in Runs : AutoExecute /\ Scheduled(s) => Scheduled(s)'
    BY <2>1, <2>2, <2>3, <2>4 DEF Scheduled
  <2> QED
    BY <2>1, <2>5 DEF HandsOn, InAttempt
<1>7. CASE CancelSelect(p)
  BY <1>1, <1>7 DEF CancelSelect, Begin
<1> QED
  BY <1>2, <1>3, <1>4, <1>5, <1>6, <1>7 DEF Handle

\* A step of an executor that stores nothing, schedules nothing and keeps at its run.
LEMMA HandsOnMove ==
  ASSUME TypeOK, NEW e \in Executors, NEW x, ex' = [ex EXCEPT ![e] = x],
         \A p \in ApiProcs : inbox'[p] = inbox[p], UNCHANGED <<rows, handler>>,
         ex[e].pc \in {"budget", "call", "select", "write"} =>
            \/ x.run = ex[e].run /\ x.pc \in {"budget", "call", "select", "write"}
            \/ ~Live(ex[e].run),
         ex[e].pc = "claim" => ~Live(ex[e].run)
  PROVE  HandsOn
<1>1. ex'[e] = x /\ \A f \in Executors : f # e => ex'[f] = ex[f]
  BY DEF TypeOK
<1> SUFFICES ASSUME NEW r \in Runs
             PROVE  /\ InAttempt(r) => InAttempt(r)' \/ ~Live(r)
                    /\ Scheduled(r) => Scheduled(r)' \/ ~Live(r)
  BY DEF HandsOn, Live, Statuses
<1>2. InAttempt(r) => InAttempt(r)' \/ ~Live(r)
  BY <1>1 DEF InAttempt
<1>3. Scheduled(r) => Scheduled(r)' \/ ~Live(r)
  BY <1>1 DEF Scheduled
<1> QED
  BY <1>2, <1>3

LEMMA HandsOnExecute ==
  ASSUME TypeOK, NEW e \in Executors, Execute(e)
  PROVE  HandsOn
<1> DEFINE r == ex[e].run
<1>0. /\ ex[e] \in ExecutorState /\ UNCHANGED handler
      /\ inbox \in [Procs -> SUBSET Runs]
      /\ \A p \in ApiProcs : p \in Procs /\ p \notin Workers
  BY ExecuteTurn, ConstantsAssumption DEF TypeOK, Procs
<1>1. ASSUME Die(e), ~Live(r) PROVE HandsOn
  <2>1. \A p \in ApiProcs : inbox'[p] = inbox[p]
    BY <1>0, <1>1 DEF Die
  <2> QED
    BY <1>0, <1>1, <2>1, HandsOnMove DEF Die, Step
<1>2. CASE ClaimSelect(e)
  <2>0. PICK s \in Runs :
            /\ Step(e, IF rows[s].status = "queued"
                       THEN [IdleExecutor EXCEPT !.pc = "claim", !.run = s] ELSE IdleExecutor)
            /\ inbox' = [inbox EXCEPT ![Host[e]] = @ \ {s}]
            /\ UNCHANGED rows
    BY <1>2 DEF ClaimSelect
  <2>1. PICK x :
            /\ x = IF rows[s].status = "queued"
                   THEN [IdleExecutor EXCEPT !.pc = "claim", !.run = s] ELSE IdleExecutor
            /\ ex' = [ex EXCEPT ![e] = x]
            /\ inbox' = [inbox EXCEPT ![Host[e]] = @ \ {s}]
            /\ UNCHANGED rows
    BY <2>0 DEF Step
  <2>2. ex'[e] = x /\ \A f \in Executors : f # e => ex'[f] = ex[f]
    BY <2>1 DEF TypeOK
  <2>3. rows[s].status = "queued" => x.pc = "claim" /\ x.run = s
    BY <2>1 DEF IdleExecutor
  <2>4. \A p \in ApiProcs : inbox[p] \subseteq inbox'[p] \cup {s}
    BY <1>0, <2>1
  <2>5. ex[e].pc = "idle"
    BY <1>2 DEF ClaimSelect
  <2>6. ASSUME NEW t \in Runs PROVE InAttempt(t) => InAttempt(t)'
    BY <2>2, <2>5 DEF InAttempt
  <2>7. ASSUME NEW t \in Runs, rows[t].status = "queued" PROVE Scheduled(t) => Scheduled(t)'
    BY <1>0, <2>2, <2>3, <2>4, <2>5, <2>7 DEF Scheduled
  <2> QED
    BY <2>1, <2>6, <2>7 DEF HandsOn
<1>3. CASE ClaimCommit(e)
  <2>1. CASE Live(r)
    <3>0. PICK run : run = r
      OBVIOUS
    <3>1. PICK x : /\ x = [ex[e] EXCEPT !.pc = "budget", !.req = rows[run].req]
                   /\ ex' = [ex EXCEPT ![e] = x]
                   /\ rows' = [rows EXCEPT ![run].status = "running"]
                   /\ UNCHANGED inbox
      BY <1>3, <2>1, <3>0 DEF ClaimCommit, Step
    <3>2. x.pc = "budget" /\ x.run = run
      BY <1>0, <3>0, <3>1 DEF ExecutorState
    <3>3. ex'[e] = x /\ \A f \in Executors : f # e => ex'[f] = ex[f]
      BY <3>1 DEF TypeOK
    <3>4. ex[e].pc = "claim" /\ run \in Runs
      BY <1>3, <3>0 DEF ClaimCommit, TypeOK
    <3>5. InAttempt(run)'
      BY <3>2, <3>3 DEF InAttempt
    <3>6. \A t \in Runs : t # run => rows'[t] = rows[t]
      BY <3>1 DEF TypeOK
    <3>7. rows'[run].status = "running"
      BY <3>1, <3>4 DEF TypeOK, Row
    <3>8. ASSUME NEW t \in Runs, t # run
          PROVE  (InAttempt(t) => InAttempt(t)') /\ (Scheduled(t) => Scheduled(t)')
      BY <1>0, <3>0, <3>1, <3>3, <3>4, <3>8 DEF InAttempt, Scheduled
    <3>9. ASSUME NEW t \in Runs
          PROVE  /\ rows'[t].status = "running" =>
                        \/ rows[t].status = "running" /\ (InAttempt(t) => InAttempt(t)')
                        \/ InAttempt(t)'
                 /\ rows'[t].status = "queued" =>
                        rows[t].status = "queued" /\ (Scheduled(t) => Scheduled(t)')
      <4>1. CASE t = run
        BY <3>5, <3>7, <4>1
      <4>2. CASE t # run
        BY <3>6, <3>8, <4>2
      <4> QED
        BY <4>1, <4>2
    <3> QED
      BY <3>9 DEF HandsOn
  <2> QED
    BY <1>1, <1>3, <2>1 DEF ClaimCommit
<1>4. CASE UpdateCommit(e)
  <2>1. CASE Live(r)
    <3>0. PICK run : run = r
      OBVIOUS
    <3>1. PICK x, o : /\ x = [ex[e] EXCEPT !.pc = "audit"]
                      /\ ex' = [ex EXCEPT ![e] = x]
                      /\ o = Reported(rows[run], ex[e])
                      /\ rows' = [rows EXCEPT ![run] = o]
                      /\ UNCHANGED inbox
      BY <1>4, <2>1, <3>0 DEF UpdateCommit, Step
    <3>2. ex'[e] = x /\ \A f \in Executors : f # e => ex'[f] = ex[f]
      BY <3>1 DEF TypeOK
    <3>3. ex[e].pc = "write" /\ run \in Runs /\ rows[run] \in Row
      BY <1>4, <3>0 DEF UpdateCommit, TypeOK
    <3>4. o.status \in {"completed", "needs_clarification", "failed"}
      BY <3>1, <3>3 DEF Reported, Row
    <3>5. rows'[run] = o /\ \A t \in Runs : t # run => rows'[t] = rows[t]
      BY <3>1, <3>3 DEF TypeOK
    <3>6. ASSUME NEW t \in Runs, t # run
          PROVE  (InAttempt(t) => InAttempt(t)') /\ (Scheduled(t) => Scheduled(t)')
      BY <1>0, <3>0, <3>1, <3>2, <3>3, <3>6 DEF InAttempt, Scheduled
    <3> QED
      BY <3>4, <3>5, <3>6 DEF HandsOn
  <2>2. CASE ~Live(r) /\ ex[e].outcome # "failed"
    <3>1. PICK x : /\ x = [ex[e] EXCEPT !.pc = "select", !.outcome = "failed"]
                   /\ ex' = [ex EXCEPT ![e] = x] /\ UNCHANGED <<rows, inbox>>
      BY <1>4, <2>2 DEF UpdateCommit, Raise, Step
    <3>2. ex[e].pc = "write"
      BY <1>4 DEF UpdateCommit
    <3> QED
      BY <1>0, <2>2, <3>1, <3>2, HandsOnMove
  <2> QED
    BY <1>1, <1>4, <2>1, <2>2 DEF UpdateCommit, Raise
<1>5. ASSUME NEW x, Step(e, x), UNCHANGED <<rows, inbox>>, ex[e].pc \notin {"claim", "write"},
             x.run = r /\ x.pc \in {"call", "select", "write"}
      PROVE  HandsOn
  BY <1>0, <1>5, HandsOnMove DEF Step
<1>6. CASE CheckBudget(e)
  <2>1. PICK x : /\ Step(e, x) /\ ex[e].pc = "budget" /\ UNCHANGED <<rows, inbox>>
                 /\ \/ x = [ex[e] EXCEPT !.pc = "select", !.outcome = "budget_exhausted"]
                    \/ x = [ex[e] EXCEPT !.pc = "call"]
    BY <1>6 DEF CheckBudget
  <2>2. x.run = r /\ x.pc \in {"call", "select", "write"}
    BY <1>0, <2>1 DEF ExecutorState
  <2> QED
    BY <1>5, <2>1, <2>2
<1>7. CASE Answer(e)
  <2>1. PICK o, c : /\ \/ Step(e, [ex[e] EXCEPT !.pc = "select", !.outcome = o, !.cost = c])
                       \/ Step(e, [ex[e] EXCEPT !.pc = "select", !.outcome = o])
                    /\ ex[e].pc = "call" /\ UNCHANGED <<rows, inbox>>
    BY <1>7 DEF Answer
  <2>2. PICK x : /\ Step(e, x)
                 /\ \/ x = [ex[e] EXCEPT !.pc = "select", !.outcome = o, !.cost = c]
                    \/ x = [ex[e] EXCEPT !.pc = "select", !.outcome = o]
    BY <2>1
  <2>3. x.run = r /\ x.pc = "select"
    BY <1>0, <2>2 DEF ExecutorState
  <2> QED
    BY <1>5, <2>1, <2>2, <2>3
<1>8. CASE UpdateSelect(e)
  <2>1. PICK x : /\ x = [ex[e] EXCEPT !.pc = IF Live(r) THEN "write" ELSE "audit"]
                 /\ Step(e, x) /\ ex[e].pc = "select" /\ UNCHANGED <<rows, inbox>>
    BY <1>8 DEF UpdateSelect
  <2>2. x.run = r /\ (Live(r) => x.pc = "write")
    BY <1>0, <2>1 DEF ExecutorState
  <2>3. CASE Live(r)
    BY <1>5, <2>1, <2>2, <2>3
  <2>4. CASE ~Live(r)
    BY <1>0, <2>1, <2>4, HandsOnMove DEF Step
  <2> QED
    BY <2>3, <2>4
<1>9. CASE AuditOutcome(e) \/ DispatchDone(e)
  BY <1>0, <1>9, HandsOnMove DEF AuditOutcome, DispatchDone, Step
<1> QED
  BY <1>2, <1>3, <1>4, <1>6, <1>7, <1>8, <1>9 DEF Execute

\* Until a process dies or the database refuses something, somebody has every
\* queued and every running run in hand, in every deployment (create_research,
\* clarify_research, _execute): what QueuedServed and AttemptsEnd promise can
\* fail by waiting, never because a run has been lost.
THEOREM NoRunForgotten == Spec => []Attended
<1>1. Init => Attended
  BY DEF Init, Attended, NoRow
<1>2. TypeOK /\ Attended /\ [Next]_vars => Attended'
  <2> SUFFICES ASSUME TypeOK, Attended, [Next]_vars, Undisturbed'
               PROVE  Attended'
    BY DEF Attended
  <2>1. ASSUME Undisturbed, HandsOn PROVE Attended'
    BY <2>1 DEF Attended, HandsOn
  <2>2. /\ Undisturbed
        /\ ~\E e \in Executors : StoreError(e)
        /\ ~\E p \in ApiProcs : HandlerError(p)
        /\ ~\E p \in Procs : Crash(p)
    BY UndisturbedBefore
  <2>3. CASE UNCHANGED vars
    BY <2>1, <2>2, <2>3 DEF vars, HandsOn, InAttempt, Scheduled
  <2>4. CASE DayPasses \/ NewMonth
    BY <2>1, <2>2, <2>4 DEF DayPasses, NewMonth, HandsOn, InAttempt, Scheduled
  <2>5. ASSUME NEW w \in Workers, Poll(w) PROVE Attended'
    <3>1. \A p \in ApiProcs : inbox'[p] = inbox[p]
      BY <2>5, ConstantsAssumption DEF Poll, TypeOK, Procs
    <3> QED
      BY <2>1, <2>2, <2>5, <3>1 DEF Poll, HandsOn, InAttempt, Scheduled
  <2>6. ASSUME NEW p \in ApiProcs, Request(p) PROVE Attended'
    <3>1. handler[p].op = "none" /\ UNCHANGED inbox
      BY <2>6 DEF Request, ReplayResearch, CreateResearch, CancelGet, ClarifySelect,
                  PurgeSelect, PrivacySelect, Begin, Ready, Busy
    <3> QED
      BY <2>1, <2>2, <2>6, <3>1, RequestTurn, HandsOnHandler
  <2>7. ASSUME NEW p \in ApiProcs, Handle(p) PROVE Attended'
    BY <2>1, <2>2, <2>7, HandsOnHandle
  <2>8. ASSUME NEW e \in Executors, Execute(e) PROVE Attended'
    BY <2>1, <2>2, <2>8, HandsOnExecute
  <2>9. CASE Environment
    BY <2>2, <2>4, <2>9 DEF Environment
  <2> QED
    BY <2>3, <2>5, <2>6, <2>7, <2>8, <2>9 DEF Next
<1> QED
  BY <1>1, <1>2, TypeCorrect, PTL DEF Spec

-----------------------------------------------------------------------------
(* The budget.  Nothing is reserved when an attempt passes the check, but    *)
(* each executor passes it once per charge, so what counts is the bill with  *)
(* a full charge for every attempt that has passed (Committed).             *)

\* A dollar is one unit of the usage stored on a row; a finite set of them can be
\* counted without the order in which monthly_cost adds the rows up.
Dollars(S) == UNION {{r} \X (1..rows[r].cost) : r \in S}
Billed(ws) == InWorkspace(ws) \cap thisMonth

\* An attempt that has passed the budget check and whose usage is not stored yet.
Spending(e) ==
    \/ ex[e].pc = "call"
    \/ ex[e].pc \in {"select", "write"} /\ ex[e].outcome \in {"completed", "needs_clarification"}
SpendingIn(ws) == {e \in Executors : Spending(e) /\ rows[ex[e].run].ws = ws}

\* What an executor has in hand has been inserted, and is never inserted again.
Fresh ==
    /\ \A r \in Runs : r >= nextRun => rows[r].status = "absent"
    /\ \A p \in ApiProcs : handler[p].op = "create" =>
            handler[p].run < nextRun /\ rows[handler[p].run].status = "absent"
    /\ \A p, q \in ApiProcs :
            handler[p].op = "create" /\ handler[q].op = "create" /\ p # q =>
                handler[p].run # handler[q].run
InsertedOnce ==
    Fresh /\ \A e \in Executors : ex[e].pc # "idle" => rows[ex[e].run].status # "absent"

\* A month's bill with a full charge for each attempt under way.
Committed(ws) == Consumed(ws) + Cardinality(SpendingIn(ws)) * MaxCharge
CommitmentBounded ==
    Budget > 0 => \A ws \in Workspaces :
        Committed(ws) < Budget + Cardinality(Executors) * MaxCharge

ChargesKnown ==
    \A e \in Executors : Spending(e) /\ ex[e].pc # "call" => ex[e].cost \in Charges

BudgetInv ==
    /\ InsertedOnce
    /\ ChargesKnown
    /\ CommitmentBounded

LEMMA DollarsEmpty == IsFiniteSet(Dollars({})) /\ Cardinality(Dollars({})) = 0
  BY FS_EmptySet DEF Dollars

LEMMA RunsFinite == \A S \in SUBSET Runs : IsFiniteSet(S)
<1>1. IsFiniteSet(Runs)
  <2>1. MaxRuns \in Int
    BY ConstantsAssumption
  <2> QED
    BY <2>1, FS_Interval DEF Runs
<1> QED
  BY <1>1, FS_Subset

\* The dollars of one row are as many as its cost.
LEMMA DollarsOfOne ==
  ASSUME NEW r, NEW n \in Nat
  PROVE  IsFiniteSet({r} \X (1..n)) /\ Cardinality({r} \X (1..n)) = n
<1> DEFINE I == 1..n
<1>1. IsFiniteSet({r}) /\ Cardinality({r}) = 1
  BY FS_Singleton
<1>2. IsFiniteSet(I) /\ Cardinality(I) = n
  <2>1. n \in Int
    OBVIOUS
  <2> QED
    BY <2>1, FS_Interval
<1> HIDE DEF I
<1>3. IsFiniteSet({r} \X I) /\ Cardinality({r} \X I) = Cardinality({r}) * Cardinality(I)
  BY <1>1, <1>2, FS_Product
<1> QED
  BY <1>1, <1>2, <1>3 DEF I

LEMMA DollarsFinite ==
  ASSUME TypeOK, NEW S \in SUBSET Runs
  PROVE  IsFiniteSet(Dollars(S)) /\ Cardinality(Dollars(S)) \in Nat
<1> DEFINE D(r) == {r} \X (1..rows[r].cost)
           Ds == {D(r) : r \in S}
<1>1. IsFiniteSet(Ds)
  <2>1. [r \in S |-> D(r)] \in Surjection(S, Ds)
    BY Zenon DEF Surjection
  <2> QED
    BY <2>1, RunsFinite, FS_Surjection
<1>2. \A x \in Ds : IsFiniteSet(x)
  <2>1. ASSUME NEW r \in S PROVE IsFiniteSet(D(r))
    <3>1. rows[r].cost \in Nat
      BY DEF TypeOK, Row
    <3> QED
      BY <3>1, DollarsOfOne
  <2> QED
    BY <2>1
<1>3. Dollars(S) = UNION Ds
  BY DEF Dollars
<1> HIDE DEF Ds
<1> QED
  BY <1>1, <1>2, <1>3, FS_UNION, FS_CardinalityType

LEMMA DollarsTakeOne ==
  ASSUME TypeOK, NEW S \in SUBSET Runs, NEW r \in S
  PROVE  Cardinality(Dollars(S)) = rows[r].cost + Cardinality(Dollars(S \ {r}))
<1> DEFINE A == {r} \X (1..rows[r].cost)
           B == Dollars(S \ {r})
<1>1. Dollars(S) = A \cup B /\ A \cap B = {}
  BY DEF Dollars
<1>2. IsFiniteSet(A) /\ Cardinality(A) = rows[r].cost /\ rows[r].cost \in Nat
  <2>1. rows[r].cost \in Nat
    BY DEF TypeOK, Row
  <2> QED
    BY <2>1, DollarsOfOne
<1>3. IsFiniteSet(B) /\ Cardinality(B) \in Nat
  BY DollarsFinite
<1> HIDE DEF A, B
<1>4. Cardinality(A \cup B) = Cardinality(A) + Cardinality(B) - Cardinality(A \cap B)
  BY <1>2, <1>3, FS_Union
<1>5. Cardinality(A \cap B) = 0
  BY <1>1, FS_EmptySet
<1> QED
  BY <1>1, <1>2, <1>3, <1>4, <1>5 DEF B

\* monthly_cost counts dollars: the recursive definition of the sum has a solution
\* (the cardinality), so what CHOOSE picks solves it too, and a smallest set on
\* which the two differ cannot exist.
LEMMA ConsumedIsDollars ==
  ASSUME TypeOK, NEW ws
  PROVE  Consumed(ws) = Cardinality(Dollars(Billed(ws)))
<1> DEFINE S == Billed(ws)
           pick(s) == CHOOSE x \in s : TRUE
           Sums(f) == f = [s \in SUBSET S |->
                IF s = {} THEN 0 ELSE rows[pick(s)].cost + f[s \ {pick(s)}]]
           dollars == [s \in SUBSET S |-> Cardinality(Dollars(s))]
           sum == CHOOSE f : Sums(f)
           Wrong == {s \in SUBSET S : sum[s] # dollars[s]}
<1>1. S \in SUBSET Runs
  BY DEF Billed, InWorkspace
<1>2. Consumed(ws) = sum[S]
  BY DEF Consumed, Billed, MapThenSumSet, MapThenFoldSet
<1>3. \A s \in SUBSET S : s # {} => pick(s) \in s
  OBVIOUS
<1> HIDE DEF S, pick
<1>4. Sums(dollars)
  <2>1. \A s \in SUBSET S :
            dollars[s] = IF s = {} THEN 0 ELSE rows[pick(s)].cost + dollars[s \ {pick(s)}]
    <3> SUFFICES ASSUME NEW s \in SUBSET S
                 PROVE  dollars[s] = IF s = {} THEN 0
                                     ELSE rows[pick(s)].cost + dollars[s \ {pick(s)}]
      OBVIOUS
    <3>1. CASE s = {}
      BY <3>1, DollarsEmpty
    <3>2. CASE s # {}
      BY <1>1, <1>3, <3>2, DollarsTakeOne
    <3> QED
      BY <3>1, <3>2
  <2>2. dollars = [s \in SUBSET S |-> dollars[s]]
    OBVIOUS
  <2> HIDE DEF dollars
  <2> QED
    BY <2>1, <2>2
<1>5. Sums(sum)
  <2> HIDE DEF dollars
  <2> QED
    BY <1>4
<1> HIDE DEF dollars, sum
<1>6. Wrong = {}
  <2> SUFFICES ASSUME Wrong # {} PROVE FALSE
    OBVIOUS
  <2>1. PICK s \in Wrong : \A t \in Wrong : <<t, s>> \notin StrictSubsetOrdering(S)
    <3>1. IsFiniteSet(S)
      BY <1>1, RunsFinite
    <3>2. IsWellFoundedOn(StrictSubsetOrdering(S), SUBSET S)
      BY <3>1, FS_StrictSubsetOrderingWellFounded, FS_FiniteSubsetsOfFinite
    <3>3. Wrong \subseteq SUBSET S
      OBVIOUS
    <3> HIDE DEF Wrong
    <3> QED
      BY <3>2, <3>3, WFMin
  <2>2. CASE s = {}
    BY <1>4, <1>5, <2>2
  <2>3. CASE s # {}
    <3> DEFINE t == s \ {pick(s)}
    <3>1. t \in SUBSET S /\ <<t, s>> \in StrictSubsetOrdering(S)
      BY <1>3, <2>3 DEF StrictSubsetOrdering
    <3>2. sum[t] = dollars[t]
      BY <2>1, <3>1
    <3>3. sum[s] = rows[pick(s)].cost + sum[t]
      BY <1>5, <2>3
    <3>4. dollars[s] = rows[pick(s)].cost + dollars[t]
      BY <1>4, <2>3
    <3> QED
      BY <3>2, <3>3, <3>4
  <2> QED
    BY <2>2, <2>3
<1>7. sum[S] = dollars[S]
  BY <1>6
<1> QED
  BY <1>2, <1>7 DEF dollars, S

LEMMA FiniteSetHasMaximum ==
  ASSUME NEW S \in SUBSET Nat, IsFiniteSet(S), S # {}
  PROVE  \E m \in S : \A n \in S : n <= m
<1> DEFINE HasMax(T) == \E m \in T : \A n \in T : n <= m
           Wrong == {T \in SUBSET S : T # {} /\ ~ HasMax(T)}
<1>1. Wrong = {}
  <2> SUFFICES ASSUME Wrong # {} PROVE FALSE
    OBVIOUS
  <2>1. PICK T \in Wrong : \A U \in Wrong : <<U, T>> \notin StrictSubsetOrdering(S)
    <3>1. IsWellFoundedOn(StrictSubsetOrdering(S), SUBSET S)
      BY FS_StrictSubsetOrderingWellFounded, FS_FiniteSubsetsOfFinite
    <3>2. Wrong \subseteq SUBSET S
      OBVIOUS
    <3> HIDE DEF Wrong
    <3> QED
      BY <3>1, <3>2, WFMin
  <2>2. PICK x \in T : TRUE
    OBVIOUS
  <2>3. <<T \ {x}, T>> \in StrictSubsetOrdering(S)
    BY DEF StrictSubsetOrdering
  <2>4. CASE T \ {x} = {}
    BY <2>4
  <2>5. CASE T \ {x} # {}
    <3>1. PICK m \in T \ {x} : \A n \in T \ {x} : n <= m
      BY <2>1, <2>3, <2>5
    <3>2. x \in Nat /\ m \in Nat /\ T \subseteq Nat
      OBVIOUS
    <3>3. CASE x <= m
      BY <3>1, <3>2, <3>3
    <3>4. CASE m <= x
      BY <3>1, <3>2, <3>4
    <3> QED
      BY <3>2, <3>3, <3>4
  <2> QED
    BY <2>4, <2>5
<1> QED
  BY <1>1

LEMMA ChargesBounded == MaxCharge \in Nat /\ \A c \in Charges : c <= MaxCharge
<1> DEFINE S == Charges \cup {0}
<1>1. S \in SUBSET Nat /\ S # {}
  BY ConstantsAssumption
<1>2. IsFiniteSet(S)
  BY FinitenessAssumption, FS_AddElement
<1>3. PICK m \in S : \A n \in S : n <= m
  BY <1>1, <1>2, FiniteSetHasMaximum
<1>4. \E x \in S : \A y \in S : x >= y
  BY <1>1, <1>3
<1>5. MaxCharge \in S /\ \A y \in S : MaxCharge >= y
  BY <1>4 DEF MaxCharge, Max
<1> QED
  BY <1>1, <1>5

LEMMA ProductMonotonic ==
  \A k, n, m \in Nat : k <= n => k * m <= n * m /\ (k + 1) * m = k * m + m /\ k * m \in Nat /\ n * m \in Nat
  OBVIOUS

-----------------------------------------------------------------------------
\* A step that stores no charge and passes no budget check.
NothingSpent ==
    /\ \A r \in Runs : Live(r)' /\ r \in thisMonth' =>
        \/ rows'[r].cost = 0
        \/ /\ Live(r) /\ r \in thisMonth
           /\ rows'[r].ws = rows[r].ws /\ rows'[r].cost <= rows[r].cost
    /\ \A e \in Executors : Spending(e)' => Spending(e) /\ ex'[e].run = ex[e].run
    /\ \A r \in Runs : rows[r].status # "absent" => rows'[r].ws = rows[r].ws

LEMMA Counts == TypeOK =>
  \A ws :
    /\ IsFiniteSet(SpendingIn(ws)) /\ Cardinality(SpendingIn(ws)) \in Nat
    /\ Cardinality(SpendingIn(ws)) <= Cardinality(Executors) /\ Cardinality(Executors) \in Nat
    /\ IsFiniteSet(Dollars(Billed(ws))) /\ Cardinality(Dollars(Billed(ws))) \in Nat
    /\ Consumed(ws) = Cardinality(Dollars(Billed(ws)))
<1> SUFFICES ASSUME TypeOK, NEW ws
             PROVE  /\ IsFiniteSet(SpendingIn(ws)) /\ Cardinality(SpendingIn(ws)) \in Nat
                    /\ Cardinality(SpendingIn(ws)) <= Cardinality(Executors)
                    /\ Cardinality(Executors) \in Nat
                    /\ IsFiniteSet(Dollars(Billed(ws)))
                    /\ Cardinality(Dollars(Billed(ws))) \in Nat
                    /\ Consumed(ws) = Cardinality(Dollars(Billed(ws)))
  OBVIOUS
<1>1. SpendingIn(ws) \in SUBSET Executors
  BY DEF SpendingIn
<1>2. Billed(ws) \in SUBSET Runs
  BY DEF Billed, InWorkspace
<1> QED
  BY <1>1, <1>2, FinitenessAssumption, FS_Subset, FS_CardinalityType, DollarsFinite, ConsumedIsDollars

LEMMA CountsNext == TypeOK' =>
  \A ws :
    /\ IsFiniteSet(SpendingIn(ws)') /\ Cardinality(SpendingIn(ws)') \in Nat
    /\ IsFiniteSet(Dollars(Billed(ws))') /\ Cardinality(Dollars(Billed(ws))') \in Nat
    /\ Consumed(ws)' = Cardinality(Dollars(Billed(ws))')
<1>1. TypeOK' => (\A ws :
    /\ IsFiniteSet(SpendingIn(ws)) /\ Cardinality(SpendingIn(ws)) \in Nat
    /\ Cardinality(SpendingIn(ws)) <= Cardinality(Executors) /\ Cardinality(Executors) \in Nat
    /\ IsFiniteSet(Dollars(Billed(ws))) /\ Cardinality(Dollars(Billed(ws))) \in Nat
    /\ Consumed(ws) = Cardinality(Dollars(Billed(ws))))'
  BY Counts, PTL
<1> QED
  BY <1>1

LEMMA NothingSpentKeeps ==
  ASSUME TypeOK, TypeOK', NothingSpent, CommitmentBounded, InsertedOnce
  PROVE  CommitmentBounded'
<1> SUFFICES ASSUME Budget > 0, NEW ws \in Workspaces
             PROVE  Committed(ws)' < Budget + Cardinality(Executors) * MaxCharge
  BY DEF CommitmentBounded
<1>1. Dollars(Billed(ws))' \subseteq Dollars(Billed(ws))
  <2> SUFFICES ASSUME NEW r \in Runs, rows'[r].status \in Statuses, rows'[r].ws = ws, r \in thisMonth'
               PROVE  {r} \X (1..rows'[r].cost) \subseteq Dollars(Billed(ws))
    BY DEF Dollars, Billed, InWorkspace, Live
  <2>0. rows'[r].cost \in Nat
    BY DEF TypeOK, Row
  <2>1. CASE rows'[r].cost = 0
    BY <2>1
  <2>2. CASE /\ Live(r) /\ r \in thisMonth
             /\ rows'[r].ws = rows[r].ws /\ rows'[r].cost <= rows[r].cost
    <3>1. rows[r].cost \in Nat
      BY DEF TypeOK, Row
    <3>2. 1..rows'[r].cost \subseteq 1..rows[r].cost
      BY <2>0, <2>2, <3>1
    <3>3. r \in Billed(ws)
      BY <2>2 DEF Billed, InWorkspace
    <3> QED
      BY <3>2, <3>3 DEF Dollars
  <2> QED
    BY <2>1, <2>2 DEF NothingSpent, Live
<1>2. SpendingIn(ws)' \subseteq SpendingIn(ws)
  <2> SUFFICES ASSUME NEW e \in Executors, Spending(e)', rows'[ex'[e].run].ws = ws
               PROVE  Spending(e) /\ rows[ex[e].run].ws = ws
    BY DEF SpendingIn
  <2>1. Spending(e) /\ ex'[e].run = ex[e].run
    BY DEF NothingSpent
  <2>2. ex[e].pc # "idle"
    BY <2>1 DEF Spending
  <2>3. ex[e].run \in Runs /\ rows[ex[e].run].status # "absent"
    BY <2>2 DEF TypeOK, InsertedOnce
  <2> QED
    BY <2>1, <2>3, ConstantsAssumption DEF NothingSpent
<1> DEFINE d == Cardinality(Dollars(Billed(ws)))
           dd == Cardinality(Dollars(Billed(ws))')
           n == Cardinality(SpendingIn(ws))
           nn == Cardinality(SpendingIn(ws)')
<1>3. dd <= d /\ nn <= n
  BY <1>1, <1>2, Counts, FS_Subset
<1>4. d \in Nat /\ dd \in Nat /\ n \in Nat /\ nn \in Nat /\ MaxCharge \in Nat /\ Budget \in Nat
      /\ Cardinality(Executors) \in Nat
  BY Counts, CountsNext, ChargesBounded, ConstantsAssumption
<1>5. d + n * MaxCharge < Budget + Cardinality(Executors) * MaxCharge
  BY Counts DEF CommitmentBounded, Committed
<1>6. Committed(ws)' = dd + nn * MaxCharge
  <2>1. MaxCharge' = MaxCharge
    BY DEF MaxCharge, Max
  <2> QED
    BY <2>1, CountsNext DEF Committed
<1> HIDE DEF d, dd, n, nn
<1>7. nn * MaxCharge <= n * MaxCharge /\ nn * MaxCharge \in Nat /\ n * MaxCharge \in Nat
      /\ Cardinality(Executors) * MaxCharge \in Nat
  BY <1>3, <1>4, ProductMonotonic
<1> QED
  BY <1>3, <1>4, <1>5, <1>6, <1>7

LEMMA CheckBudgetKeeps ==
  ASSUME TypeOK, TypeOK', NEW e \in Executors, CheckBudget(e), InsertedOnce, CommitmentBounded
  PROVE  CommitmentBounded'
<1>1. rows' = rows /\ thisMonth' = thisMonth /\ ex[e].pc = "budget"
  BY DEF CheckBudget, Step
<1>2. CASE Consumed(rows[ex[e].run].ws) >= Budget
  <2>1. ex' = [ex EXCEPT ![e] = [ex[e] EXCEPT !.pc = "select", !.outcome = "budget_exhausted"]]
    BY <1>2 DEF CheckBudget, Step
  <2>2. \A f \in Executors : Spending(f)' => Spending(f) /\ ex'[f].run = ex[f].run
    BY <2>1 DEF Spending, TypeOK
  <2>3. NothingSpent
    BY <1>1, <2>2 DEF NothingSpent, Live, TypeOK, Row
  <2> QED
    BY <2>3, NothingSpentKeeps
<1>3. CASE ~ (Consumed(rows[ex[e].run].ws) >= Budget)
  <2> DEFINE home == rows[ex[e].run].ws
  <2>1. ex' = [ex EXCEPT ![e] = [ex[e] EXCEPT !.pc = "call"]]
    BY <1>3 DEF CheckBudget, Step
  <2>2. \A f \in Executors : ex'[f].run = ex[f].run /\ (Spending(f)' <=> Spending(f) \/ f = e) /\ ~ Spending(e)
    BY <1>1, <2>1 DEF Spending, TypeOK, ExecutorState
  <2> SUFFICES ASSUME Budget > 0, NEW ws \in Workspaces
               PROVE  Committed(ws)' < Budget + Cardinality(Executors) * MaxCharge
    BY DEF CommitmentBounded
  <2>3. SpendingIn(ws)' = IF ws = home THEN SpendingIn(ws) \cup {e} ELSE SpendingIn(ws)
    BY <1>1, <2>2 DEF SpendingIn
  <2>4. e \notin SpendingIn(ws)
    BY <2>2 DEF SpendingIn
  <2>5. Consumed(ws)' = Consumed(ws)
    <3>1. Dollars(Billed(ws))' = Dollars(Billed(ws))
      BY <1>1 DEF Dollars, Billed, InWorkspace, Live
    <3> QED
      BY <3>1, Counts, CountsNext
  <2>6. MaxCharge' = MaxCharge
    BY DEF MaxCharge, Max
  <2>7. CASE ws # home
    BY <2>3, <2>5, <2>6, <2>7 DEF Committed, CommitmentBounded
  <2>8. CASE ws = home
    <3> DEFINE c == Consumed(ws)
               n == Cardinality(SpendingIn(ws))
               all == Cardinality(Executors)
    <3>1. c \in Nat /\ n \in Nat /\ all \in Nat /\ Budget \in Nat /\ MaxCharge \in Nat
      BY Counts, ChargesBounded, ConstantsAssumption
    <3>2. c < Budget
      BY <1>3, <2>8, <3>1
    <3>3. Cardinality(SpendingIn(ws)') = n + 1 /\ n + 1 <= all
      <4>1. SpendingIn(ws) \cup {e} \in SUBSET Executors
        BY DEF SpendingIn
      <4>2. Cardinality(SpendingIn(ws) \cup {e}) = n + 1
        BY <2>4, Counts, FS_AddElement
      <4>3. Cardinality(SpendingIn(ws) \cup {e}) <= all
        BY <4>1, FinitenessAssumption, FS_Subset
      <4> QED
        BY <2>3, <2>8, <4>2, <4>3
    <3>4. Committed(ws)' = c + (n + 1) * MaxCharge
      BY <2>5, <2>6, <3>3 DEF Committed
    <3> HIDE DEF c, n, all
    <3>5. (n + 1) * MaxCharge <= all * MaxCharge /\ (n + 1) * MaxCharge \in Nat /\ all * MaxCharge \in Nat
      BY <3>1, <3>3, ProductMonotonic
    <3> QED
      BY <3>1, <3>2, <3>4, <3>5 DEF all
  <2> QED
    BY <2>7, <2>8
<1> QED
  BY <1>2, <1>3

\* A report stores one charge at most, and its attempt is over.
LEMMA ReportKeeps ==
  ASSUME TypeOK, TypeOK', InsertedOnce, ChargesKnown, CommitmentBounded,
         NEW e \in Executors, UpdateCommit(e), Live(ex[e].run),
         ex[e].outcome \in {"completed", "needs_clarification"}
  PROVE  CommitmentBounded'
<1>1. PICK r, home, cost :
        /\ r \in Runs /\ home \in Workspaces /\ cost \in Charges
        /\ r = ex[e].run /\ home = rows[r].ws /\ cost = ex[e].cost
        /\ ex[e].pc = "write" /\ Live(r) /\ rows[r] \in Row
        /\ rows' = [rows EXCEPT ![r] = [rows[r] EXCEPT
                !.status = ex[e].outcome, !.result = ex[e].req, !.cost = cost]]
        /\ ex' = [ex EXCEPT ![e] = [ex[e] EXCEPT !.pc = "audit"]]
        /\ thisMonth' = thisMonth
  BY DEF UpdateCommit, Step, Reported, TypeOK, ChargesKnown, Spending
<1>2. /\ \A s \in Runs : s # r => rows'[s] = rows[s]
      /\ rows'[r].ws = home /\ rows'[r].cost = cost
      /\ \A s \in Runs : rows'[s].ws = rows[s].ws
  <2>1. PICK row : /\ row = [rows[r] EXCEPT !.status = ex[e].outcome,
                                            !.result = ex[e].req, !.cost = cost]
                   /\ rows' = [rows EXCEPT ![r] = row]
    BY <1>1
  <2>2. row.ws = home /\ row.cost = cost
    BY <1>1, <2>1 DEF Row
  <2>3. rows'[r] = row /\ \A s \in Runs : s # r => rows'[s] = rows[s]
    BY <1>1, <2>1 DEF TypeOK
  <2> QED
    BY <1>1, <2>2, <2>3
<1>3. /\ \A f \in Executors : f # e => ex'[f] = ex[f]
      /\ ex'[e].pc = "audit" /\ Spending(e) /\ ~ Spending(e)'
  BY <1>1 DEF TypeOK, ExecutorState, Spending
<1>4. \A f \in Executors \ {e} : Spending(f)' = Spending(f) /\ ex'[f].run = ex[f].run
  BY <1>3 DEF Spending
<1>5. MaxCharge' = MaxCharge
  BY DEF MaxCharge, Max
<1> SUFFICES ASSUME Budget > 0, NEW ws \in Workspaces
             PROVE  Committed(ws)' < Budget + Cardinality(Executors) * MaxCharge
  BY DEF CommitmentBounded
<1>6. CASE ws # home
  <2>1. Billed(ws)' \subseteq Billed(ws) /\ r \notin Billed(ws)'
    BY <1>1, <1>2, <1>6 DEF Billed, InWorkspace, Live
  <2>2. Dollars(Billed(ws))' \subseteq Dollars(Billed(ws))
    BY <1>2, <2>1 DEF Dollars, Billed, InWorkspace
  <2>3. SpendingIn(ws)' \subseteq SpendingIn(ws)
    <3> SUFFICES ASSUME NEW f \in Executors, Spending(f)', rows'[ex'[f].run].ws = ws
                 PROVE  Spending(f) /\ rows[ex[f].run].ws = ws
      BY DEF SpendingIn
    <3>1. f # e /\ Spending(f) /\ ex'[f].run = ex[f].run
      BY <1>3, <1>4
    <3>2. ex[f].run \in Runs
      BY <3>1 DEF Spending, TypeOK
    <3> QED
      BY <1>2, <3>1, <3>2
  <2> DEFINE d == Cardinality(Dollars(Billed(ws)))
             dd == Cardinality(Dollars(Billed(ws))')
             n == Cardinality(SpendingIn(ws))
             nn == Cardinality(SpendingIn(ws)')
  <2>4. dd <= d /\ nn <= n /\ Committed(ws)' = dd + nn * MaxCharge
        /\ d + n * MaxCharge < Budget + Cardinality(Executors) * MaxCharge
    BY <1>5, <2>2, <2>3, Counts, CountsNext, FS_Subset DEF CommitmentBounded, Committed
  <2>5. d \in Nat /\ dd \in Nat /\ n \in Nat /\ nn \in Nat /\ MaxCharge \in Nat /\ Budget \in Nat
        /\ Cardinality(Executors) \in Nat
    BY Counts, CountsNext, ChargesBounded, ConstantsAssumption
  <2> HIDE DEF d, dd, n, nn
  <2>6. nn * MaxCharge <= n * MaxCharge /\ nn * MaxCharge \in Nat /\ n * MaxCharge \in Nat
        /\ Cardinality(Executors) * MaxCharge \in Nat
    BY <2>4, <2>5, ProductMonotonic
  <2> QED
    BY <2>4, <2>5, <2>6
<1>7. CASE ws = home
  <2> DEFINE new == {r} \X (1..cost)
             old == Dollars(Billed(ws))
  <2>1. Dollars(Billed(ws))' \subseteq old \cup new
    <3> SUFFICES ASSUME NEW s \in Runs, s \in Billed(ws)'
                 PROVE  {s} \X (1..rows'[s].cost) \subseteq old \cup new
      BY DEF Dollars, Billed, InWorkspace
    <3>1. CASE s = r
      BY <1>2, <3>1
    <3>2. CASE s # r
      <4>1. s \in Billed(ws) /\ rows'[s].cost = rows[s].cost
        BY <1>1, <1>2, <3>2 DEF Billed, InWorkspace, Live
      <4> QED
        BY <4>1 DEF Dollars
    <3> QED
      BY <3>1, <3>2
  <2>2. SpendingIn(ws)' \subseteq SpendingIn(ws) \ {e} /\ e \in SpendingIn(ws)
    <3>1. e \in SpendingIn(ws)
      BY <1>1, <1>3, <1>7 DEF SpendingIn
    <3> SUFFICES ASSUME NEW f \in Executors, Spending(f)', rows'[ex'[f].run].ws = ws
                 PROVE  f # e /\ Spending(f) /\ rows[ex[f].run].ws = ws
      BY <3>1 DEF SpendingIn
    <3>2. f # e /\ Spending(f) /\ ex'[f].run = ex[f].run
      BY <1>3, <1>4
    <3>3. ex[f].run \in Runs
      BY <3>2 DEF Spending, TypeOK
    <3> QED
      BY <1>2, <3>2, <3>3
  <2> DEFINE d == Cardinality(old)
             dd == Cardinality(Dollars(Billed(ws))')
             n == Cardinality(SpendingIn(ws))
             nn == Cardinality(SpendingIn(ws)')
  <2>3. d \in Nat /\ dd \in Nat /\ n \in Nat /\ nn \in Nat /\ MaxCharge \in Nat /\ Budget \in Nat
        /\ Cardinality(Executors) \in Nat /\ cost \in Nat /\ cost <= MaxCharge
    BY <1>1, Counts, CountsNext, ChargesBounded, ConstantsAssumption
  <2>4. IsFiniteSet(new) /\ Cardinality(new) = cost
    BY <2>3, DollarsOfOne
  <2>5. dd <= d + cost
    <3>1. IsFiniteSet(old) /\ IsFiniteSet(old \cup new)
          /\ Cardinality(old \cup new) = d + cost - Cardinality(old \cap new)
      BY <2>4, Counts, FS_Union
    <3>2. Cardinality(old \cap new) \in Nat
      BY <3>1, FS_Intersection, FS_CardinalityType
    <3>3. dd <= Cardinality(old \cup new)
      BY <2>1, <3>1, FS_Subset
    <3> HIDE DEF d, dd, old, new
    <3> QED
      BY <2>3, <3>1, <3>2, <3>3
  <2>6. nn + 1 <= n
    <3>1. Cardinality(SpendingIn(ws) \ {e}) = n - 1
      BY <2>2, Counts, FS_RemoveElement
    <3>2. nn <= Cardinality(SpendingIn(ws) \ {e})
      <4>1. IsFiniteSet(SpendingIn(ws) \ {e})
        BY Counts, FS_RemoveElement
      <4> QED
        BY <2>2, <4>1, FS_Subset
    <3> HIDE DEF n, nn
    <3> QED
      BY <2>3, <3>1, <3>2
  <2>7. Committed(ws)' = dd + nn * MaxCharge
        /\ d + n * MaxCharge < Budget + Cardinality(Executors) * MaxCharge
    BY <1>5, Counts, CountsNext DEF CommitmentBounded, Committed
  <2> HIDE DEF d, dd, n, nn
  <2>8. (nn + 1) * MaxCharge <= n * MaxCharge /\ n * MaxCharge \in Nat
        /\ (nn + 1) * MaxCharge = nn * MaxCharge + MaxCharge /\ nn * MaxCharge \in Nat
        /\ Cardinality(Executors) * MaxCharge \in Nat
    <3>1. nn + 1 \in Nat /\ nn <= nn + 1
      BY <2>3
    <3> QED
      BY <2>3, <2>6, <3>1, ProductMonotonic
  <2> QED
    BY <2>3, <2>5, <2>7, <2>8
<1> QED
  BY <1>6, <1>7

\* What a handler does is free of charge, and it inserts each run once.
LEMMA HandleIsFree ==
  ASSUME TypeOK, InsertedOnce, NEW p \in ApiProcs, Handle(p)
  PROVE  NothingSpent /\ \A r \in Runs : rows[r].status # "absent" => rows'[r].status # "absent"
<1>1. ex' = ex /\ thisMonth' = thisMonth
  BY DEF Handle, InsertRun, RecordAudit, CancelSelect, CancelCommit, ClarifyCommit, DeleteCommit,
         Begin, Abort, StoreAndAudit
<1>2. \A e \in Executors : Spending(e)' => Spending(e) /\ ex'[e].run = ex[e].run
  BY <1>1 DEF Spending
<1>3. \A r \in Runs : rows[r].cost \in Nat
  BY DEF TypeOK, Row
<1>4. CASE UNCHANGED rows
  BY <1>1, <1>2, <1>3, <1>4 DEF NothingSpent, Live
<1>5. ASSUME NEW r \in Runs, NEW row, rows' = [rows EXCEPT ![r] = row], row.status # "absent",
             \/ row.cost = 0
             \/ Live(r) /\ row.cost = rows[r].cost,
             rows[r].status # "absent" => row.ws = rows[r].ws
      PROVE  NothingSpent /\ \A s \in Runs : rows[s].status # "absent" => rows'[s].status # "absent"
  <2>1. rows'[r] = row /\ \A s \in Runs : s # r => rows'[s] = rows[s]
    BY <1>5 DEF TypeOK
  <2>2. Live(r) => rows[r].status # "absent"
    BY DEF Live, Statuses
  <2> QED
    BY <1>1, <1>2, <1>3, <1>5, <2>1, <2>2 DEF NothingSpent, Live
<1>6. CASE InsertRun(p)
  <2>1. CASE WithKey(handler[p].ws, handler[p].key) = {}
    <3>1. PICK r, row :
            /\ r \in Runs /\ rows[r].status = "absent"
            /\ row = [NoRow EXCEPT !.ws = handler[p].ws, !.key = handler[p].key,
                                   !.req = handler[p].req, !.status = "queued"]
            /\ rows' = [rows EXCEPT ![r] = row]
      BY <1>6, <2>1 DEF InsertRun, StoreAndAudit, TypeOK, InsertedOnce, Fresh
    <3>2. row.status # "absent" /\ row.cost = 0
      BY <3>1 DEF NoRow
    <3> QED
      BY <1>5, <3>1, <3>2
  <2> QED
    BY <1>4, <1>6, <2>1 DEF InsertRun, Abort
<1>7. CASE CancelCommit(p)
  <2>1. CASE Live(handler[p].run)
    <3>1. PICK r, row :
            /\ r \in Runs /\ Live(r)
            /\ row = [rows[r] EXCEPT !.status = "cancelled"]
            /\ rows' = [rows EXCEPT ![r] = row]
      BY <1>7, <2>1 DEF CancelCommit, StoreAndAudit, TypeOK
    <3>2. row.status # "absent" /\ row.cost = rows[r].cost /\ row.ws = rows[r].ws
      BY <3>1 DEF TypeOK, Row
    <3> QED
      BY <1>5, <3>1, <3>2
  <2> QED
    BY <1>4, <1>7, <2>1 DEF CancelCommit, Abort
<1>8. CASE ClarifyCommit(p)
  <2>1. CASE Live(handler[p].run)
    <3>1. PICK r, row :
            /\ r \in Runs /\ Live(r)
            /\ row = [rows[r] EXCEPT !.req = handler[p].req, !.status = "queued",
                                     !.result = None, !.cost = 0]
            /\ rows' = [rows EXCEPT ![r] = row]
      BY <1>8, <2>1 DEF ClarifyCommit, StoreAndAudit, TypeOK
    <3>2. row.status # "absent" /\ row.cost = 0 /\ row.ws = rows[r].ws
      BY <3>1 DEF TypeOK, Row
    <3> QED
      BY <1>5, <3>1, <3>2
  <2> QED
    BY <1>4, <1>8, <2>1 DEF ClarifyCommit, Abort
<1>9. CASE DeleteCommit(p)
  <2>1. \A r \in Runs : rows'[r] = rows[r] \/ rows'[r] = DeletedRow(rows[r])
    BY <1>9 DEF DeleteCommit
  <2>2. \A row : /\ DeletedRow(row).cost = 0 /\ DeletedRow(row).ws = row.ws
                 /\ DeletedRow(row).status = "deleted"
    BY DEF DeletedRow, NoRow
  <2> QED
    BY <1>1, <1>2, <1>3, <2>1, <2>2 DEF NothingSpent, Live
<1> QED
  BY <1>4, <1>6, <1>7, <1>8, <1>9 DEF Handle, RecordAudit, CancelSelect, Begin

LEMMA RequestIsFree ==
  ASSUME TypeOK, InsertedOnce, NEW p \in ApiProcs, Request(p)
  PROVE  NothingSpent /\ rows' = rows /\ ex' = ex
<1>1. rows' = rows /\ ex' = ex
  BY RequestTurn
<1>2. \A e \in Executors : Spending(e)' => Spending(e) /\ ex'[e].run = ex[e].run
  BY <1>1 DEF Spending
<1>3. \A r \in Runs : rows[r].cost \in Nat
  BY DEF TypeOK, Row
<1>4. thisMonth' = thisMonth \/ thisMonth' = thisMonth \cup {nextRun}
  BY DEF Request, ReplayResearch, CreateResearch, CancelGet, ClarifySelect, PurgeSelect,
         PrivacySelect, Begin
<1>5. nextRun \in Runs => ~ Live(nextRun)
  <2> SUFFICES ASSUME nextRun \in Runs PROVE ~ Live(nextRun)
    OBVIOUS
  <2>1. nextRun >= nextRun
    BY ConstantsAssumption DEF Runs
  <2> QED
    BY <2>1 DEF InsertedOnce, Fresh, Live, Statuses
<1> QED
  BY <1>1, <1>2, <1>3, <1>4, <1>5 DEF NothingSpent, Live

\* An executor that stores nothing and passes no check.
LEMMA MoveIsFree ==
  ASSUME TypeOK, NEW e \in Executors, NEW x, ex' = [ex EXCEPT ![e] = x],
         rows' = rows, thisMonth' = thisMonth,
         \/ x.pc \notin {"call", "select", "write"}
         \/ x.pc \in {"select", "write"} /\ x.outcome \notin {"completed", "needs_clarification"}
         \/ Spending(e) /\ x.run = ex[e].run
  PROVE  NothingSpent
<1>1. /\ ex'[e] = x
      /\ \A f \in Executors : f # e => ex'[f] = ex[f]
  BY DEF TypeOK
<1>2. \A f \in Executors : Spending(f)' => Spending(f) /\ ex'[f].run = ex[f].run
  BY <1>1 DEF Spending
<1>3. \A r \in Runs : rows[r].cost \in Nat
  BY DEF TypeOK, Row
<1> QED
  BY <1>2, <1>3 DEF NothingSpent, Live

\* What an executor has in hand was queued when it was claimed.
HandKept ==
    /\ \A e \in Executors : ex'[e].pc # "idle" =>
        \/ ex[e].pc # "idle" /\ ex'[e].run = ex[e].run
        \/ ex'[e].run \in Runs /\ rows[ex'[e].run].status # "absent"
    /\ \A r \in Runs : rows[r].status # "absent" => rows'[r].status # "absent"

LEMMA MoveKeepsHand ==
  ASSUME TypeOK, NEW e \in Executors, NEW x, ex' = [ex EXCEPT ![e] = x],
         x.pc = "idle" \/ (ex[e].pc # "idle" /\ x.run = ex[e].run),
         \A r \in Runs : rows[r].status # "absent" => rows'[r].status # "absent"
  PROVE  HandKept
  BY DEF HandKept, TypeOK

\* An executor's step: what it does to the bill, to its run and to its charge.
LEMMA ExecuteSpends ==
  ASSUME TypeOK, InsertedOnce, ChargesKnown, NEW e \in Executors, Execute(e)
  PROVE  /\ \/ NothingSpent
            \/ CheckBudget(e)
            \/ /\ UpdateCommit(e) /\ Live(ex[e].run)
               /\ ex[e].outcome \in {"completed", "needs_clarification"}
         /\ HandKept
         /\ ChargesKnown'
<1>1. CASE ClaimSelect(e)
  <2>1. PICK r, x :
          /\ r \in Runs
          /\ x = IF rows[r].status = "queued"
                 THEN [IdleExecutor EXCEPT !.pc = "claim", !.run = r] ELSE IdleExecutor
          /\ ex' = [ex EXCEPT ![e] = x]
    BY <1>1 DEF ClaimSelect, Step
  <2>2. rows' = rows /\ thisMonth' = thisMonth
    BY <1>1 DEF ClaimSelect, Step
  <2>3. x.pc \in {"idle", "claim"} /\ (x.pc = "claim" => x.run = r /\ rows[r].status = "queued")
    BY <2>1 DEF IdleExecutor
  <2>4. ex'[e] = x /\ \A f \in Executors : f # e => ex'[f] = ex[f]
    BY <2>1 DEF TypeOK
  <2>5. NothingSpent
    BY <2>1, <2>2, <2>3, MoveIsFree
  <2> QED
    BY <2>1, <2>2, <2>3, <2>4, <2>5 DEF HandKept, ChargesKnown, Spending
<1>2. ASSUME NEW x, ex' = [ex EXCEPT ![e] = x], ex[e].pc # "idle",
             x.pc = "idle" \/ x.run = ex[e].run,
             \/ x.pc \notin {"call", "select", "write"}
             \/ /\ x.pc \in {"select", "write"}
                /\ x.outcome \notin {"completed", "needs_clarification"}
             \/ Spending(e) /\ x.run = ex[e].run
                /\ (x.pc # "call" => x.cost \in Charges),
             rows' = rows, thisMonth' = thisMonth
      PROVE  NothingSpent /\ HandKept /\ ChargesKnown'
  <2>1. NothingSpent
    BY <1>2, MoveIsFree
  <2>2. HandKept
    <3>1. \A r \in Runs : rows[r].status # "absent" => rows'[r].status # "absent"
      BY <1>2
    <3>2. ex' = [ex EXCEPT ![e] = x] /\ (x.pc = "idle" \/ (ex[e].pc # "idle" /\ x.run = ex[e].run))
      BY <1>2
    <3> QED
      BY <3>1, <3>2, MoveKeepsHand
  <2>3. ex'[e] = x /\ \A f \in Executors : f # e => ex'[f] = ex[f]
    BY <1>2 DEF TypeOK
  <2>4. ChargesKnown'
    BY <1>2, <2>3 DEF ChargesKnown, Spending
  <2> QED
    BY <2>1, <2>2, <2>4
<1>3. CASE ClaimCommit(e)
  <2>1. CASE Live(ex[e].run)
    <3>1. PICK r, row, x :
            /\ r \in Runs /\ Live(r) /\ r = ex[e].run
            /\ row = [rows[r] EXCEPT !.status = "running"]
            /\ rows' = [rows EXCEPT ![r] = row]
            /\ x = [ex[e] EXCEPT !.pc = "budget", !.req = rows[r].req]
            /\ ex' = [ex EXCEPT ![e] = x]
            /\ ex[e].pc = "claim" /\ thisMonth' = thisMonth
      BY <1>3, <2>1 DEF ClaimCommit, Step, TypeOK
    <3>2. row.status = "running" /\ row.cost = rows[r].cost /\ row.ws = rows[r].ws /\ row.cost \in Nat
      BY <3>1 DEF TypeOK, Row
    <3>3. rows'[r] = row /\ \A s \in Runs : s # r => rows'[s] = rows[s]
      BY <3>1 DEF TypeOK
    <3>4. x.pc = "budget" /\ x.run = ex[e].run
      BY <3>1 DEF TypeOK, ExecutorState
    <3>5. ex'[e] = x /\ \A f \in Executors : f # e => ex'[f] = ex[f]
      BY <3>1 DEF TypeOK
    <3>6. \A f \in Executors : Spending(f)' => Spending(f) /\ ex'[f].run = ex[f].run
      BY <3>4, <3>5 DEF Spending
    <3>7. \A s \in Runs : rows[s].cost \in Nat
      BY DEF TypeOK, Row
    <3>8. NothingSpent
      BY <3>1, <3>2, <3>3, <3>6, <3>7 DEF NothingSpent, Live
    <3>9. HandKept
      <4>1. \A s \in Runs : rows[s].status # "absent" => rows'[s].status # "absent"
        BY <3>2, <3>3
      <4> QED
        BY <3>1, <3>4, <4>1, MoveKeepsHand
    <3>10. ChargesKnown'
      BY <3>4, <3>5 DEF ChargesKnown, Spending
    <3> QED
      BY <3>8, <3>9, <3>10
  <2>2. CASE ~ Live(ex[e].run)
    BY <1>2, <1>3, <2>2 DEF ClaimCommit, Die, Step, IdleExecutor
  <2> QED
    BY <2>1, <2>2
<1>4. CASE CheckBudget(e)
  <2>1. PICK x :
          /\ ex' = [ex EXCEPT ![e] = x]
          /\ \/ x = [ex[e] EXCEPT !.pc = "select", !.outcome = "budget_exhausted"]
             \/ x = [ex[e] EXCEPT !.pc = "call"]
          /\ ex[e].pc = "budget" /\ rows' = rows
    BY <1>4 DEF CheckBudget, Step
  <2>2. /\ x.run = ex[e].run
        /\ x.pc = "call" \/ (x.pc = "select" /\ x.outcome = "budget_exhausted")
    BY <2>1 DEF TypeOK, ExecutorState
  <2>3. ex'[e] = x /\ \A f \in Executors : f # e => ex'[f] = ex[f]
    BY <2>1 DEF TypeOK
  <2>4. HandKept
    BY <2>1, <2>2, MoveKeepsHand
  <2>5. ChargesKnown'
    BY <2>2, <2>3 DEF ChargesKnown, Spending
  <2> QED
    BY <1>4, <2>4, <2>5
<1>5. CASE Answer(e)
  <2>1. CASE \E o \in {"completed", "needs_clarification"}, c \in Charges :
               Step(e, [ex[e] EXCEPT !.pc = "select", !.outcome = o, !.cost = c])
    <3>1. PICK o \in {"completed", "needs_clarification"}, c \in Charges :
            Step(e, [ex[e] EXCEPT !.pc = "select", !.outcome = o, !.cost = c])
      BY <2>1
    <3>2. PICK x : x = [ex[e] EXCEPT !.pc = "select", !.outcome = o, !.cost = c]
      OBVIOUS
    <3>3. x.pc = "select" /\ x.run = ex[e].run /\ x.cost = c
      BY <3>2 DEF TypeOK, ExecutorState
    <3>4. ex[e].pc = "call" /\ Spending(e) /\ rows' = rows
      BY <1>5 DEF Answer, Spending
    <3> QED
      BY <1>2, <3>1, <3>2, <3>3, <3>4 DEF Step
  <2>2. CASE Step(e, [ex[e] EXCEPT !.pc = "select", !.outcome = "failed"])
    <3>1. PICK x : x = [ex[e] EXCEPT !.pc = "select", !.outcome = "failed"]
      OBVIOUS
    <3>2. x.pc = "select" /\ x.run = ex[e].run /\ x.outcome = "failed"
      BY <3>1 DEF TypeOK, ExecutorState
    <3>3. ex[e].pc = "call" /\ rows' = rows
      BY <1>5 DEF Answer
    <3> QED
      BY <1>2, <2>2, <3>1, <3>2, <3>3 DEF Step
  <2> QED
    BY <1>5, <2>1, <2>2 DEF Answer
<1>6. CASE UpdateSelect(e)
  <2>1. PICK x :
          /\ ex' = [ex EXCEPT ![e] = x]
          /\ x = [ex[e] EXCEPT !.pc = "write"] \/ x = [ex[e] EXCEPT !.pc = "audit"]
          /\ ex[e].pc = "select" /\ rows' = rows /\ thisMonth' = thisMonth
    BY <1>6 DEF UpdateSelect, Step
  <2>2. /\ x.run = ex[e].run /\ x.outcome = ex[e].outcome /\ x.cost = ex[e].cost
        /\ x.pc \in {"write", "audit"}
    BY <2>1 DEF TypeOK, ExecutorState
  <2>3. x.outcome \in {"completed", "needs_clarification"} => Spending(e) /\ x.cost \in Charges
    BY <2>1, <2>2 DEF Spending, ChargesKnown
  <2> QED
    BY <1>2, <2>1, <2>2, <2>3
<1>7. CASE UpdateCommit(e)
  <2>1. CASE Live(ex[e].run)
    <3>1. PICK r, row, x :
            /\ r \in Runs /\ Live(r) /\ r = ex[e].run
            /\ row = Reported(rows[r], ex[e])
            /\ rows' = [rows EXCEPT ![r] = row]
            /\ x = [ex[e] EXCEPT !.pc = "audit"]
            /\ ex' = [ex EXCEPT ![e] = x]
            /\ ex[e].pc = "write" /\ thisMonth' = thisMonth
            /\ ex[e].outcome \in Outcomes
      BY <1>7, <2>1 DEF UpdateCommit, Step, TypeOK
    <3>2. /\ row.status # "absent" /\ row.ws = rows[r].ws
          /\ ex[e].outcome \notin {"completed", "needs_clarification"} => row.cost = rows[r].cost
      BY <3>1 DEF TypeOK, Row, Reported
    <3>3. rows'[r] = row /\ \A s \in Runs : s # r => rows'[s] = rows[s]
      BY <3>1 DEF TypeOK
    <3>4. x.pc = "audit" /\ x.run = ex[e].run
      BY <3>1 DEF TypeOK, ExecutorState
    <3>5. ex'[e] = x /\ \A f \in Executors : f # e => ex'[f] = ex[f]
      BY <3>1 DEF TypeOK
    <3>6. \A f \in Executors : Spending(f)' => Spending(f) /\ ex'[f].run = ex[f].run
      BY <3>4, <3>5 DEF Spending
    <3>7. \A s \in Runs : rows[s].cost \in Nat
      BY DEF TypeOK, Row
    <3>8. ex[e].outcome \notin {"completed", "needs_clarification"} => NothingSpent
      BY <3>1, <3>2, <3>3, <3>6, <3>7 DEF NothingSpent, Live
    <3>9. HandKept
      <4>1. \A s \in Runs : rows[s].status # "absent" => rows'[s].status # "absent"
        BY <3>2, <3>3
      <4> QED
        BY <3>1, <3>4, <4>1, MoveKeepsHand
    <3>10. ChargesKnown'
      BY <3>4, <3>5 DEF ChargesKnown, Spending
    <3> QED
      BY <1>7, <2>1, <3>8, <3>9, <3>10
  <2>2. CASE ~ Live(ex[e].run)
    <3>1. ex[e].pc = "write" /\ Raise(e)
      BY <1>7, <2>2 DEF UpdateCommit
    <3>2. CASE ex[e].outcome = "failed"
      BY <1>2, <3>1, <3>2 DEF Raise, Die, Step, IdleExecutor
    <3>3. CASE ex[e].outcome # "failed"
      <4>1. PICK x : x = [ex[e] EXCEPT !.pc = "select", !.outcome = "failed"]
        OBVIOUS
      <4>2. x.pc = "select" /\ x.run = ex[e].run /\ x.outcome = "failed"
        BY <4>1 DEF TypeOK, ExecutorState
      <4> QED
        BY <1>2, <3>1, <3>3, <4>1, <4>2 DEF Raise, Step
    <3> QED
      BY <3>2, <3>3
  <2> QED
    BY <2>1, <2>2
<1>8. CASE AuditOutcome(e)
  <2>1. PICK x :
          /\ ex' = [ex EXCEPT ![e] = x] /\ x = [ex[e] EXCEPT !.pc = "dispatch"]
          /\ ex[e].pc = "audit" /\ rows' = rows /\ thisMonth' = thisMonth
    BY <1>8 DEF AuditOutcome, Step
  <2>2. x.run = ex[e].run /\ x.pc = "dispatch"
    BY <2>1 DEF TypeOK, ExecutorState
  <2> QED
    BY <1>2, <2>1, <2>2
<1>9. CASE DispatchDone(e)
  BY <1>2, <1>9 DEF DispatchDone, Step, IdleExecutor
<1> QED
  BY <1>1, <1>3, <1>4, <1>5, <1>6, <1>7, <1>8, <1>9 DEF Execute

LEMMA EnvironmentSpends ==
  ASSUME TypeOK, InsertedOnce, ChargesKnown, Environment
  PROVE  NothingSpent /\ HandKept /\ ChargesKnown'
<1>0. \A r \in Runs : rows[r].cost \in Nat
  BY DEF TypeOK, Row
<1>1. ASSUME rows' = rows, thisMonth' \subseteq thisMonth,
             \A e \in Executors :
                \/ ex'[e] = ex[e]
                \/ ex'[e].pc = "idle"
                \/ /\ ex'[e].pc = "select" /\ ex'[e].outcome = "failed"
                   /\ ex[e].pc # "idle" /\ ex'[e].run = ex[e].run
      PROVE  NothingSpent /\ HandKept /\ ChargesKnown'
  <2>1. \A e \in Executors : Spending(e)' => ex'[e] = ex[e]
    BY <1>1 DEF Spending
  <2>2. NothingSpent
    BY <1>0, <1>1, <2>1 DEF NothingSpent, Live, Spending
  <2>3. HandKept
    BY <1>1 DEF HandKept
  <2>4. ChargesKnown'
    BY <2>1 DEF ChargesKnown, Spending
  <2> QED
    BY <2>2, <2>3, <2>4
<1>2. ASSUME NEW e \in Executors, StoreError(e) PROVE NothingSpent /\ HandKept /\ ChargesKnown'
  <2>1. PICK x :
          /\ ex' = [ex EXCEPT ![e] = x] /\ ex[e].pc # "idle"
          /\ \/ x = [ex[e] EXCEPT !.pc = "select", !.outcome = "failed"]
             \/ x = IdleExecutor
          /\ rows' = rows /\ thisMonth' = thisMonth
    BY <1>2 DEF StoreError
  <2>2. \/ x.pc = "idle"
        \/ x.pc = "select" /\ x.outcome = "failed" /\ x.run = ex[e].run
    <3>1. CASE x = IdleExecutor
      BY <3>1 DEF IdleExecutor
    <3>2. CASE x = [ex[e] EXCEPT !.pc = "select", !.outcome = "failed"]
      BY <3>2 DEF TypeOK, ExecutorState
    <3> QED
      BY <2>1, <3>1, <3>2
  <2>3. ex'[e] = x /\ \A f \in Executors : f # e => ex'[f] = ex[f]
    BY <2>1 DEF TypeOK
  <2> QED
    BY <1>1, <2>1, <2>2, <2>3
<1>3. ASSUME NEW p \in ApiProcs, HandlerError(p) PROVE NothingSpent /\ HandKept /\ ChargesKnown'
  BY <1>1, <1>3 DEF HandlerError
<1>4. ASSUME NEW p \in Procs, Crash(p) PROVE NothingSpent /\ HandKept /\ ChargesKnown'
  BY <1>1, <1>4 DEF Crash, IdleExecutor
<1>5. CASE DayPasses \/ NewMonth
  BY <1>1, <1>5 DEF DayPasses, NewMonth
<1> QED
  BY <1>2, <1>3, <1>4, <1>5 DEF Environment

\* Runs are inserted once, in every deployment.
LEMMA InsertedOnceStep ==
  ASSUME TypeOK, TypeOK', InsertedOnce, HandKept, Next
  PROVE  InsertedOnce'
<1>1. \A e \in Executors : ex'[e].pc # "idle" => rows'[ex'[e].run].status # "absent"
  <2> SUFFICES ASSUME NEW e \in Executors, ex'[e].pc # "idle"
               PROVE  rows'[ex'[e].run].status # "absent"
    OBVIOUS
  <2>1. ex'[e].run \in Runs
    BY DEF TypeOK, Runs
  <2>2. rows[ex'[e].run].status # "absent"
    BY DEF HandKept, InsertedOnce
  <2> QED
    BY <2>1, <2>2 DEF HandKept
<1>2. nextRun \in Nat /\ \A r \in Runs : r \in Nat
  BY ConstantsAssumption DEF TypeOK, Runs
<1>3. ASSUME nextRun' = nextRun,
             \A p \in ApiProcs : handler'[p] = handler[p] \/ handler'[p].op # "create",
             rows' = rows
      PROVE  Fresh'
  BY <1>3 DEF InsertedOnce, Fresh
<1>4. ASSUME nextRun' = nextRun, NEW p \in ApiProcs, NEW h,
             handler' = [handler EXCEPT ![p] = h], h.op # "create",
             NEW r \in Runs, NEW row, rows' = [rows EXCEPT ![r] = row],
             \/ rows[r].status # "absent"
             \/ handler[p].op = "create" /\ handler[p].run = r
      PROVE  Fresh'
  <2>1. handler'[p].op # "create" /\ \A q \in ApiProcs : q # p => handler'[q] = handler[q]
    BY <1>4 DEF TypeOK
  <2>2. \A s \in Runs : s # r => rows'[s] = rows[s]
    BY <1>4 DEF TypeOK
  <2>3. r < nextRun
    BY <1>2, <1>4 DEF InsertedOnce, Fresh
  <2>4. \A q \in ApiProcs : handler'[q].op = "create" => handler'[q].run # r /\ handler'[q].run \in Runs
    BY <1>4, <2>1 DEF InsertedOnce, Fresh, TypeOK
  <2>5. \A s \in Runs : s >= nextRun' => rows'[s].status = "absent"
    BY <1>2, <1>4, <2>2, <2>3 DEF InsertedOnce, Fresh
  <2>6. \A q \in ApiProcs : handler'[q].op = "create" =>
                handler'[q].run < nextRun' /\ rows'[handler'[q].run].status = "absent"
    BY <1>4, <2>1, <2>2, <2>4 DEF InsertedOnce, Fresh
  <2> QED
    BY <2>1, <2>5, <2>6 DEF InsertedOnce, Fresh
<1>5. ASSUME NEW p \in ApiProcs, Request(p) PROVE Fresh'
  <2>1. PICK h : handler' = [handler EXCEPT ![p] = h]
    BY <1>5, RequestTurn
  <2>2. rows' = rows /\ handler'[p] = h /\ \A q \in ApiProcs : q # p => handler'[q] = handler[q]
    BY <1>5, <2>1, RequestTurn DEF TypeOK
  <2>3. CASE h.op # "create" /\ nextRun' = nextRun
    BY <1>3, <2>2, <2>3
  <2>4. CASE h.op = "create" /\ h.run = nextRun /\ nextRun \in Runs /\ nextRun' = nextRun + 1
    <3>1. nextRun >= nextRun /\ nextRun < nextRun + 1 /\ rows[nextRun].status = "absent"
      BY <1>2, <2>4 DEF InsertedOnce, Fresh
    <3>2. \A s \in Runs : s >= nextRun + 1 => s >= nextRun
      BY <1>2
    <3>3. \A q \in ApiProcs : q # p /\ handler'[q].op = "create" =>
            handler[q].run \in Nat /\ handler[q].run < nextRun
      BY <1>2, <2>2 DEF InsertedOnce, Fresh, TypeOK
    <3>4. \A q \in ApiProcs : q # p /\ handler'[q].op = "create" =>
            handler'[q].run < nextRun + 1 /\ handler'[q].run # nextRun
      BY <1>2, <2>2, <3>3
    <3>5. \A q \in ApiProcs : handler'[q].op = "create" =>
                handler'[q].run < nextRun' /\ rows'[handler'[q].run].status = "absent"
      BY <2>2, <2>4, <3>1, <3>4 DEF InsertedOnce, Fresh
    <3> QED
      BY <2>2, <2>4, <3>2, <3>4, <3>5 DEF InsertedOnce, Fresh
  <2>5. \/ h.op # "create" /\ nextRun' = nextRun
        \/ h.op = "create" /\ h.run = nextRun /\ nextRun \in Runs /\ nextRun' = nextRun + 1
    <3>1. ASSUME NEW r \in Runs, NEW q \in Requests, ClarifySelect(p, r, q)
          PROVE  h.op # "create" /\ nextRun' = nextRun
      BY <2>2, <3>1 DEF ClarifySelect, Begin, TypeOK, NoHandler
    <3> QED
      BY <1>5, <2>2, <3>1, RequestBegins
  <2> QED
    BY <2>3, <2>4, <2>5
<1>6. ASSUME NEW p \in ApiProcs, Handle(p) PROVE Fresh'
  <2>0. nextRun' = nextRun
    BY <1>6, HandleTurn
  <2>1. ASSUME NEW r, NEW row, NEW event, r \in Runs, StoreAndAudit(p, r, row, event),
               \/ rows[r].status # "absent"
               \/ handler[p].op = "create" /\ handler[p].run = r
        PROVE  Fresh'
    <3>1. PICK h : h = [NoHandler EXCEPT !.op = "audit", !.run = r, !.event = event]
      OBVIOUS
    <3>2. h.op # "create"
      BY <3>1 DEF NoHandler
    <3>3. handler' = [handler EXCEPT ![p] = h] /\ rows' = [rows EXCEPT ![r] = row]
      BY <2>1, <3>1 DEF StoreAndAudit
    <3> QED
      BY <1>4, <2>0, <2>1, <3>2, <3>3
  <2>2. CASE Abort(p) \/ RecordAudit(p)
    BY <1>3, <2>2 DEF Abort, RecordAudit, TypeOK, NoHandler
  <2>3. CASE InsertRun(p)
    <3>1. handler[p].op = "create" /\ handler[p].run \in Runs
      BY <2>3 DEF InsertRun, TypeOK
    <3> QED
      BY <2>1, <2>2, <2>3, <3>1 DEF InsertRun
  <2>4. CASE CancelSelect(p)
    <3>1. handler'[p].op # "create" /\ rows' = rows /\ \A q \in ApiProcs : q # p => handler'[q] = handler[q]
      BY <2>4 DEF CancelSelect, Begin, TypeOK, HandlerState
    <3> QED
      BY <1>3, <2>0, <3>1
  <2>5. CASE CancelCommit(p) \/ ClarifyCommit(p)
    <3>1. handler[p].run \in Runs /\ (Live(handler[p].run) => rows[handler[p].run].status # "absent")
      BY <2>5 DEF CancelCommit, ClarifyCommit, TypeOK, Live, Statuses
    <3> QED
      BY <2>1, <2>2, <2>5, <3>1 DEF CancelCommit, ClarifyCommit
  <2>6. CASE DeleteCommit(p)
    <3>1. handler'[p].op # "create" /\ \A q \in ApiProcs : q # p => handler'[q] = handler[q]
      BY <2>6 DEF DeleteCommit, TypeOK, NoHandler
    <3>2. \A r \in Runs : rows[r].status = "absent" => rows'[r] = rows[r]
      BY <2>6 DEF DeleteCommit, Live, Statuses
    <3>3. \A q \in ApiProcs : handler'[q].op = "create" => handler[q].run \in Runs
      BY <3>1 DEF TypeOK
    <3> QED
      BY <2>0, <3>1, <3>2, <3>3 DEF InsertedOnce, Fresh
  <2> QED
    BY <1>6, <2>2, <2>3, <2>4, <2>5, <2>6 DEF Handle
<1>7. ASSUME NEW e \in Executors, Execute(e) PROVE Fresh'
  <2>1. nextRun' = nextRun /\ handler' = handler
    BY <1>7, ExecuteTurn
  <2>2. rows' = rows \/ \E r \in Runs : \E row : Live(r) /\ rows' = [rows EXCEPT ![r] = row]
    BY <1>7 DEF Execute, ClaimSelect, ClaimCommit, CheckBudget, Answer, UpdateSelect,
                UpdateCommit, AuditOutcome, DispatchDone, Raise, Die, TypeOK
  <2>3. \A r \in Runs : rows[r].status = "absent" => rows'[r] = rows[r]
    BY <2>2 DEF TypeOK, Live, Statuses
  <2>4. \A q \in ApiProcs : handler[q].op = "create" => handler[q].run \in Runs
    BY DEF TypeOK
  <2> QED
    BY <2>1, <2>3, <2>4 DEF InsertedOnce, Fresh
<1>8. ASSUME Environment \/ \E w \in Workers : Poll(w) PROVE Fresh'
  <2>1. rows' = rows /\ nextRun' = nextRun
    BY <1>8 DEF Environment, StoreError, HandlerError, Crash, DayPasses, NewMonth, Poll
  <2>2. ASSUME NEW p \in ApiProcs
        PROVE  handler'[p] = handler[p] \/ handler'[p].op # "create"
    <3>1. \/ handler' = handler
          \/ \E q \in ApiProcs : handler' = [handler EXCEPT ![q] = NoHandler]
          \/ \E q \in Procs : handler' = [a \in ApiProcs |-> IF a = q THEN NoHandler ELSE handler[a]]
      BY <1>8 DEF Environment, StoreError, HandlerError, Crash, DayPasses, NewMonth, Poll
    <3> QED
      BY <3>1 DEF TypeOK, NoHandler
  <2> QED
    BY <1>3, <2>1, <2>2
<1>9. Fresh'
  BY <1>5, <1>6, <1>7, <1>8 DEF Next
<1> QED
  BY <1>1, <1>9 DEF InsertedOnce

LEMMA BudgetStep ==
  ASSUME TypeOK, TypeOK', BudgetInv, [Next]_vars
  PROVE  BudgetInv'
<1>0. InsertedOnce /\ ChargesKnown /\ CommitmentBounded
  BY DEF BudgetInv
<1>1. CASE UNCHANGED vars
  <2>1. \A r \in Runs : rows[r].cost \in Nat
    BY DEF TypeOK, Row
  <2>2. NothingSpent
    BY <1>1, <2>1 DEF vars, NothingSpent, Live, Spending
  <2>3. CommitmentBounded'
    BY <1>0, <2>2, NothingSpentKeeps
  <2>4. InsertedOnce' /\ ChargesKnown'
    BY <1>0, <1>1 DEF vars, InsertedOnce, Fresh, ChargesKnown, Spending
  <2> QED
    BY <2>3, <2>4 DEF BudgetInv
<1>2. CASE Next
  <2>1. ASSUME NothingSpent, HandKept, ChargesKnown' PROVE BudgetInv'
    BY <1>0, <1>2, <2>1, NothingSpentKeeps, InsertedOnceStep DEF BudgetInv
  <2>2. ASSUME ex' = ex, \A r \in Runs : rows[r].status # "absent" => rows'[r].status # "absent"
        PROVE  HandKept /\ ChargesKnown'
    BY <1>0, <2>2 DEF HandKept, ChargesKnown, Spending
  <2>3. ASSUME NEW p \in ApiProcs, Request(p) PROVE BudgetInv'
    <3>1. NothingSpent /\ rows' = rows /\ ex' = ex
      BY <1>0, <2>3, RequestIsFree
    <3> QED
      BY <2>1, <2>2, <3>1
  <2>4. ASSUME NEW p \in ApiProcs, Handle(p) PROVE BudgetInv'
    BY <1>0, <2>1, <2>2, <2>4, HandleIsFree, HandleTurn
  <2>5. ASSUME NEW w \in Workers, Poll(w) PROVE BudgetInv'
    <3>1. rows' = rows /\ ex' = ex /\ thisMonth' = thisMonth
      BY <2>5 DEF Poll
    <3>2. \A r \in Runs : rows[r].cost \in Nat
      BY DEF TypeOK, Row
    <3>3. NothingSpent
      BY <3>1, <3>2 DEF NothingSpent, Live, Spending
    <3> QED
      BY <2>1, <2>2, <3>1, <3>3
  <2>6. ASSUME NEW e \in Executors, Execute(e) PROVE BudgetInv'
    <3>1. HandKept /\ ChargesKnown'
      BY <1>0, <2>6, ExecuteSpends
    <3>2. InsertedOnce'
      BY <1>0, <1>2, <3>1, InsertedOnceStep
    <3>3. CommitmentBounded'
      BY <1>0, <2>6, ExecuteSpends, NothingSpentKeeps, CheckBudgetKeeps, ReportKeeps
    <3> QED
      BY <3>1, <3>2, <3>3 DEF BudgetInv
  <2>7. CASE Environment
    BY <1>0, <2>1, <2>7, EnvironmentSpends
  <2> QED
    BY <1>2, <2>3, <2>4, <2>5, <2>6, <2>7 DEF Next
<1> QED
  BY <1>1, <1>2

LEMMA BudgetInitially == Init => BudgetInv
<1> SUFFICES ASSUME Init PROVE BudgetInv
  OBVIOUS
<1>1. TypeOK
  BY InitType
<1>2. InsertedOnce
  BY DEF Init, InsertedOnce, Fresh, NoRow, NoHandler, IdleExecutor
<1>3. \A e \in Executors : ~ Spending(e)
  BY DEF Init, Spending, IdleExecutor
<1>4. ChargesKnown
  BY <1>3 DEF ChargesKnown
<1>5. CommitmentBounded
  <2> SUFFICES ASSUME Budget > 0, NEW ws \in Workspaces
               PROVE  Committed(ws) < Budget + Cardinality(Executors) * MaxCharge
    BY DEF CommitmentBounded
  <2>1. SpendingIn(ws) = {} /\ Cardinality(SpendingIn(ws)) = 0
    BY <1>3, FS_EmptySet DEF SpendingIn
  <2>2. Billed(ws) = {}
    BY DEF Init, Billed
  <2>3. Consumed(ws) = 0
    BY <1>1, <2>2, Counts, DollarsEmpty
  <2>4. MaxCharge \in Nat /\ Cardinality(Executors) \in Nat /\ Budget \in Nat
    BY <1>1, Counts, ChargesBounded, ConstantsAssumption
  <2>5. 0 * MaxCharge = 0 /\ Cardinality(Executors) * MaxCharge \in Nat
    BY <2>4
  <2> QED
    BY <2>1, <2>3, <2>4, <2>5 DEF Committed
<1> QED
  BY <1>2, <1>4, <1>5 DEF BudgetInv

\* What a month has consumed never passes the budget by more than one charge per
\* executor, in every deployment, for every budget, set of charges and number of
\* runs (_execute, monthly_cost).
THEOREM BudgetOvershoot == Spec => []OvershootBounded
<1>1. TypeOK /\ BudgetInv => OvershootBounded
  <2> SUFFICES ASSUME TypeOK, BudgetInv, Budget > 0, NEW ws \in Workspaces
               PROVE  Consumed(ws) < Budget + Cardinality(Executors) * MaxCharge
    BY DEF OvershootBounded
  <2> DEFINE n == Cardinality(SpendingIn(ws))
             c == Consumed(ws)
             all == Cardinality(Executors)
  <2>1. n \in Nat /\ c \in Nat /\ all \in Nat /\ MaxCharge \in Nat /\ Budget \in Nat
    BY Counts, ChargesBounded, ConstantsAssumption
  <2>2. c + n * MaxCharge < Budget + all * MaxCharge
    BY DEF BudgetInv, CommitmentBounded, Committed
  <2> HIDE DEF n, c, all
  <2>3. n * MaxCharge \in Nat /\ all * MaxCharge \in Nat
    BY <2>1
  <2>4. c < Budget + all * MaxCharge
    BY <2>1, <2>2, <2>3
  <2> QED
    BY <2>4 DEF c, all
<1>2. TypeOK /\ TypeOK' /\ BudgetInv /\ [Next]_vars => BudgetInv'
  BY BudgetStep
<1> QED
  BY <1>1, <1>2, BudgetInitially, TypeCorrect, PTL DEF Spec

-----------------------------------------------------------------------------
(* The queue: what OldestQueued lists.                                     *)

\* RunStore.queued returns BatchLimit runs at most ...
LEMMA OldestQueuedBounded ==
  /\ OldestQueued \subseteq Queued
  /\ IsFiniteSet(OldestQueued) /\ Cardinality(OldestQueued) <= BatchLimit
<1>0. /\ OldestQueued \subseteq Queued /\ Queued \subseteq Runs
      /\ Runs \subseteq Nat /\ BatchLimit \in Nat
  BY ConstantsAssumption DEF OldestQueued, Queued, Runs
<1>1. IsFiniteSet(OldestQueued) /\ \A o \in Nat : IsFiniteSet({q \in Queued : q < o})
  BY <1>0, RunsFinite
<1>2. CASE OldestQueued = {}
  BY <1>0, <1>2, FS_EmptySet
<1>3. CASE OldestQueued # {}
  <2>1. PICK last \in OldestQueued : \A r \in OldestQueued : r <= last
    BY <1>0, <1>1, <1>3, FiniteSetHasMaximum
  <2> DEFINE before == {q \in Queued : q < last}
  <2>2. last \in Nat /\ Cardinality(before) < BatchLimit
    BY <1>0, <2>1 DEF OldestQueued
  <2>3. OldestQueued \subseteq before \cup {last}
    BY <1>0, <2>1
  <2>4. IsFiniteSet(before) /\ last \notin before
    BY <1>1, <2>2
  <2> HIDE DEF before
  <2>5. /\ IsFiniteSet(before \cup {last})
        /\ Cardinality(before \cup {last}) = Cardinality(before) + 1
        /\ Cardinality(before) \in Nat
    BY <2>4, FS_AddElement, FS_CardinalityType
  <2>6. /\ Cardinality(OldestQueued) <= Cardinality(before \cup {last})
        /\ Cardinality(OldestQueued) \in Nat
    BY <1>1, <2>3, <2>5, FS_Subset, FS_CardinalityType
  <2> QED
    BY <1>0, <1>1, <2>2, <2>5, <2>6
<1> QED
  BY <1>2, <1>3

\* ... and no run before an older one, so never nothing while a run is queued.
LEMMA OldestQueuedFirst ==
  /\ \A r \in OldestQueued, o \in Queued : o < r => o \in OldestQueued
  /\ Queued # {} => OldestQueued # {}
<1>0. /\ Queued \subseteq Runs /\ Runs \subseteq Nat /\ BatchLimit \in Nat \ {0}
      /\ \A o \in Nat : IsFiniteSet({q \in Queued : q < o})
  <2>1. Queued \subseteq Runs /\ Runs \subseteq Nat /\ BatchLimit \in Nat \ {0}
    BY ConstantsAssumption DEF Queued, Runs
  <2> QED
    BY <2>1, RunsFinite
<1>1. ASSUME NEW r \in OldestQueued, NEW o \in Queued, o < r
      PROVE  o \in OldestQueued
  <2>1. /\ r \in Queued /\ r \in Nat /\ o \in Nat
        /\ Cardinality({q \in Queued : q < r}) < BatchLimit
    BY <1>0 DEF OldestQueued
  <2>2. {q \in Queued : q < o} \subseteq {q \in Queued : q < r}
    <3>1. ASSUME NEW q \in Queued, q < o
          PROVE  q < r
      <4>1. q \in Nat /\ o < r
        BY <1>0, <1>1
      <4> QED
        BY <2>1, <3>1, <4>1
    <3> QED
      BY <3>1
  <2>3. /\ Cardinality({q \in Queued : q < o}) <= Cardinality({q \in Queued : q < r})
        /\ Cardinality({q \in Queued : q < o}) \in Nat
        /\ Cardinality({q \in Queued : q < r}) \in Nat
    BY <1>0, <2>1, <2>2, FS_Subset, FS_CardinalityType
  <2> QED
    BY <1>0, <2>1, <2>3 DEF OldestQueued
<1>2. ASSUME Queued # {}
      PROVE  OldestQueued # {}
  <2>1. PICK first \in Queued : \A o \in Queued : ~(o < first)
    <3> DEFINE after == {MaxRuns - q : q \in Queued}
    <3>1. MaxRuns \in Nat /\ \A q \in Queued : q \in 1..MaxRuns
      BY <1>0, ConstantsAssumption DEF Runs
    <3>2. after \subseteq 0..MaxRuns /\ after # {}
      BY <1>2, <3>1
    <3>3. IsFiniteSet(after) /\ after \subseteq Nat
      <4>1. IsFiniteSet(0..MaxRuns) /\ 0..MaxRuns \subseteq Nat
        BY <3>1, FS_Interval
      <4> HIDE DEF after
      <4> QED
        BY <3>2, <4>1, FS_Subset
    <3>4. PICK m \in after : \A n \in after : n <= m
      BY <3>2, <3>3, FiniteSetHasMaximum
    <3>5. PICK first \in Queued : m = MaxRuns - first
      BY <3>4
    <3>6. \A o \in Queued : MaxRuns - o <= m
      BY <3>4
    <3> QED
      BY <3>1, <3>5, <3>6
  <2>2. {q \in Queued : q < first} = {}
    BY <2>1
  <2>3. Cardinality({q \in Queued : q < first}) = 0
    BY <2>2, FS_EmptySet
  <2> QED
    BY <1>0, <2>1, <2>3 DEF OldestQueued
<1> QED
  BY <1>1, <1>2

\* The list of a worker is only ever shortened, or made anew.
LEMMA BatchKept ==
  ASSUME TypeOK, [Next]_vars, NEW w \in Workers
  PROVE  inbox'[w] \subseteq inbox[w] \/ inbox'[w] = OldestQueued
<1>0. /\ inbox \in [Procs -> SUBSET Runs] /\ w \in Procs
      /\ \A p \in ApiProcs : p # w /\ p \in Procs
      /\ \A e \in Executors : Host[e] \in Procs
  BY ConstantsAssumption DEF TypeOK, Procs
<1>1. ASSUME NEW p \in ApiProcs, Request(p) \/ Handle(p)
      PROVE  inbox'[w] = inbox[w]
  <2>1. CASE Request(p)
    BY <2>1 DEF Request, ReplayResearch, CreateResearch, CancelGet, ClarifySelect,
                PurgeSelect, PrivacySelect, Begin
  <2>2. CASE Handle(p)
    <3>1. CASE RecordAudit(p)
      BY <1>0, <3>1 DEF RecordAudit
    <3> QED
      BY <2>2, <3>1 DEF Handle, InsertRun, CancelSelect, CancelCommit, ClarifyCommit,
                        DeleteCommit, Begin, Abort, StoreAndAudit
  <2> QED
    BY <1>1, <2>1, <2>2
<1>2. ASSUME NEW v \in Workers, Poll(v)
      PROVE  inbox'[w] = inbox[w] \/ inbox'[w] = OldestQueued
  BY <1>0, <1>2 DEF Poll
<1>3. ASSUME NEW e \in Executors, Execute(e)
      PROVE  inbox'[w] \subseteq inbox[w]
  <2>1. CASE ClaimSelect(e)
    BY <1>0, <2>1 DEF ClaimSelect
  <2>2. CASE ClaimCommit(e) \/ UpdateCommit(e)
    BY <1>0, <2>2 DEF ClaimCommit, UpdateCommit, Raise, Die
  <2> QED
    BY <1>3, <2>1, <2>2
    DEF Execute, CheckBudget, Answer, UpdateSelect, AuditOutcome, DispatchDone
<1>4. CASE Environment
  BY <1>0, <1>4 DEF Environment, StoreError, HandlerError, Crash, DayPasses, NewMonth
<1>5. CASE UNCHANGED vars
  BY <1>5 DEF vars
<1> QED
  BY <1>1, <1>2, <1>3, <1>4, <1>5 DEF Next

BatchesSmall ==
    \A w \in Workers : /\ IsFiniteSet(inbox[w])
                       /\ Cardinality(inbox[w]) <= BatchLimit

\* A worker never holds more than BatchLimit runs in its hands, however long the
\* queue (drain_once): that many a crash can take from it at most.
THEOREM BatchesBounded == Spec => []BatchesSmall
<1>1. Init => BatchesSmall
  BY FS_EmptySet, ConstantsAssumption DEF Init, BatchesSmall, Procs
<1>2. TypeOK /\ BatchesSmall /\ [Next]_vars => BatchesSmall'
  <2> SUFFICES ASSUME TypeOK, BatchesSmall, [Next]_vars, NEW w \in Workers
               PROVE  IsFiniteSet(inbox'[w]) /\ Cardinality(inbox'[w]) <= BatchLimit
    BY DEF BatchesSmall
  <2>1. inbox'[w] \subseteq inbox[w] \/ inbox'[w] = OldestQueued
    BY BatchKept
  <2>2. /\ inbox[w] \in SUBSET Runs /\ BatchLimit \in Nat
        /\ IsFiniteSet(inbox[w]) /\ Cardinality(inbox[w]) <= BatchLimit
    BY ConstantsAssumption DEF TypeOK, BatchesSmall, Procs
  <2>3. CASE inbox'[w] \subseteq inbox[w]
    <3>1. /\ IsFiniteSet(inbox'[w])
          /\ Cardinality(inbox'[w]) <= Cardinality(inbox[w])
          /\ Cardinality(inbox'[w]) \in Nat /\ Cardinality(inbox[w]) \in Nat
      BY <2>2, <2>3, FS_Subset, FS_CardinalityType
    <3> QED
      BY <2>2, <3>1
  <2>4. CASE inbox'[w] = OldestQueued
    BY <2>4, OldestQueuedBounded
  <2> QED
    BY <2>1, <2>3, <2>4
<1> QED
  BY <1>1, <1>2, TypeCorrect, PTL DEF Spec
=============================================================================
