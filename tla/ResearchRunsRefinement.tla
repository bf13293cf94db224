----------------------- MODULE ResearchRunsRefinement -----------------------
(***************************************************************************)
(* ResearchRuns implements RunLifecycle when one process serves requests   *)
(* and one executes runs.  If they are one and the same, no request comes  *)
(* late; if they are Apart (compose.yml), RunLifecycle!Late says how.      *)
(***************************************************************************)
EXTENDS ResearchRunsProofs

OneProcess == SingleApi /\ SingleExecutingProcess /\ ~Apart

\* What a SELECT has found still holds when its UPDATE is due: nobody else of
\* the process had a turn in between.
Settled ==
    /\ \A e \in Executors :
        /\ ex[e].pc = "claim" => rows[ex[e].run].status = "queued"
        /\ ex[e].pc = "write" => Live(ex[e].run)
    /\ \A p \in ApiProcs :
        /\ handler[p].op \in {"cancel_select", "cancel_commit"} =>
                rows[handler[p].run].status \in {"queued", "running"}
        /\ handler[p].op = "clarify" =>
                rows[handler[p].run].status = "needs_clarification"

\* Who has the turn: no other coroutine is between two awaits.
LEMMA HandlerAlone ==
  ASSUME OneProcess, OneCoroutine, NEW p \in ApiProcs, handler[p].op # "none",
         NEW e \in Executors
  PROVE  ex[e].pc \in Awaiting
  BY DEF OneProcess, Apart, OneCoroutine

LEMMA ExecutorAlone ==
  ASSUME OneProcess, OneCoroutine, NEW e \in Executors, Execute(e)
  PROVE  /\ \A p \in ApiProcs : handler[p].op = "none"
         /\ \A f \in Executors : f # e => ex[f].pc \in Awaiting
  BY ExecuteTurn DEF OneProcess, Apart, SingleExecutingProcess, OneCoroutine, Busy

LEMMA SettledRequest ==
  ASSUME TypeOK, OneProcess, Settled, NEW p \in ApiProcs, Request(p)
  PROVE  Settled'
<1>1. UNCHANGED <<rows, ex>>
  BY RequestTurn
<1>2. \A o \in ApiProcs : o = p
  BY DEF OneProcess, SingleApi
<1>3. handler \in [ApiProcs -> HandlerState]
  BY DEF TypeOK
<1>4. ASSUME NEW h, handler' = [handler EXCEPT ![p] = h],
             h.op \notin {"cancel_select", "cancel_commit", "clarify"}
      PROVE  Settled'
  BY <1>1, <1>2, <1>3, <1>4 DEF Settled, Live
<1>5. ASSUME NEW ws \in Workspaces, NEW k \in Keys \cup {None}, NEW q \in Requests,
             ReplayResearch(p, ws, k, q) \/ CreateResearch(p, ws, k, q)
      PROVE  Settled'
  BY <1>4, <1>5 DEF ReplayResearch, CreateResearch, Begin, NoHandler
<1>6. ASSUME NEW r \in Runs, CancelGet(p, r)
      PROVE  Settled'
  BY <1>1, <1>2, <1>3, <1>6 DEF CancelGet, Begin, NoHandler, Settled, Live
<1>7. ASSUME NEW r \in Runs, NEW q \in Requests, ClarifySelect(p, r, q)
      PROVE  Settled'
  BY <1>1, <1>2, <1>3, <1>7 DEF ClarifySelect, Begin, NoHandler, Settled, Live
<1>8. ASSUME NEW ws \in Workspaces, PurgeSelect(p, ws)
      PROVE  Settled'
  BY <1>4, <1>8 DEF PurgeSelect, Begin, NoHandler
<1>9. ASSUME NEW ws \in Workspaces, NEW person \in Persons, PrivacySelect(p, ws, person)
      PROVE  Settled'
  BY <1>4, <1>9 DEF PrivacySelect, Begin, NoHandler
<1> QED
  BY <1>5, <1>6, <1>7, <1>8, <1>9 DEF Request

LEMMA SettledHandle ==
  ASSUME TypeOK, OneProcess, OneCoroutine, Settled, NEW p \in ApiProcs, Handle(p)
  PROVE  Settled'
<1>0. /\ handler[p].op # "none"
      /\ UNCHANGED ex
  BY HandleTurn
<1>1. \A e \in Executors : ex'[e].pc \notin {"claim", "write"}
  BY <1>0, HandlerAlone DEF Awaiting
<1>2. \A o \in ApiProcs : o = p
  BY DEF OneProcess, SingleApi
<1>3. handler \in [ApiProcs -> HandlerState]
  BY DEF TypeOK
<1>4. ASSUME NEW h, handler' = [handler EXCEPT ![p] = h],
             h.op \notin {"cancel_select", "cancel_commit", "clarify"}
      PROVE  Settled'
  BY <1>1, <1>2, <1>3, <1>4 DEF Settled
<1>5. CASE CancelSelect(p)
  <2>1. UNCHANGED rows
    BY <1>5 DEF CancelSelect, Begin
  <2>2. CASE Live(handler[p].run)
    <3>1. handler'[p].op = "cancel_commit" /\ handler'[p].run = handler[p].run
      BY <1>3, <1>5, <2>2 DEF CancelSelect, Begin, HandlerState
    <3> QED
      BY <1>1, <1>2, <1>5, <2>1, <3>1 DEF Settled, CancelSelect
  <2>3. CASE ~Live(handler[p].run)
    <3>1. [handler[p] EXCEPT !.op = "audit", !.event = "cancelled"].op = "audit"
      BY <1>3 DEF HandlerState
    <3> QED
      BY <1>4, <1>5, <2>3, <3>1 DEF CancelSelect, Begin
  <2> QED
    BY <2>2, <2>3
<1>6. CASE InsertRun(p) \/ CancelCommit(p) \/ ClarifyCommit(p)
  BY <1>4, <1>6
  DEF InsertRun, CancelCommit, ClarifyCommit, StoreAndAudit, Abort, NoHandler
<1>7. CASE RecordAudit(p) \/ DeleteCommit(p)
  BY <1>4, <1>7 DEF RecordAudit, DeleteCommit, NoHandler
<1> QED
  BY <1>5, <1>6, <1>7 DEF Handle

LEMMA SettledExecute ==
  ASSUME TypeOK, OneProcess, OneCoroutine, Settled, NEW e \in Executors, Execute(e)
  PROVE  Settled'
<1>0. /\ \A p \in ApiProcs : handler'[p].op = "none"
      /\ \A f \in Executors : f # e => ex[f].pc \notin {"claim", "write"}
  BY ExecutorAlone, ExecuteTurn DEF Awaiting
<1>1. ex[e] \in ExecutorState /\ ex \in [Executors -> ExecutorState]
  BY DEF TypeOK
<1>2. ASSUME NEW x, ex' = [ex EXCEPT ![e] = x],
             /\ x.pc = "claim" => rows'[x.run].status = "queued"
             /\ x.pc = "write" => Live(x.run)'
      PROVE  Settled'
  BY <1>0, <1>1, <1>2 DEF Settled, Live
<1>3. CASE ClaimSelect(e)
  <2>1. PICK r \in Runs : Step(e, IF rows[r].status = "queued"
                                  THEN [IdleExecutor EXCEPT !.pc = "claim", !.run = r]
                                  ELSE IdleExecutor)
    BY <1>3 DEF ClaimSelect
  <2> QED
    BY <1>2, <1>3, <2>1 DEF ClaimSelect, Step, IdleExecutor
<1>4. CASE UpdateSelect(e)
  <2>1. PICK x : /\ x = [ex[e] EXCEPT !.pc = IF Live(ex[e].run) THEN "write" ELSE "audit"]
                 /\ ex' = [ex EXCEPT ![e] = x]
                 /\ UNCHANGED rows
    BY <1>4 DEF UpdateSelect, Step
  <2>2. x.run = ex[e].run /\ (x.pc = "write" => Live(x.run)) /\ x.pc # "claim"
    BY <1>1, <2>1 DEF ExecutorState
  <2>3. x.pc = "write" => Live(x.run)'
    BY <2>1, <2>2 DEF Live
  <2> QED
    BY <1>2, <2>1, <2>2, <2>3
<1>5. ASSUME NEW x, Step(e, x), x.pc \notin {"claim", "write"}
      PROVE  Settled'
  BY <1>2, <1>5 DEF Step
<1>6. CASE ClaimCommit(e)
  BY <1>1, <1>5, <1>6 DEF ClaimCommit, Die, IdleExecutor, ExecutorState
<1>7. CASE CheckBudget(e)
  BY <1>1, <1>5, <1>7 DEF CheckBudget, ExecutorState
<1>8. CASE Answer(e)
  BY <1>1, <1>5, <1>8 DEF Answer, ExecutorState
<1>9. CASE UpdateCommit(e)
  BY <1>1, <1>5, <1>9 DEF UpdateCommit, Raise, Die, IdleExecutor, ExecutorState
<1>10. CASE AuditOutcome(e) \/ DispatchDone(e)
  BY <1>1, <1>5, <1>10 DEF AuditOutcome, DispatchDone, IdleExecutor, ExecutorState
<1> QED
  BY <1>3, <1>4, <1>6, <1>7, <1>8, <1>9, <1>10 DEF Execute

LEMMA SettledEnvironment ==
  ASSUME TypeOK, Settled, Environment
  PROVE  Settled'
<1>0. /\ ex \in [Executors -> ExecutorState]
      /\ handler \in [ApiProcs -> HandlerState]
  BY DEF TypeOK
<1>1. UNCHANGED rows
  BY DEF Environment, StoreError, HandlerError, Crash, DayPasses, NewMonth
<1>2. ASSUME NEW e \in Executors, StoreError(e)
      PROVE  Settled'
  <2>1. \A f \in Executors : ex'[f] = ex[f] \/ ex'[f].pc \notin {"claim", "write"}
    BY <1>0, <1>2 DEF StoreError, IdleExecutor, ExecutorState
  <2>2. UNCHANGED handler
    BY <1>2 DEF StoreError
  <2> QED
    BY <1>1, <2>1, <2>2 DEF Settled, Live
<1>3. ASSUME NEW p \in ApiProcs, HandlerError(p)
      PROVE  Settled'
  BY <1>0, <1>1, <1>3 DEF HandlerError, NoHandler, Settled, Live
<1>4. ASSUME NEW p \in Procs, Crash(p)
      PROVE  Settled'
  BY <1>1, <1>4 DEF Crash, NoHandler, IdleExecutor, Settled, Live
<1>5. CASE DayPasses \/ NewMonth
  BY <1>1, <1>5 DEF DayPasses, NewMonth, Settled, Live
<1> QED
  BY <1>2, <1>3, <1>4, <1>5 DEF Environment

LEMMA SettledStep ==
  ASSUME OneProcess, IInv, Settled, [Next]_vars
  PROVE  Settled'
<1>0. TypeOK /\ OneCoroutine
  BY DEF IInv
<1>1. ASSUME NEW w \in Workers, Poll(w)
      PROVE  Settled'
  BY <1>1 DEF Poll, Settled, Live
<1>2. CASE UNCHANGED vars
  BY <1>2 DEF vars, Settled, Live
<1> QED
  BY <1>0, <1>1, <1>2, SettledRequest, SettledHandle, SettledExecute,
     SettledEnvironment DEF Next

LEMMA SettledInitially == Init => Settled
  BY DEF Init, Settled, IdleExecutor, NoHandler

-----------------------------------------------------------------------------
(* The other side of compose_claim: within one process claim is atomic.    *)

LEMMA ClaimedFromQueue ==
  ASSUME IInv, Settled, Next, NEW r \in Runs,
         rows[r].status # "running", rows'[r].status = "running"
  PROVE  rows[r].status = "queued"
<1>0. TypeOK /\ rows \in [Runs -> Row]
  BY DEF IInv, TypeOK
<1>1. ASSUME NEW p \in ApiProcs, Request(p) \/ Handle(p)
      PROVE  FALSE
  <2>1. UNCHANGED rows \/ Handle(p)
    BY <1>1, RequestTurn
  <2>2. ASSUME NEW o \in Runs, NEW row, rows' = [rows EXCEPT ![o] = row],
               row.status # "running"
        PROVE  FALSE
    BY <1>0, <2>2
  <2>3. Usable(handler[p])
    BY <1>0, HandlerUsable
  <2>4. ASSUME InsertRun(p)
        PROVE  FALSE
    <3>1. handler[p].run \in Runs
      BY <2>3, <2>4 DEF InsertRun, Usable
    <3>2. PICK row : /\ row = [NoRow EXCEPT !.ws = handler[p].ws, !.key = handler[p].key,
                                  !.req = handler[p].req, !.status = "queued"]
                     /\ rows' = [rows EXCEPT ![handler[p].run] = row]
      BY <2>4 DEF InsertRun, StoreAndAudit, Abort
    <3>3. row.status # "running"
      BY <3>2 DEF NoRow
    <3> QED
      BY <2>2, <3>1, <3>2, <3>3
  <2>5. ASSUME CancelCommit(p) \/ ClarifyCommit(p)
        PROVE  FALSE
    <3>1. handler[p].run \in Runs /\ rows[handler[p].run] \in Row
      BY <1>0, <2>3, <2>5 DEF CancelCommit, ClarifyCommit, Usable
    <3>2. PICK row : /\ \/ row = [rows[handler[p].run] EXCEPT !.status = "cancelled"]
                        \/ row = [rows[handler[p].run] EXCEPT !.req = handler[p].req,
                                    !.status = "queued", !.result = None, !.cost = 0]
                     /\ rows' = [rows EXCEPT ![handler[p].run] = row]
      BY <2>5 DEF CancelCommit, ClarifyCommit, StoreAndAudit, Abort
    <3>3. row.status # "running"
      BY <3>1, <3>2 DEF Row
    <3> QED
      BY <2>2, <3>1, <3>2, <3>3
  <2>6. ASSUME DeleteCommit(p)
        PROVE  FALSE
    BY <2>6 DEF DeleteCommit, DeletedRow, NoRow
  <2> QED
    BY <1>1, <2>1, <2>4, <2>5, <2>6 DEF Handle, RecordAudit, CancelSelect, Begin
<1>2. ASSUME NEW e \in Executors, Execute(e)
      PROVE  rows[r].status = "queued"
  <2>1. Running(ex[e])
    BY <1>0, ExecutorRunning
  <2>2. CASE ClaimCommit(e)
    <3>1. ex[e].run = r
      BY <1>0, <2>1, <2>2 DEF ClaimCommit, Running, Die
    <3> QED
      BY <2>2, <3>1 DEF ClaimCommit, Settled
  <2>3. CASE UpdateCommit(e)
    <3>1. rows' = [rows EXCEPT ![ex[e].run] = Reported(rows[ex[e].run], ex[e])]
      BY <2>3 DEF UpdateCommit, Raise, Die
    <3>2. ex[e].run \in Runs /\ rows[ex[e].run] \in Row
      BY <1>0, <2>1, <2>3 DEF UpdateCommit, Running
    <3>3. Reported(rows[ex[e].run], ex[e]).status # "running"
      BY <3>2 DEF Reported, Row
    <3> QED
      BY <1>0, <3>1, <3>2, <3>3
  <2> QED
    BY <1>2, <2>2, <2>3
    DEF Execute, ClaimSelect, CheckBudget, Answer, UpdateSelect, AuditOutcome, DispatchDone
<1>3. CASE Environment \/ \E w \in Workers : Poll(w)
  BY <1>3 DEF Poll, Environment, StoreError, HandlerError, Crash, DayPasses, NewMonth
<1> QED
  BY <1>1, <1>2, <1>3 DEF Next

\* RunStore.claim keeps its docstring's promise where the process that claims is
\* the one that serves requests: only a run that is queued at that very moment
\* becomes running.
THEOREM ClaimsAtomic ==
  ASSUME OneProcess
  PROVE  Spec => ClaimsQueuedOnly
<1>1. SingleApi /\ SingleExecutingProcess
  BY DEF OneProcess
<1>2. Spec => []IInv
  BY <1>1, Inductive
<1>3. IInv /\ Settled /\ [Next]_vars => Settled'
  BY SettledStep
<1>4. IInv /\ Settled /\ [Next]_vars =>
        [\A r \in Runs : rows[r].status # "running" /\ rows'[r].status = "running" =>
            rows[r].status = "queued"]_vars
  BY ClaimedFromQueue
<1> QED
  BY <1>2, <1>3, <1>4, SettledInitially, PTL DEF Spec, ClaimsQueuedOnly

-----------------------------------------------------------------------------
(* The refinement mapping: how its parts follow a change.                  *)

LEMMA SameView ==
  ASSUME UNCHANGED <<rows, ex, env>>
  PROVE  UNCHANGED Lifecycle!vars
  BY DEF Lifecycle!vars, View, Progress, Phase, Struck

LEMMA ViewStored ==
  ASSUME rows \in [Runs -> Row], NEW r \in Runs, NEW row, rows' = [rows EXCEPT ![r] = row]
  PROVE  [s \in Runs |-> View(rows'[s])] =
         [[s \in Runs |-> View(rows[s])] EXCEPT ![r] = View(row)]
  OBVIOUS

LEMMA ProgressMoved ==
  ASSUME ex \in [Executors -> ExecutorState], NEW e \in Executors, NEW x,
         ex' = [ex EXCEPT ![e] = x]
  PROVE  [f \in Executors |-> Progress(ex'[f])] =
         [[f \in Executors |-> Progress(ex[f])] EXCEPT ![e] = Progress(x)]
  OBVIOUS

\* A step of an executor that changes neither the rows nor its progress.
LEMMA MoveStutters ==
  ASSUME TypeOK, NEW e \in Executors, NEW x, ex' = [ex EXCEPT ![e] = x],
         Progress(x) = Progress(ex[e]), UNCHANGED <<rows, env>>
  PROVE  UNCHANGED Lifecycle!vars
<1>1. [f \in Executors |-> Progress(ex'[f])] = [f \in Executors |-> Progress(ex[f])]
  BY ProgressMoved DEF TypeOK
<1> QED
  BY <1>1 DEF Lifecycle!vars, View, Struck

LEMMA LiveExists ==
  ASSUME TypeOK, NEW r \in Runs
  PROVE  Live(r) <=> Lifecycle!Exists(r)
  BY DEF TypeOK, Row, Live, Statuses, View, Lifecycle!Exists

\* What the steps are taken from.
RefinementInv == /\ IInv
                 /\ env.fault = 0 => HandInv
                 /\ ~Apart => Settled

LEMMA PhaseAt ==
  ASSUME NEW e \in Executors
  PROVE  /\ Progress(ex[e]).phase = Phase(ex[e])
         /\ Phase(ex[e]) # "none" => Progress(ex[e]).run = ex[e].run
         /\ Phase(ex[e]) = "working" => InFlight(e)
         /\ Phase(ex[e]) = "failing" => InHand(e)
  BY DEF Phase, Progress, Attempting, InFlight, AtWork, InHand

LEMMA FaultStruck ==
  ASSUME TypeOK, env.fault # 0
  PROVE  "fault" \in Struck
  BY DEF TypeOK, Struck

LEMMA HandleRefines ==
  ASSUME RefinementInv, NEW p \in ApiProcs, Handle(p)
  PROVE  Lifecycle!Next \/ UNCHANGED Lifecycle!vars
<1> DEFINE h == handler[p]
<1>0. /\ TypeOK /\ CreatePending
      /\ Usable(h) /\ rows \in [Runs -> Row]
      /\ IInv /\ UNCHANGED <<ex, env>>
  BY HandlerUsable, HandleTurn
  DEF RefinementInv, IInv, TypeOK, Handle, InsertRun, RecordAudit, CancelSelect, CancelCommit,
      ClarifyCommit, DeleteCommit, Begin, Abort, StoreAndAudit
<1>1. UNCHANGED <<[e \in Executors |-> Progress(ex[e])], Struck>>
  BY <1>0 DEF Struck
<1>2. ASSUME UNCHANGED rows
      PROVE  UNCHANGED Lifecycle!vars
  BY <1>0, <1>2, SameView
<1>3. CASE InsertRun(p)
  <2>1. CASE WithKey(h.ws, h.key) = {}
    <3>1. PICK row : /\ row = [NoRow EXCEPT !.ws = h.ws, !.key = h.key, !.req = h.req,
                                            !.status = "queued"]
                     /\ rows' = [rows EXCEPT ![h.run] = row]
      BY <1>3, <2>1 DEF InsertRun, StoreAndAudit
    <3>2. View(row) = Lifecycle!Submitted(h.req)
      BY <3>1 DEF NoRow, View, Lifecycle!Submitted
    <3>3. h.run \in Runs /\ h.req \in Requests /\ rows[h.run].status = "absent"
      BY <1>0, <1>3 DEF InsertRun, Usable, CreatePending
    <3>4. Lifecycle!Create(h.run, h.req)
      BY <1>0, <1>1, <3>1, <3>2, <3>3, ViewStored DEF Lifecycle!Create, View
    <3> QED
      BY <3>3, <3>4 DEF Lifecycle!Next
  <2>2. CASE WithKey(h.ws, h.key) # {}
    BY <1>2, <1>3, <2>2 DEF InsertRun, Abort
  <2> QED
    BY <2>1, <2>2
<1>4. CASE CancelCommit(p)
  <2>0. h.run \in Runs /\ h.op = "cancel_commit"
    BY <1>0, <1>4 DEF CancelCommit, Usable
  <2>1. CASE Live(h.run)
    <3>1. PICK row : /\ row = [rows[h.run] EXCEPT !.status = "cancelled"]
                     /\ rows' = [rows EXCEPT ![h.run] = row]
      BY <1>4, <2>1 DEF CancelCommit, StoreAndAudit
    <3>2. View(row) = [View(rows[h.run]) EXCEPT !.status = "cancelled"]
      BY <1>0, <2>0, <3>1 DEF View, Row
    <3>3. [s \in Runs |-> View(rows'[s])] =
            [[s \in Runs |-> View(rows[s])] EXCEPT ![h.run].status = "cancelled"]
      BY <1>0, <2>0, <3>1, <3>2, ViewStored
    <3>4. CASE rows[h.run].status \in {"queued", "running"}
      <4>1. Lifecycle!Cancel(h.run)
        BY <1>0, <1>1, <2>0, <3>3, <3>4 DEF Lifecycle!Cancel, View
      <4> QED
        BY <2>0, <4>1 DEF Lifecycle!Next
    <3>5. CASE rows[h.run].status \in {"completed", "needs_clarification", "failed"}
      <4>1. Apart
        BY <2>0, <3>5 DEF RefinementInv, Settled
      <4>2. Lifecycle!LateCancel(h.run)
        BY <1>0, <1>1, <2>0, <3>3, <3>5 DEF Lifecycle!LateCancel, View
      <4> QED
        BY <2>0, <4>1, <4>2 DEF Lifecycle!Next, Lifecycle!Late
    <3>6. CASE rows[h.run].status = "cancelled"
      <4>1. rows' = rows
        BY <1>0, <2>0, <3>1, <3>6 DEF Row
      <4> QED
        BY <1>2, <4>1
    <3> QED
      BY <2>1, <3>4, <3>5, <3>6 DEF Live, Statuses
  <2>2. CASE ~Live(h.run)
    BY <1>2, <1>4, <2>2 DEF CancelCommit, Abort
  <2> QED
    BY <2>1, <2>2
<1>5. CASE ClarifyCommit(p)
  <2>0. h.run \in Runs /\ h.req \in Requests /\ h.op = "clarify"
    BY <1>0, <1>5 DEF ClarifyCommit, Usable
  <2>1. CASE Live(h.run)
    <3>1. PICK row :
            /\ row = [rows[h.run] EXCEPT !.req = h.req, !.status = "queued",
                                         !.result = None, !.cost = 0]
            /\ rows' = [rows EXCEPT ![h.run] = row]
      BY <1>5, <2>1 DEF ClarifyCommit, StoreAndAudit
    <3>2. View(row) = Lifecycle!Submitted(h.req)
      BY <1>0, <2>0, <3>1 DEF Row, View, Lifecycle!Submitted
    <3>3. [s \in Runs |-> View(rows'[s])] =
            [[s \in Runs |-> View(rows[s])] EXCEPT ![h.run] = Lifecycle!Submitted(h.req)]
      BY <1>0, <2>0, <3>1, <3>2, ViewStored
    <3>4. CASE rows[h.run].status = "needs_clarification"
      <4>1. Lifecycle!Clarify(h.run, h.req)
        BY <1>0, <1>1, <2>0, <3>3, <3>4 DEF Lifecycle!Clarify, View
      <4> QED
        BY <2>0, <4>1 DEF Lifecycle!Next
    <3>5. CASE rows[h.run].status = "failed"
      <4>1. Apart
        BY <2>0, <3>5 DEF RefinementInv, Settled
      <4>2. env.fault # 0
        BY <2>0, <3>5 DEF RefinementInv, HandInv
      <4>3. "fault" \in Struck
        BY <1>0, <4>2, FaultStruck
      <4>4. \A e \in Executors : InFlight(e) => ex[e].run # h.run
        BY <1>0, <2>0 DEF IInv, ClarifyPending
      <4>5. ASSUME NEW e \in Executors, Progress(ex[e]).run = h.run
            PROVE  Progress(ex[e]).phase # "working"
        BY <4>4, <4>5, PhaseAt
      <4>6. Lifecycle!LateClarify(h.run, h.req)
        BY <1>0, <1>1, <2>0, <3>3, <3>5, <4>3, <4>5 DEF Lifecycle!LateClarify, View
      <4> QED
        BY <2>0, <4>1, <4>6 DEF Lifecycle!Next, Lifecycle!Late
    <3> QED
      BY <1>0, <2>0, <2>1, <3>4, <3>5 DEF IInv, ClarifyPending, Live, Statuses
  <2>2. CASE ~Live(h.run)
    BY <1>2, <1>5, <2>2 DEF ClarifyCommit, Abort
  <2> QED
    BY <2>1, <2>2
<1>6. CASE DeleteCommit(p)
  <2>1. rows' = [r \in Runs |-> IF r \in h.victims /\ Live(r) THEN DeletedRow(rows[r]) ELSE rows[r]]
    BY <1>6 DEF DeleteCommit
  <2>2. \A row : View(DeletedRow(row)) = Lifecycle!Deleted
    BY DEF DeletedRow, NoRow, View, Lifecycle!Deleted, Lifecycle!Absent
  <2>3. Lifecycle!Delete(h.victims)
    BY <1>0, <1>1, <2>1, <2>2, LiveExists DEF Lifecycle!Delete
  <2>4. h.victims \in SUBSET Runs
    BY <1>0 DEF Usable, HandlerState
  <2> QED
    BY <2>3, <2>4 DEF Lifecycle!Next
<1>7. CASE RecordAudit(p) \/ CancelSelect(p)
  BY <1>2, <1>7 DEF RecordAudit, CancelSelect, Begin
<1> QED
  BY <1>3, <1>4, <1>5, <1>6, <1>7 DEF Handle

LEMMA ExecuteRefines ==
  ASSUME RefinementInv, NEW e \in Executors, Execute(e)
  PROVE  Lifecycle!Next \/ UNCHANGED Lifecycle!vars
<1> DEFINE r == ex[e].run
           progress == [f \in Executors |-> Progress(ex[f])]
<1>0. /\ TypeOK /\ Running(ex[e])
      /\ rows \in [Runs -> Row] /\ ex \in [Executors -> ExecutorState]
      /\ IInv /\ UNCHANGED env
  BY ExecutorRunning
  DEF RefinementInv, IInv, TypeOK, Execute, ClaimSelect, ClaimCommit, CheckBudget, Answer, UpdateSelect,
      UpdateCommit, AuditOutcome, DispatchDone, Step, Die, Raise
<1>1. UNCHANGED Struck
  BY <1>0 DEF Struck
<1>2. ASSUME NEW x, ex' = [ex EXCEPT ![e] = x], Progress(x) = Progress(ex[e]), UNCHANGED rows
      PROVE  UNCHANGED Lifecycle!vars
  BY <1>0, <1>2, MoveStutters
<1>3. ASSUME NEW x, ex' = [ex EXCEPT ![e] = x], UNCHANGED rows,
             Phase(ex[e]) = "working", x.run = r, Phase(x) = "failing"
      PROVE  Lifecycle!GiveUp(e)
  <2>1. Progress(x) = [Progress(ex[e]) EXCEPT !.phase = "failing"]
    BY <1>3 DEF Progress
  <2>2. progress[e].phase = "working"
    BY <1>3 DEF Progress
  <2> QED
    BY <1>0, <1>1, <1>3, <2>1, <2>2, ProgressMoved DEF Lifecycle!GiveUp
<1>4. CASE ClaimSelect(e)
  <2>0. PICK s \in Runs : Step(e, IF rows[s].status = "queued"
                                  THEN [IdleExecutor EXCEPT !.pc = "claim", !.run = s]
                                  ELSE IdleExecutor)
    BY <1>4 DEF ClaimSelect
  <2>1. PICK x : /\ x = IF rows[s].status = "queued"
                        THEN [IdleExecutor EXCEPT !.pc = "claim", !.run = s]
                        ELSE IdleExecutor
                 /\ ex' = [ex EXCEPT ![e] = x]
    BY <2>0 DEF Step
  <2>2. Progress(x) = Progress(ex[e])
    BY <1>4, <2>1 DEF ClaimSelect, Progress, Phase, IdleExecutor
  <2> QED
    BY <1>2, <1>4, <2>1, <2>2 DEF ClaimSelect
<1>5. CASE ClaimCommit(e)
  <2>0. r \in Runs /\ ex[e].pc = "claim"
    BY <1>0, <1>5 DEF ClaimCommit, Running
  <2>1. CASE Live(r)
    <3>1. PICK row, x : /\ row = [rows[r] EXCEPT !.status = "running"]
                        /\ rows' = [rows EXCEPT ![r] = row]
                        /\ x = [ex[e] EXCEPT !.pc = "budget", !.req = rows[r].req]
                        /\ ex' = [ex EXCEPT ![e] = x]
      BY <1>5, <2>1 DEF ClaimCommit, Step
    <3>2. View(row) = [View(rows[r]) EXCEPT !.status = "running"]
      BY <1>0, <2>0, <3>1 DEF View, Row
    <3>3. Progress(x) = [phase |-> "working", run |-> r]
      BY <1>0, <2>0, <3>1 DEF Progress, Phase, ExecutorState
    <3>4. progress[e].phase = "none"
      BY <2>0 DEF Progress, Phase
    <3>5. [s \in Runs |-> View(rows'[s])] =
            [[s \in Runs |-> View(rows[s])] EXCEPT ![r].status = "running"]
      BY <1>0, <2>0, <3>1, <3>2, ViewStored
    <3>6. [f \in Executors |-> Progress(ex'[f])] =
            [progress EXCEPT ![e] = [phase |-> "working", run |-> r]]
      BY <1>0, <3>1, <3>3, ProgressMoved
    <3>7. CASE rows[r].status = "queued"
      <4>1. View(rows[r]).status = "queued"
        BY <3>7 DEF View
      <4>2. Lifecycle!Start(e, r)
        BY <1>1, <2>0, <3>4, <3>5, <3>6, <4>1 DEF Lifecycle!Start
      <4> QED
        BY <2>0, <4>2 DEF Lifecycle!Next
    <3>8. CASE rows[r].status = "cancelled"
      <4>1. Apart
        BY <2>0, <3>8 DEF RefinementInv, Settled
      <4>2. View(rows[r]).status = "cancelled"
        BY <3>8 DEF View
      <4>3. \A b \in Executors : b # e /\ InFlight(b) => ex[b].run # r
        BY <1>0, <2>0 DEF IInv, InFlightExclusive, InFlight
      <4>4. \A b \in Executors : b # e /\ InHand(b) /\ ex[b].run = r => env.fault # 0
        BY <2>0 DEF RefinementInv, HandInv, InHand
      <4>5. ASSUME NEW b \in Executors, progress[b].run = r
            PROVE  /\ progress[b].phase # "working"
                   /\ progress[b].phase = "failing" => "fault" \in Struck
        BY <1>0, <3>4, <4>3, <4>4, <4>5, PhaseAt, FaultStruck
      <4>6. Lifecycle!LateStart(e, r)
        BY <1>1, <2>0, <3>4, <3>5, <3>6, <4>2, <4>5 DEF Lifecycle!LateStart
      <4> QED
        BY <2>0, <4>1, <4>6 DEF Lifecycle!Next, Lifecycle!Late
    <3> QED
      BY <1>0, <2>0, <2>1, <3>7, <3>8 DEF IInv, InFlightStatus, Live, Statuses
  <2>2. CASE ~Live(r)
    <3>1. ex' = [ex EXCEPT ![e] = IdleExecutor] /\ UNCHANGED rows
      BY <1>5, <2>2 DEF ClaimCommit, Die, Step
    <3>2. Progress(IdleExecutor) = Progress(ex[e])
      BY <2>0 DEF Progress, Phase, IdleExecutor
    <3> QED
      BY <1>2, <3>1, <3>2
  <2> QED
    BY <2>1, <2>2
<1>6. CASE CheckBudget(e)
  <2>1. PICK x : /\ x = IF Consumed(rows[r].ws) >= Budget
                        THEN [ex[e] EXCEPT !.pc = "select", !.outcome = "budget_exhausted"]
                        ELSE [ex[e] EXCEPT !.pc = "call"]
                 /\ ex' = [ex EXCEPT ![e] = x]
    BY <1>6 DEF CheckBudget, Step
  <2>2. CASE Consumed(rows[r].ws) >= Budget
    <3>1. Phase(ex[e]) = "working" /\ Phase(x) = "failing" /\ x.run = r
      BY <1>0, <1>6, <2>1, <2>2 DEF CheckBudget, Phase, ExecutorState
    <3> QED
      BY <1>3, <1>6, <2>1, <3>1 DEF CheckBudget, Lifecycle!Next
  <2>3. CASE ~(Consumed(rows[r].ws) >= Budget)
    <3>1. Progress(x) = Progress(ex[e])
      BY <1>0, <1>6, <2>1, <2>3 DEF CheckBudget, Progress, Phase, ExecutorState
    <3> QED
      BY <1>2, <1>6, <2>1, <3>1 DEF CheckBudget
  <2> QED
    BY <2>2, <2>3
<1>7. CASE Answer(e)
  <2>1. CASE \E o \in {"completed", "needs_clarification"}, c \in Charges :
                Step(e, [ex[e] EXCEPT !.pc = "select", !.outcome = o, !.cost = c])
    <3>0. PICK o \in {"completed", "needs_clarification"}, c \in Charges :
                Step(e, [ex[e] EXCEPT !.pc = "select", !.outcome = o, !.cost = c])
      BY <2>1
    <3>1. PICK x : /\ x = [ex[e] EXCEPT !.pc = "select", !.outcome = o, !.cost = c]
                   /\ ex' = [ex EXCEPT ![e] = x]
      BY <3>0 DEF Step
    <3>2. Progress(x) = Progress(ex[e])
      BY <1>0, <1>7, <3>1 DEF Answer, Progress, Phase, ExecutorState
    <3> QED
      BY <1>2, <1>7, <3>1, <3>2 DEF Answer
  <2>2. CASE Step(e, [ex[e] EXCEPT !.pc = "select", !.outcome = "failed"])
    <3>1. PICK x : /\ x = [ex[e] EXCEPT !.pc = "select", !.outcome = "failed"]
                   /\ ex' = [ex EXCEPT ![e] = x]
      BY <2>2 DEF Step
    <3>2. Phase(ex[e]) = "working" /\ Phase(x) = "failing" /\ x.run = r
      BY <1>0, <1>7, <3>1 DEF Answer, Phase, ExecutorState
    <3> QED
      BY <1>3, <1>7, <3>1, <3>2 DEF Answer, Lifecycle!Next
  <2> QED
    BY <1>7, <2>1, <2>2 DEF Answer
<1>8. CASE UpdateSelect(e)
  <2>0. r \in Runs /\ ex[e].pc = "select" /\ UNCHANGED rows
    BY <1>0, <1>8 DEF UpdateSelect, Running
  <2>1. PICK x : /\ x = [ex[e] EXCEPT !.pc = IF Live(r) THEN "write" ELSE "audit"]
                 /\ ex' = [ex EXCEPT ![e] = x]
    BY <1>8 DEF UpdateSelect, Step
  <2>2. CASE Live(r)
    <3>1. Progress(x) = Progress(ex[e])
      BY <1>0, <2>0, <2>1, <2>2 DEF Progress, Phase, ExecutorState
    <3> QED
      BY <1>2, <2>0, <2>1, <3>1
  <2>3. CASE ~Live(r)
    <3>1. /\ progress[e].phase \in {"working", "failing"}
          /\ progress[e].run = r
          /\ Progress(x) = [Progress(ex[e]) EXCEPT !.phase = "reported"]
      BY <1>0, <2>0, <2>1, <2>3 DEF Progress, Phase, ExecutorState
    <3>2. Lifecycle!Moot(e)
      BY <1>0, <1>1, <2>0, <2>1, <2>3, <3>1, LiveExists, ProgressMoved
      DEF Lifecycle!Moot
    <3> QED
      BY <3>2 DEF Lifecycle!Next
  <2> QED
    BY <2>2, <2>3
<1>9. CASE UpdateCommit(e)
  <2>0. r \in Runs /\ ex[e].pc = "write" /\ ex[e].outcome \in Outcomes
    BY <1>0, <1>9 DEF UpdateCommit, Running
  <2>1. CASE Live(r)
    <3>1. r \in Runs /\ ex[e].pc = "write" /\ Live(r) /\ ex[e].outcome \in Outcomes
      BY <2>0, <2>1
    <3>2. PICK row, x : /\ row = Reported(rows[r], ex[e])
                        /\ rows' = [rows EXCEPT ![r] = row]
                        /\ x = [ex[e] EXCEPT !.pc = "audit"]
                        /\ ex' = [ex EXCEPT ![e] = x]
      BY <1>9, <3>1 DEF UpdateCommit, Step
    <3>3. /\ progress[e].run = r
          /\ Progress(x) = [Progress(ex[e]) EXCEPT !.phase = "reported"]
      BY <1>0, <3>1, <3>2 DEF Progress, Phase, ExecutorState
    <3>4. CASE ex[e].outcome \in {"completed", "needs_clarification"}
      <4>1. progress[e].phase = "working"
        BY <3>1, <3>4 DEF Progress, Phase
      <4>2. ex[e].req = rows[r].req
        BY <1>0, <3>1, <3>4 DEF IInv, InFlightStatus, Attempting
      <4>3. row = [rows[r] EXCEPT !.status = ex[e].outcome, !.result = rows[r].req,
                                  !.cost = ex[e].cost]
        BY <3>2, <3>4, <4>2 DEF Reported
      <4>4. View(row) = [status |-> ex[e].outcome, req |-> rows[r].req, result |-> rows[r].req]
        BY <1>0, <3>1, <4>3 DEF View, Row
      <4>5. Lifecycle!Exists(r)
        BY <1>0, <3>1, LiveExists
      <4>6. [s \in Runs |-> View(rows[s])]' =
              [[s \in Runs |-> View(rows[s])] EXCEPT ![r] =
                  [status |-> ex[e].outcome, req |-> @.req, result |-> @.req]]
        <5>1. View(rows[r]).req = rows[r].req
          BY DEF View
        <5> QED
          BY <1>0, <3>1, <3>2, <4>4, <5>1, ViewStored
      <4>7. [f \in Executors |-> Progress(ex[f])]' =
              [progress EXCEPT ![e].phase = "reported"]
        BY <1>0, <3>2, <3>3, ProgressMoved
      <4>8. Lifecycle!Report(e, ex[e].outcome)
        BY <1>1, <3>1, <3>3, <3>4, <4>1, <4>5, <4>6, <4>7 DEF Lifecycle!Report
      <4> QED
        BY <3>4, <4>8 DEF Lifecycle!Next
    <3>5. CASE ex[e].outcome \notin {"completed", "needs_clarification"}
      <4>1. progress[e].phase = "failing"
        BY <3>1, <3>5 DEF Progress, Phase
      <4>2. View(row) = [View(rows[r]) EXCEPT !.status = "failed"]
        BY <1>0, <3>1, <3>2, <3>5 DEF Reported, View, Row
      <4>3. Lifecycle!Exists(r)
        BY <1>0, <3>1, LiveExists
      <4>4. [s \in Runs |-> View(rows[s])]' =
              [[s \in Runs |-> View(rows[s])] EXCEPT ![r].status = "failed"]
        BY <1>0, <3>1, <3>2, <4>2, ViewStored
      <4>5. [f \in Executors |-> Progress(ex[f])]' =
              [progress EXCEPT ![e].phase = "reported"]
        BY <1>0, <3>2, <3>3, ProgressMoved
      <4>6. Lifecycle!ReportFailure(e)
        BY <1>1, <3>1, <3>3, <4>1, <4>3, <4>4, <4>5 DEF Lifecycle!ReportFailure
      <4> QED
        BY <4>6 DEF Lifecycle!Next
    <3> QED
      BY <3>4, <3>5
  <2>2. CASE ~Live(r)
    <3>0. Raise(e) /\ Apart
      BY <1>9, <2>0, <2>2 DEF UpdateCommit, RefinementInv, Settled
    <3>1. CASE ex[e].outcome = "failed"
      <4>1. ex' = [ex EXCEPT ![e] = IdleExecutor] /\ UNCHANGED rows
        BY <3>0, <3>1 DEF Raise, Die, Step
      <4>2. progress[e].phase = "failing" /\ progress[e].run = r
        BY <2>0, <3>1 DEF Progress, Phase
      <4>3. Progress(IdleExecutor) = Lifecycle!NoAttempt
        BY DEF Progress, Phase, IdleExecutor, Lifecycle!NoAttempt
      <4>4. ~Lifecycle!Exists(r)
        BY <1>0, <2>0, <2>2, LiveExists
      <4>5. Lifecycle!Abandon(e)
        BY <1>0, <1>1, <4>1, <4>2, <4>3, <4>4, ProgressMoved DEF Lifecycle!Abandon
      <4> QED
        BY <3>0, <4>5 DEF Lifecycle!Next, Lifecycle!Late
    <3>2. CASE ex[e].outcome # "failed"
      <4>1. PICK x : /\ x = [ex[e] EXCEPT !.pc = "select", !.outcome = "failed"]
                     /\ ex' = [ex EXCEPT ![e] = x]
                     /\ UNCHANGED rows
        BY <3>0, <3>2 DEF Raise, Step
      <4>2. x.run = r /\ Phase(x) = "failing"
        BY <1>0, <4>1 DEF Phase, ExecutorState
      <4>3. CASE Phase(ex[e]) = "working"
        BY <1>3, <4>1, <4>2, <4>3 DEF Lifecycle!Next
      <4>4. CASE Phase(ex[e]) = "failing"
        <5>1. Progress(x) = Progress(ex[e])
          BY <4>2, <4>4 DEF Progress
        <5> QED
          BY <1>2, <4>1, <5>1
      <4> QED
        BY <2>0, <4>3, <4>4 DEF Phase
    <3> QED
      BY <3>1, <3>2
  <2> QED
    BY <2>1, <2>2
<1>10. CASE AuditOutcome(e)
  <2>1. PICK x : x = [ex[e] EXCEPT !.pc = "dispatch"] /\ ex' = [ex EXCEPT ![e] = x]
    BY <1>10 DEF AuditOutcome, Step
  <2>2. Progress(x) = Progress(ex[e])
    BY <1>0, <1>10, <2>1 DEF AuditOutcome, Progress, Phase, ExecutorState
  <2> QED
    BY <1>2, <1>10, <2>1, <2>2 DEF AuditOutcome
<1>11. CASE DispatchDone(e)
  <2>1. ex' = [ex EXCEPT ![e] = IdleExecutor] /\ UNCHANGED rows
    BY <1>11 DEF DispatchDone, Step
  <2>2. progress[e].phase = "reported"
    BY <1>11 DEF DispatchDone, Progress, Phase
  <2>3. Progress(IdleExecutor) = Lifecycle!NoAttempt
    BY DEF Progress, Phase, IdleExecutor, Lifecycle!NoAttempt
  <2>4. Lifecycle!End(e)
    BY <1>0, <1>1, <2>1, <2>2, <2>3, ProgressMoved DEF Lifecycle!End
  <2> QED
    BY <2>4 DEF Lifecycle!Next
<1> QED
  BY <1>4, <1>5, <1>6, <1>7, <1>8, <1>9, <1>10, <1>11 DEF Execute

LEMMA StruckBy ==
  ASSUME TypeOK, NEW k \in {"crash", "fault"}, NEW bound, Strike(k, bound)
  PROVE  Struck' = Struck \cup {k}
<1>1. /\ env \in [crash : 0..MaxCrashes, fault : 0..MaxFaults,
                  day : 0..MaxDays, month : 0..MaxMonths]
      /\ MaxCrashes \in Nat /\ MaxFaults \in Nat
  BY ConstantsAssumption DEF TypeOK
<1>2. env'[k] > 0 /\ \A o \in {"crash", "fault"} : o # k => env'[o] = env[o]
  BY <1>1 DEF Strike
<1> QED
  BY <1>2 DEF Struck

LEMMA EnvironmentRefines ==
  ASSUME TypeOK, Environment
  PROVE  Lifecycle!Next \/ UNCHANGED Lifecycle!vars
<1> DEFINE progress == [f \in Executors |-> Progress(ex[f])]
<1>0. /\ ex \in [Executors -> ExecutorState]
      /\ UNCHANGED [s \in Runs |-> View(rows[s])]
  BY DEF TypeOK, Environment, StoreError, HandlerError, Crash, DayPasses, NewMonth
<1>1. ASSUME NEW e \in Executors, StoreError(e)
      PROVE  Lifecycle!DatabaseError
  <2> DEFINE report == ex[e].pc # "claim" /\ ex[e].outcome # "failed"
  <2>1. Struck' = Struck \cup {"fault"}
    BY <1>1, StruckBy DEF StoreError
  <2>2. PICK x : /\ x = IF report
                        THEN [ex[e] EXCEPT !.pc = "select", !.outcome = "failed"]
                        ELSE IdleExecutor
                 /\ ex' = [ex EXCEPT ![e] = x]
    BY <1>1 DEF StoreError
  <2>3. progress' = [progress EXCEPT ![e] = Progress(x)]
    BY <1>0, <2>2, ProgressMoved
  <2>4. CASE report
    <3>1. progress[e].phase # "none" /\ progress[e].run = ex[e].run
      BY <1>0, <1>1, <2>4 DEF StoreError, Progress, Phase, ExecutorState
    <3>2. Progress(x) = [Progress(ex[e]) EXCEPT !.phase = "failing"]
      BY <1>0, <1>1, <2>2, <2>4, <3>1 DEF Progress, Phase, ExecutorState
    <3> QED
      BY <1>0, <2>1, <2>3, <3>1, <3>2 DEF Lifecycle!DatabaseError
  <2>5. CASE ~report
    <3>1. Progress(x) = Lifecycle!NoAttempt
      BY <2>2, <2>5 DEF Progress, Phase, IdleExecutor, Lifecycle!NoAttempt
    <3>2. CASE progress[e].phase = "none"
      <4>1. Progress(ex[e]) = Progress(x)
        BY <3>1, <3>2 DEF Progress, Lifecycle!NoAttempt
      <4> QED
        BY <1>0, <2>1, <2>3, <4>1 DEF Lifecycle!DatabaseError
    <3>3. CASE progress[e].phase # "none"
      BY <1>0, <2>1, <2>3, <3>1, <3>3 DEF Lifecycle!DatabaseError
    <3> QED
      BY <3>2, <3>3
  <2> QED
    BY <2>4, <2>5
<1>2. ASSUME NEW p \in ApiProcs, HandlerError(p)
      PROVE  Lifecycle!DatabaseError
  <2>1. Struck' = Struck \cup {"fault"}
    BY <1>2, StruckBy DEF HandlerError
  <2> QED
    BY <1>0, <1>2, <2>1 DEF HandlerError, Lifecycle!DatabaseError
<1>3. ASSUME NEW p \in Procs, Crash(p)
      PROVE  Lifecycle!Crash(Hosted(p))
  <2>1. Struck' = Struck \cup {"crash"}
    BY <1>3, StruckBy DEF Crash
  <2>2. Progress(IdleExecutor) = Lifecycle!NoAttempt
    BY DEF Progress, Phase, IdleExecutor, Lifecycle!NoAttempt
  <2>3. progress' = [e \in Executors |->
                        IF e \in Hosted(p) THEN Lifecycle!NoAttempt ELSE progress[e]]
    BY <1>3, <2>2 DEF Crash, Hosted
  <2> QED
    BY <1>0, <2>1, <2>3 DEF Lifecycle!Crash
<1>4. CASE DayPasses \/ NewMonth
  <2>1. Struck' = Struck
    BY <1>4 DEF DayPasses, NewMonth, Strike, Struck, TypeOK
  <2> QED
    BY <1>0, <1>4, <2>1 DEF DayPasses, NewMonth, Lifecycle!vars
<1> QED
  BY <1>1, <1>2, <1>3, <1>4 DEF Environment, Lifecycle!Next, Hosted

LEMMA StepRefines ==
  ASSUME RefinementInv, [Next]_vars
  PROVE  [Lifecycle!Next]_(Lifecycle!vars)
<1>1. ASSUME NEW p \in ApiProcs, Request(p)
      PROVE  UNCHANGED Lifecycle!vars
  <2>1. UNCHANGED <<rows, ex, env>>
    BY <1>1 DEF Request, ReplayResearch, CreateResearch, CancelGet, ClarifySelect,
                PurgeSelect, PrivacySelect, Begin
  <2> QED
    BY <2>1, SameView
<1>2. ASSUME NEW w \in Workers, Poll(w)
      PROVE  UNCHANGED Lifecycle!vars
  BY <1>2, SameView DEF Poll
<1>3. CASE UNCHANGED vars
  BY <1>3, SameView DEF vars
<1>4. CASE Environment
  BY <1>4, EnvironmentRefines DEF RefinementInv, IInv
<1> QED
  BY <1>1, <1>2, <1>3, <1>4, HandleRefines, ExecuteRefines DEF Next

LEMMA InitRefines == Init => Lifecycle!Init
  BY DEF Init, Lifecycle!Init, Lifecycle!Absent, Lifecycle!NoAttempt, NoRow, View,
         IdleExecutor, Progress, Phase, Struck

\* Although claim, RunStore.update and requeue_with_request are a SELECT and an
\* UPDATE each, every request, claim and report looks like one step: on time if
\* all are the work of one process, and at worst late if the executor is in
\* another process than the handlers.
THEOREM Refinement ==
  ASSUME SingleApi, SingleExecutingProcess
  PROVE  Spec => ImplementsLifecycle
<1>1. Spec => []IInv
  BY Inductive
<1>2. Spec => [](env.fault = 0 => HandInv)
  BY HandsKept
<1>3. Init => (~Apart => Settled)
  BY SettledInitially
<1>4. IInv /\ (~Apart => Settled) /\ [Next]_vars => (~Apart => Settled)'
  BY SettledStep DEF OneProcess, Apart
<1>5. IInv /\ (env.fault = 0 => HandInv) /\ (~Apart => Settled) /\ [Next]_vars =>
        [Lifecycle!Next]_(Lifecycle!vars)
  BY StepRefines DEF RefinementInv
<1> QED
  BY <1>1, <1>2, <1>3, <1>4, <1>5, InitRefines, PTL
  DEF Spec, ImplementsLifecycle, Lifecycle!Spec

\* So what RunLifecycle promises holds of research_runs.
Promises == INSTANCE RunLifecycleProofs WITH
    Attempts <- Executors,
    run <- [r \in Runs |-> View(rows[r])],
    attempt <- [e \in Executors |-> Progress(ex[e])],
    struck <- Struck

LEMMA SamePromises == Lifecycle!Spec => Promises!Spec
<1>1. Lifecycle!Init => Promises!Init
  BY DEF Lifecycle!Init, Promises!Init, Lifecycle!Absent, Promises!Absent,
         Lifecycle!NoAttempt, Promises!NoAttempt
<1>2. Lifecycle!Next => Promises!Next
  BY DEF Lifecycle!Next, Promises!Next,
      Lifecycle!Create, Promises!Create, Lifecycle!Clarify, Promises!Clarify,
      Lifecycle!Cancel, Promises!Cancel, Lifecycle!Delete, Promises!Delete,
      Lifecycle!Start, Promises!Start, Lifecycle!Report, Promises!Report,
      Lifecycle!GiveUp, Promises!GiveUp, Lifecycle!ReportFailure,
      Promises!ReportFailure, Lifecycle!Moot, Promises!Moot, Lifecycle!End,
      Promises!End, Lifecycle!Crash, Promises!Crash, Lifecycle!DatabaseError,
      Promises!DatabaseError, Lifecycle!Submitted, Promises!Submitted,
      Lifecycle!Exists, Promises!Exists, Lifecycle!Deleted, Promises!Deleted,
      Lifecycle!Absent, Promises!Absent, Lifecycle!NoAttempt, Promises!NoAttempt,
      Lifecycle!Late, Promises!Late, Lifecycle!LateCancel, Promises!LateCancel,
      Lifecycle!LateClarify, Promises!LateClarify, Lifecycle!LateStart,
      Promises!LateStart, Lifecycle!Abandon, Promises!Abandon
<1>3. UNCHANGED Lifecycle!vars => UNCHANGED Promises!vars
  BY DEF Lifecycle!vars, Promises!vars
<1> QED
  BY <1>1, <1>2, <1>3, PTL DEF Lifecycle!Spec, Promises!Spec

\* A completed run keeps its status and its result until it is deleted, unless
\* the database fails after it was stored and _execute's except takes it back,
\* or a cancel request of another process comes late.
THEOREM CompletedRunsLast ==
  ASSUME SingleApi, SingleExecutingProcess
  PROVE  Spec => Promises!CompletedIsFinal
  BY SamePromises, Refinement, Promises!CompletedLasts DEF ImplementsLifecycle

\* A cancelled run gets another status only from an attempt that had begun
\* before (cancel_research): nobody queues it again, and only an executor of
\* another process, whose claim comes late, takes it up.
THEOREM CancelledRunsLast ==
  ASSUME SingleApi, SingleExecutingProcess
  PROVE  Spec => Promises!CancelledLeftOnlyByAttempt
  BY SamePromises, Refinement, Promises!CancellationsLast DEF ImplementsLifecycle
=============================================================================
