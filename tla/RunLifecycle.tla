---------------------------- MODULE RunLifecycle ----------------------------
(***************************************************************************)
(* What clients may rely on about research runs, whatever the API does     *)
(* behind it: every request and every report takes effect at one instant,  *)
(* only a queued run is taken up, only what an attempt has found becomes a *)
(* result, and what is over is taken back only after a database error.     *)
(* ResearchRuns implements it when one process serves the requests and one *)
(* executes the runs (ImplementsLifecycle): there is no claim apart from   *)
(* its commit, no SELECT apart from its UPDATE, no event loop, no queue    *)
(* and no audit log.  If these are two processes (Apart), a request or a   *)
(* claim may take effect late, and then only in the ways listed as Late.   *)
(***************************************************************************)
CONSTANTS Runs, Requests, None,
          Attempts,   \* what can attempt a run
          Apart       \* requests and attempts are the work of two processes

VARIABLES
    run,      \* what GET /v1/research/{id} shows
    attempt,  \* the run each attempt is about, and how far it is
    struck    \* what has gone wrong so far: "crash", "fault" (of the database)

vars == <<run, attempt, struck>>

Absent == [status |-> "absent", req |-> None, result |-> None]
Deleted == [Absent EXCEPT !.status = "deleted"]
Exists(r) == run[r].status \notin {"absent", "deleted"}

NoAttempt == [phase |-> "none", run |-> None]

Init ==
    /\ run = [r \in Runs |-> Absent]
    /\ attempt = [a \in Attempts |-> NoAttempt]
    /\ struck = {}

-----------------------------------------------------------------------------
(* Clients.                                                                *)

Submitted(q) == [status |-> "queued", req |-> q, result |-> None]

Create(r, q) ==
    /\ run[r].status = "absent"
    /\ run' = [run EXCEPT ![r] = Submitted(q)]
    /\ UNCHANGED <<attempt, struck>>

Cancel(r) ==
    /\ run[r].status \in {"queued", "running"}
    /\ run' = [run EXCEPT ![r].status = "cancelled"]
    /\ UNCHANGED <<attempt, struck>>

Clarify(r, q) ==
    /\ run[r].status = "needs_clarification"
    /\ run' = [run EXCEPT ![r] = Submitted(q)]
    /\ UNCHANGED <<attempt, struck>>

\* a purge or a privacy request takes several runs at once
Delete(S) ==
    /\ run' = [r \in Runs |-> IF r \in S /\ Exists(r) THEN Deleted ELSE run[r]]
    /\ UNCHANGED <<attempt, struck>>

-----------------------------------------------------------------------------
(* Attempts: "working", then "failing" if nothing is found, then "reported". *)

Start(a, r) ==
    /\ attempt[a].phase = "none"
    /\ run[r].status = "queued"
    /\ run' = [run EXCEPT ![r].status = "running"]
    /\ attempt' = [attempt EXCEPT ![a] = [phase |-> "working", run |-> r]]
    /\ UNCHANGED struck

GiveUp(a) ==
    /\ attempt[a].phase = "working"
    /\ attempt' = [attempt EXCEPT ![a].phase = "failing"]
    /\ UNCHANGED <<run, struck>>

\* The result is about the request the run shows at that instant.
Report(a, outcome) ==
    LET r == attempt[a].run IN
    /\ attempt[a].phase = "working" /\ Exists(r)
    /\ outcome \in {"completed", "needs_clarification"}
    /\ run' = [run EXCEPT ![r] = [status |-> outcome, req |-> @.req, result |-> @.req]]
    /\ attempt' = [attempt EXCEPT ![a].phase = "reported"]
    /\ UNCHANGED struck

ReportFailure(a) ==
    LET r == attempt[a].run IN
    /\ attempt[a].phase = "failing" /\ Exists(r)
    /\ run' = [run EXCEPT ![r].status = "failed"]
    /\ attempt' = [attempt EXCEPT ![a].phase = "reported"]
    /\ UNCHANGED struck

\* Nothing is left to report on.
Moot(a) ==
    /\ attempt[a].phase \in {"working", "failing"} /\ ~Exists(attempt[a].run)
    /\ attempt' = [attempt EXCEPT ![a].phase = "reported"]
    /\ UNCHANGED <<run, struck>>

End(a) ==
    /\ attempt[a].phase = "reported"
    /\ attempt' = [attempt EXCEPT ![a] = NoAttempt]
    /\ UNCHANGED <<run, struck>>

-----------------------------------------------------------------------------
(* What may go wrong: a crash loses attempts; a database error loses one,  *)
(* or turns it into a failure, even if it has reported already.            *)

Crash(A) ==
    /\ struck' = struck \cup {"crash"}
    /\ attempt' = [a \in Attempts |-> IF a \in A THEN NoAttempt ELSE attempt[a]]
    /\ UNCHANGED run

DatabaseError ==
    /\ struck' = struck \cup {"fault"}
    /\ \/ UNCHANGED attempt
       \/ \E a \in Attempts :
            /\ attempt[a].phase # "none"
            /\ \/ attempt' = [attempt EXCEPT ![a] = NoAttempt]
               \/ attempt' = [attempt EXCEPT ![a].phase = "failing"]
    /\ UNCHANGED run

-----------------------------------------------------------------------------
(* What may come late: the run has moved on since somebody looked at it.   *)

\* cancelled when it was over already; result and request stay
LateCancel(r) ==
    /\ run[r].status \in {"completed", "needs_clarification", "failed"}
    /\ run' = [run EXCEPT ![r].status = "cancelled"]
    /\ UNCHANGED <<attempt, struck>>

\* clarified when its attempt had been turned into a failure
LateClarify(r, q) ==
    /\ run[r].status = "failed" /\ "fault" \in struck
    /\ \A a \in Attempts : attempt[a].run = r => attempt[a].phase # "working"
    /\ run' = [run EXCEPT ![r] = Submitted(q)]
    /\ UNCHANGED <<attempt, struck>>

\* taken up when it was cancelled; still nobody else is at it
LateStart(a, r) ==
    /\ attempt[a].phase = "none"
    /\ run[r].status = "cancelled"
    /\ \A b \in Attempts : attempt[b].run = r =>
            /\ attempt[b].phase # "working"
            /\ attempt[b].phase = "failing" => "fault" \in struck
    /\ run' = [run EXCEPT ![r].status = "running"]
    /\ attempt' = [attempt EXCEPT ![a] = [phase |-> "working", run |-> r]]
    /\ UNCHANGED struck

\* deleted when a failure was about to be reported
Abandon(a) ==
    /\ attempt[a].phase = "failing" /\ ~Exists(attempt[a].run)
    /\ attempt' = [attempt EXCEPT ![a] = NoAttempt]
    /\ UNCHANGED <<run, struck>>

Late ==
    /\ Apart
    /\ \/ \E r \in Runs : LateCancel(r)
       \/ \E r \in Runs, q \in Requests : LateClarify(r, q)
       \/ \E a \in Attempts, r \in Runs : LateStart(a, r)
       \/ \E a \in Attempts : Abandon(a)

-----------------------------------------------------------------------------
Next ==
    \/ \E r \in Runs, q \in Requests : Create(r, q) \/ Clarify(r, q)
    \/ \E r \in Runs : Cancel(r)
    \/ \E S \in SUBSET Runs : Delete(S)
    \/ \E a \in Attempts, r \in Runs : Start(a, r)
    \/ \E a \in Attempts, o \in {"completed", "needs_clarification"} : Report(a, o)
    \/ \E a \in Attempts : GiveUp(a) \/ ReportFailure(a) \/ Moot(a) \/ End(a)
    \/ \E A \in SUBSET Attempts : Crash(A)
    \/ DatabaseError
    \/ Late

Spec == Init /\ [][Next]_vars

-----------------------------------------------------------------------------
(* What follows from it (RunLifecycleProofs).                              *)

Working(a) == attempt[a].phase = "working"

\* No two attempts work at one run, and a run is waiting for a client, or
\* over, only when none does.
OneAttempt ==
    /\ \A a, b \in Attempts :
        a # b /\ Working(a) /\ Working(b) => attempt[a].run # attempt[b].run
    /\ \A a \in Attempts : Working(a) =>
        run[attempt[a].run].status \in {"running", "cancelled", "failed", "deleted"}

\* Unless the database fails, a completed run keeps its result until it is
\* deleted (what GET /v1/research/{id} has shown once stays shown); a request of
\* another process that comes late can only mark it as cancelled.
CompletedIsFinal ==
    [][struck' \cap {"fault"} = {} =>
        \A r \in Runs : run[r].status = "completed" =>
            \/ run'[r] = run[r]
            \/ run'[r] = Deleted
            \/ Apart /\ run'[r] = [run[r] EXCEPT !.status = "cancelled"]]_vars

\* A cancelled run gets another status only from an attempt that had begun
\* before (cancel_research); one of another process may begin all the same, if
\* nobody is working at the run.
CancelledLeftOnlyByAttempt ==
    [][\A r \in Runs : run[r].status = "cancelled" =>
        \/ run'[r].status \in {"cancelled", "deleted"}
        \/ \E a \in Attempts :
            attempt[a].run = r /\ attempt[a].phase \in {"working", "failing"}
        \/ /\ Apart /\ run'[r] = [run[r] EXCEPT !.status = "running"]
           /\ \E a \in Attempts :
                attempt[a].phase = "none" /\ attempt'[a] = [phase |-> "working", run |-> r]]_vars
=============================================================================
