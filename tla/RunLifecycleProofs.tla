------------------------- MODULE RunLifecycleProofs -------------------------
(* What clients may rely on follows from RunLifecycle.                     *)
EXTENDS RunLifecycle, TLAPS

\* The attempts in one of the phases P are at different runs, which are neither
\* waiting for a client, nor for an attempt, nor completed.
Exclusive(P) ==
    /\ \A a, b \in Attempts :
        a # b /\ attempt[a].phase \in P /\ attempt[b].phase \in P =>
            attempt[a].run # attempt[b].run
    /\ \A a \in Attempts : attempt[a].phase \in P =>
        run[attempt[a].run].status \in {"running", "cancelled", "failed", "deleted"}

Statuses == {"absent", "queued", "running", "needs_clarification", "completed",
             "failed", "cancelled", "deleted"}
Row == [status : Statuses, req : Requests \cup {None}, result : Requests \cup {None}]

Shapes ==
    /\ run \in [Runs -> Row]
    /\ attempt \in [Attempts -> [phase : {"none", "working", "failing", "reported"},
                                 run : Runs \cup {None}]]
    /\ \A a \in Attempts : attempt[a].phase # "none" => attempt[a].run \in Runs

\* A failure can be late only after a database error.
LInv ==
    /\ Shapes
    /\ Exclusive({"working"})
    /\ "fault" \notin struck => Exclusive({"working", "failing"})

LEMMA LInvInitially == Init => LInv
  BY SMTT(30) DEF Init, LInv, Shapes, Row, Statuses, Exclusive, Absent, NoAttempt

LEMMA StatusStored ==
  ASSUME NEW shown \in [Runs -> Row], NEW r \in Runs, NEW status \in Statuses
  PROVE  [shown EXCEPT ![r].status = status] \in [Runs -> Row]
<1>1. [shown[r] EXCEPT !.status = status] \in Row
  BY DEF Row
<1> QED
  BY <1>1

LEMMA ShapesKept ==
  ASSUME Shapes, Next
  PROVE  Shapes'
<1>1. ASSUME NEW r \in Runs, NEW q \in Requests, Create(r, q) \/ Clarify(r, q)
      PROVE  Shapes'
  BY <1>1 DEF Shapes, Row, Statuses, Create, Clarify, Submitted
<1>2. ASSUME NEW r \in Runs, Cancel(r)
      PROVE  Shapes'
  BY <1>2 DEF Shapes, Row, Statuses, Cancel
<1>3. ASSUME NEW S \in SUBSET Runs, Delete(S)
      PROVE  Shapes'
  BY <1>3 DEF Shapes, Row, Statuses, Delete, Deleted, Absent
<1>4. ASSUME NEW a \in Attempts, NEW r \in Runs, Start(a, r)
      PROVE  Shapes'
  <2>1. run' \in [Runs -> Row]
    BY <1>4, StatusStored DEF Shapes, Statuses, Start
  <2> QED
    BY <1>4, <2>1 DEF Shapes, Start
<1>5. ASSUME NEW a \in Attempts,
             NEW o \in {"completed", "needs_clarification"}, Report(a, o)
      PROVE  Shapes'
  <2>1. attempt[a].run \in Runs
    BY <1>5 DEF Shapes, Report
  <2>2. run' \in [Runs -> Row]
    BY <1>5, <2>1 DEF Shapes, Row, Statuses, Report
  <2> QED
    BY <1>5, <2>2 DEF Shapes, Report
<1>6. ASSUME NEW a \in Attempts, ReportFailure(a)
      PROVE  Shapes'
  <2>1. attempt[a].run \in Runs
    BY <1>6 DEF Shapes, ReportFailure
  <2>2. run' \in [Runs -> Row]
    BY <1>6, <2>1, StatusStored DEF Shapes, Statuses, ReportFailure
  <2> QED
    BY <1>6, <2>2 DEF Shapes, ReportFailure
<1>7. ASSUME NEW a \in Attempts, GiveUp(a) \/ Moot(a) \/ End(a)
      PROVE  Shapes'
  BY <1>7 DEF Shapes, GiveUp, Moot, End, NoAttempt
<1>8. ASSUME NEW A \in SUBSET Attempts, Crash(A)
      PROVE  Shapes'
  BY <1>8 DEF Shapes, Crash, NoAttempt
<1>9. CASE DatabaseError
  BY <1>9 DEF Shapes, DatabaseError, NoAttempt
<1>10. ASSUME NEW r \in Runs, LateCancel(r)
       PROVE  Shapes'
  BY <1>10, StatusStored DEF Shapes, Statuses, LateCancel
<1>11. ASSUME NEW r \in Runs, NEW q \in Requests, LateClarify(r, q)
       PROVE  Shapes'
  BY <1>11 DEF Shapes, Row, Statuses, LateClarify, Submitted
<1>12. ASSUME NEW a \in Attempts, NEW r \in Runs, LateStart(a, r)
       PROVE  Shapes'
  <2>1. run' \in [Runs -> Row]
    BY <1>12, StatusStored DEF Shapes, Statuses, LateStart
  <2> QED
    BY <1>12, <2>1 DEF Shapes, LateStart
<1>13. ASSUME NEW a \in Attempts, Abandon(a)
       PROVE  Shapes'
  BY <1>13 DEF Shapes, Abandon, NoAttempt
<1>14. CASE Late
  BY <1>10, <1>11, <1>12, <1>13, <1>14 DEF Late
<1> QED
  BY <1>1, <1>2, <1>3, <1>4, <1>5, <1>6, <1>7, <1>8, <1>9, <1>14 DEF Next

\* Whatever the phases: an attempt that stays in P stays at its run.
LEMMA ExclusiveKept ==
  ASSUME Shapes, Next, NEW P, P \in {{"working"}, {"working", "failing"}}, Exclusive(P),
         P = {"working"} \/ "fault" \notin struck'
  PROVE  Exclusive(P)'
<1>1. ASSUME NEW r \in Runs, NEW q \in Requests, Create(r, q) \/ Clarify(r, q)
      PROVE  Exclusive(P)'
  BY <1>1 DEF Shapes, Exclusive, Create, Clarify, Submitted
<1>2. ASSUME NEW r \in Runs, Cancel(r)
      PROVE  Exclusive(P)'
  BY <1>2 DEF Shapes, Exclusive, Cancel
<1>3. ASSUME NEW S \in SUBSET Runs, Delete(S)
      PROVE  Exclusive(P)'
  BY <1>3 DEF Shapes, Exclusive, Delete, Deleted, Absent
<1>4. ASSUME NEW a \in Attempts, NEW r \in Runs, Start(a, r)
      PROVE  Exclusive(P)'
  BY <1>4 DEF Shapes, Exclusive, Start
<1>5. ASSUME NEW a \in Attempts,
             NEW o \in {"completed", "needs_clarification"}, Report(a, o)
      PROVE  Exclusive(P)'
  BY <1>5 DEF Shapes, Exclusive, Report
<1>6. ASSUME NEW a \in Attempts, ReportFailure(a)
      PROVE  Exclusive(P)'
  BY <1>6 DEF Shapes, Exclusive, ReportFailure
<1>7. ASSUME NEW a \in Attempts, GiveUp(a) \/ Moot(a) \/ End(a)
      PROVE  Exclusive(P)'
  <2>1. CASE GiveUp(a)
    BY <2>1 DEF Shapes, Exclusive, GiveUp
  <2>2. CASE Moot(a)
    BY <2>2 DEF Shapes, Exclusive, Moot
  <2>3. CASE End(a)
    BY <2>3 DEF Shapes, Exclusive, End, NoAttempt
  <2> QED
    BY <1>7, <2>1, <2>2, <2>3
<1>8. ASSUME NEW A \in SUBSET Attempts, Crash(A)
      PROVE  Exclusive(P)'
  BY <1>8 DEF Shapes, Exclusive, Crash, NoAttempt
<1>9. CASE DatabaseError
  BY <1>9 DEF Shapes, Exclusive, DatabaseError, NoAttempt
<1>10. ASSUME NEW r \in Runs, LateCancel(r)
       PROVE  Exclusive(P)'
  BY <1>10 DEF Shapes, Exclusive, LateCancel
<1>11. ASSUME NEW r \in Runs, NEW q \in Requests, LateClarify(r, q)
       PROVE  Exclusive(P)'
  <2>1. P = {"working"}
    BY <1>11 DEF LateClarify
  <2>2. \A s \in Runs : s # r => run'[s] = run[s]
    BY <1>11 DEF Shapes, LateClarify
  <2> QED
    BY <1>11, <2>1, <2>2 DEF Shapes, Exclusive, LateClarify
<1>12. ASSUME NEW a \in Attempts, NEW r \in Runs, LateStart(a, r)
       PROVE  Exclusive(P)'
  <2>1. \A b \in Attempts : attempt[b].run = r => attempt[b].phase \notin P
    BY <1>12 DEF LateStart
  <2>2. /\ \A s \in Runs : s # r => run'[s] = run[s]
        /\ run'[r].status = "running"
    BY <1>12 DEF Shapes, Row, LateStart
  <2>3. /\ \A b \in Attempts : b # a => attempt'[b] = attempt[b]
        /\ attempt'[a].run = r
    BY <1>12 DEF Shapes, LateStart
  <2> QED
    BY <2>1, <2>2, <2>3 DEF Shapes, Exclusive
<1>13. ASSUME NEW a \in Attempts, Abandon(a)
       PROVE  Exclusive(P)'
  BY <1>13 DEF Shapes, Exclusive, Abandon, NoAttempt
<1>14. CASE Late
  BY <1>10, <1>11, <1>12, <1>13, <1>14 DEF Late
<1> QED
  BY <1>1, <1>2, <1>3, <1>4, <1>5, <1>6, <1>7, <1>8, <1>9, <1>14 DEF Next

LEMMA LInvIsInductive == LInv /\ [Next]_vars => LInv'
<1> SUFFICES ASSUME LInv, [Next]_vars PROVE LInv'
  OBVIOUS
<1>1. CASE Next
  <2>2. "fault" \in struck => "fault" \in struck'
    BY <1>1 DEF Next, Create, Clarify, Cancel, Delete, Start, Report, GiveUp,
                ReportFailure, Moot, End, Crash, DatabaseError, Late, LateCancel,
                LateClarify, LateStart, Abandon
  <2>3. Exclusive({"working"})'
    BY <1>1, ExclusiveKept DEF LInv
  <2>4. "fault" \notin struck' => Exclusive({"working", "failing"})'
    BY <1>1, <2>2, ExclusiveKept DEF LInv
  <2> QED
    BY <1>1, <2>3, <2>4, ShapesKept DEF LInv
<1>2. CASE UNCHANGED vars
  BY <1>2 DEF vars, LInv, Shapes, Exclusive
<1> QED
  BY <1>1, <1>2

\* No run is worked at by two attempts, nor while a client is to act.
THEOREM OneAttemptAtATime == Spec => []OneAttempt
<1>1. LInv => OneAttempt
  BY DEF LInv, Exclusive, OneAttempt, Working
<1> QED
  BY <1>1, LInvInitially, LInvIsInductive, PTL DEF Spec

LEMMA CompletedKept ==
  ASSUME LInv, Next, "fault" \notin struck', NEW r \in Runs, run[r].status = "completed"
  PROVE  \/ run'[r] = run[r]
         \/ run'[r] = Deleted
         \/ Apart /\ run'[r] = [run[r] EXCEPT !.status = "cancelled"]
<1>0. "fault" \notin struck
  BY DEF Next, Create, Clarify, Cancel, Delete, Start, Report, GiveUp,
         ReportFailure, Moot, End, Crash, DatabaseError, Late, LateCancel,
                LateClarify, LateStart, Abandon
<1>1. \A a \in Attempts :
        attempt[a].phase \in {"working", "failing"} => attempt[a].run # r
  BY <1>0 DEF LInv, Exclusive
<1>2. ASSUME NEW s \in Runs, NEW q \in Requests, Create(s, q) \/ Clarify(s, q)
      PROVE  run'[r] = run[r]
  BY <1>2 DEF LInv, Shapes, Create, Clarify
<1>3. ASSUME NEW s \in Runs, NEW a \in Attempts, Start(a, s)
      PROVE  run'[r] = run[r]
  BY <1>3 DEF LInv, Shapes, Start
<1>4. ASSUME NEW s \in Runs, Cancel(s)
      PROVE  run'[r] = run[r]
  BY <1>4 DEF LInv, Shapes, Cancel
<1>5. ASSUME NEW a \in Attempts, NEW o, Report(a, o)
      PROVE  run'[r] = run[r]
  BY <1>1, <1>5 DEF LInv, Shapes, Report
<1>6. ASSUME NEW a \in Attempts, ReportFailure(a)
      PROVE  run'[r] = run[r]
  BY <1>1, <1>6 DEF LInv, Shapes, ReportFailure
<1>7. ASSUME NEW S, Delete(S)
      PROVE  run'[r] = run[r] \/ run'[r] = Deleted
  BY <1>7 DEF Delete
<1>8. ASSUME Late
      PROVE  run'[r] = run[r] \/ (Apart /\ run'[r] = [run[r] EXCEPT !.status = "cancelled"])
  BY <1>8 DEF LInv, Shapes, Late, LateCancel, LateClarify, LateStart, Abandon
<1> QED
  BY <1>2, <1>3, <1>4, <1>5, <1>6, <1>7, <1>8
     DEF Next, GiveUp, Moot, End, Crash, DatabaseError

\* What has been shown as completed stays shown until it is deleted, or
\* cancelled by a request that another process serves.
THEOREM CompletedLasts == Spec => CompletedIsFinal
<1>1. LInv /\ [Next]_vars =>
        [struck' \cap {"fault"} = {} =>
            \A r \in Runs : run[r].status = "completed" =>
                \/ run'[r] = run[r]
                \/ run'[r] = Deleted
                \/ Apart /\ run'[r] = [run[r] EXCEPT !.status = "cancelled"]]_vars
  BY CompletedKept
<1> QED
  BY <1>1, LInvInitially, LInvIsInductive, PTL DEF Spec, CompletedIsFinal

LEMMA CancelledKept ==
  ASSUME LInv, Next, NEW r \in Runs, run[r].status = "cancelled"
  PROVE  \/ run'[r].status \in {"cancelled", "deleted"}
         \/ \E a \in Attempts :
                attempt[a].run = r /\ attempt[a].phase \in {"working", "failing"}
         \/ /\ Apart /\ run'[r] = [run[r] EXCEPT !.status = "running"]
            /\ \E a \in Attempts :
                attempt[a].phase = "none" /\ attempt'[a] = [phase |-> "working", run |-> r]
<1>1. ASSUME NEW s \in Runs, NEW q \in Requests, Create(s, q) \/ Clarify(s, q)
      PROVE  run'[r] = run[r]
  BY <1>1 DEF LInv, Shapes, Create, Clarify
<1>2. ASSUME NEW s \in Runs, Cancel(s)
      PROVE  run'[r] = run[r]
  BY <1>2 DEF LInv, Shapes, Cancel
<1>3. ASSUME NEW s \in Runs, NEW a \in Attempts, Start(a, s)
      PROVE  run'[r] = run[r]
  BY <1>3 DEF LInv, Shapes, Start
<1>4. ASSUME NEW a \in Attempts, NEW o, Report(a, o)
      PROVE  run'[r] = run[r] \/ (attempt[a].run = r /\ attempt[a].phase = "working")
  BY <1>4 DEF LInv, Shapes, Report
<1>5. ASSUME NEW a \in Attempts, ReportFailure(a)
      PROVE  run'[r] = run[r] \/ (attempt[a].run = r /\ attempt[a].phase = "failing")
  BY <1>5 DEF LInv, Shapes, ReportFailure
<1>6. ASSUME NEW S, Delete(S)
      PROVE  run'[r] = run[r] \/ run'[r].status = "deleted"
  BY <1>6 DEF Delete, Deleted, Absent
<1>7. ASSUME NEW a \in Attempts, NEW s \in Runs, LateStart(a, s)
      PROVE  \/ run'[r] = run[r]
             \/ /\ run'[r] = [run[r] EXCEPT !.status = "running"]
                /\ attempt[a].phase = "none" /\ attempt'[a] = [phase |-> "working", run |-> r]
  BY <1>7 DEF LInv, Shapes, LateStart
<1>8. ASSUME \/ \E s \in Runs : LateCancel(s)
             \/ \E s \in Runs, q \in Requests : LateClarify(s, q)
             \/ \E a \in Attempts : Abandon(a)
      PROVE  run'[r] = run[r]
  BY <1>8 DEF LInv, Shapes, LateCancel, LateClarify, Abandon
<1>9. CASE Late
  BY <1>7, <1>8, <1>9 DEF Late
<1> QED
  BY <1>1, <1>2, <1>3, <1>4, <1>5, <1>6, <1>9
     DEF Next, GiveUp, Moot, End, Crash, DatabaseError

\* Only an attempt that had begun before can override a cancellation, or one that
\* another process begins at a run nobody works at.
THEOREM CancellationsLast == Spec => CancelledLeftOnlyByAttempt
<1>1. LInv /\ [Next]_vars =>
        [\A r \in Runs : run[r].status = "cancelled" =>
            \/ run'[r].status \in {"cancelled", "deleted"}
            \/ \E a \in Attempts :
                attempt[a].run = r /\ attempt[a].phase \in {"working", "failing"}
            \/ /\ Apart /\ run'[r] = [run[r] EXCEPT !.status = "running"]
               /\ \E a \in Attempts :
                    attempt[a].phase = "none" /\ attempt'[a] = [phase |-> "working", run |-> r]]_vars
  BY CancelledKept
<1> QED
  BY <1>1, LInvInitially, LInvIsInductive, PTL DEF Spec, CancelledLeftOnlyByAttempt
=============================================================================
