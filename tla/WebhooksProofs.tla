--------------------------- MODULE WebhooksProofs ---------------------------
(* Theorems about webhooks, for any number of subscriptions, dispatches,   *)
(* retries and crashes.                                                    *)
EXTENDS Webhooks, FiniteSetTheorems, TLAPS

-----------------------------------------------------------------------------
(* The inductive invariant.                                                *)

Dispatch == [pc : {"none", "sending", "over", "lost"},
             snapshot : SUBSET Hooks, pending : SUBSET Hooks,
             hook : Hooks \cup {None}, tries : 0..MaxRetries]

Untold(e, h) == Outcomes(e, h) = {}
Resolved(e, h) == \E o \in {"delivered", "failed"} : Outcomes(e, h) = {o}
Fresh(e, h) == Untold(e, h) /\ received[<<e, h>>] = 0

\* The list of a dispatch is cut into the hooks it is done with, the one it is
\* at and those still to come.
Sorted(e) ==
    /\ dispatch[e].pending \subseteq dispatch[e].snapshot
    /\ dispatch[e].hook \in dispatch[e].snapshot \ dispatch[e].pending
    /\ \A h \in dispatch[e].pending : Fresh(e, h)
    /\ Untold(e, dispatch[e].hook)
    /\ received[<<e, dispatch[e].hook>>] <= dispatch[e].tries
    /\ \A h \in dispatch[e].snapshot \ dispatch[e].pending :
            h # dispatch[e].hook => Resolved(e, h)

Told(e) == <<e, None, "failed">> \in audit \/ \A h \in dispatch[e].snapshot : Resolved(e, h)

Real(e, h) ==
    /\ <<e, h, "delivered">> \in audit => received[<<e, h>>] >= 1
    /\ received[<<e, h>>] <= MaxRetries + 1

Consistent(e) ==
    /\ dispatch[e].pc = "none" => \A h \in Hooks : Fresh(e, h)
    /\ dispatch[e].pc = "sending" => Sorted(e)
    /\ dispatch[e].pc = "over" => Told(e)
    /\ \A h \in Hooks : Real(e, h)

IInv == TypeOK /\ \A e \in Events : Consistent(e)

-----------------------------------------------------------------------------
(* Lemmas.                                                                 *)

\* What concerns one dispatch only does not change another.
LEMMA Others ==
    ASSUME NEW f \in Events, Consistent(f), dispatch'[f] = dispatch[f],
           \A h, o : <<f, h, o>> \in audit' <=> <<f, h, o>> \in audit,
           \A h \in Hooks : received'[<<f, h>>] = received[<<f, h>>],
           TypeOK
    PROVE  Consistent(f)'
  <1>1. \A h : Outcomes(f, h)' = Outcomes(f, h)
    BY DEF Outcomes
  <1>2. \A h \in Hooks : Fresh(f, h)' <=> Fresh(f, h)
    BY <1>1 DEF Fresh, Untold
  <1>3. dispatch[f].pc = "sending" => dispatch[f].hook \in Hooks /\ dispatch[f].pending \subseteq Hooks
    BY DEF TypeOK
  <1>4. dispatch[f].pc = "sending" => Sorted(f)'
    BY <1>1, <1>2, <1>3 DEF Consistent, Sorted, Untold, Resolved
  <1>5. dispatch[f].pc = "over" => Told(f)'
    BY <1>1 DEF Consistent, Told, Resolved
  <1>6. \A h \in Hooks : Real(f, h)'
    BY DEF Consistent, Real
  <1> QED
    BY <1>2, <1>4, <1>5, <1>6 DEF Consistent

\* A dispatch is over, or turns to a hook that was to come.
LEMMA Turned ==
    ASSUME TypeOK, NEW e \in Events, NEW d \in Dispatch, NEW pending \in SUBSET Hooks,
           Turn(e, d, pending)
    PROVE  /\ dispatch' \in [Events -> Dispatch]
           /\ \A f \in Events : f # e => dispatch'[f] = dispatch[f]
           /\ dispatch'[e].snapshot = d.snapshot
           /\ \/ pending = {} /\ dispatch'[e].pc = "over"
              \/ /\ dispatch'[e].pc = "sending" /\ dispatch'[e].tries = 0
                 /\ dispatch'[e].hook \in pending
                 /\ dispatch'[e].pending = pending \ {dispatch'[e].hook}
  <1>1. dispatch \in [Events -> Dispatch]
    BY DEF TypeOK, Dispatch
  <1>2. 0 \in 0..MaxRetries
    BY ConstantsAssumption
  <1>3. CASE pending = {} /\ dispatch' = [dispatch EXCEPT ![e] =
                        [d EXCEPT !.pc = "over", !.pending = {}, !.hook = None, !.tries = 0]]
    <2>1. PICK x : /\ x = [d EXCEPT !.pc = "over", !.pending = {}, !.hook = None, !.tries = 0]
                   /\ dispatch' = [dispatch EXCEPT ![e] = x]
      BY <1>3
    <2>2. x \in Dispatch /\ x.pc = "over" /\ x.snapshot = d.snapshot
      BY <1>2, <2>1 DEF Dispatch
    <2> QED
      BY <1>1, <1>3, <2>1, <2>2
  <1>4. ASSUME NEW h \in pending,
               dispatch' = [dispatch EXCEPT ![e] =
                    [d EXCEPT !.pc = "sending", !.pending = pending \ {h}, !.hook = h, !.tries = 0]]
        PROVE  /\ dispatch' \in [Events -> Dispatch]
               /\ \A f \in Events : f # e => dispatch'[f] = dispatch[f]
               /\ dispatch'[e].snapshot = d.snapshot
               /\ dispatch'[e].pc = "sending" /\ dispatch'[e].tries = 0
               /\ dispatch'[e].hook = h /\ dispatch'[e].pending = pending \ {h}
    <2>1. PICK x : /\ x = [d EXCEPT !.pc = "sending", !.pending = pending \ {h}, !.hook = h, !.tries = 0]
                   /\ dispatch' = [dispatch EXCEPT ![e] = x]
      BY <1>4
    <2>2. /\ x \in Dispatch /\ x.pc = "sending" /\ x.snapshot = d.snapshot
          /\ x.hook = h /\ x.pending = pending \ {h} /\ x.tries = 0
      BY <1>2, <2>1 DEF Dispatch
    <2> QED
      BY <1>1, <2>1, <2>2
  <1> QED
    BY <1>3, <1>4 DEF Turn

\* The hook at hand has been sent the event once more.
LEMMA ReceivedOnce ==
    ASSUME TypeOK, NEW e \in Events, NEW h \in Hooks, h = dispatch[e].hook, Receive(e)
    PROVE  /\ received' \in [Events \X Hooks -> Nat]
           /\ \A x \in Events \X Hooks : x # <<e, h>> => received'[x] = received[x]
           /\ received'[<<e, h>>] = received[<<e, h>>] + 1
  <1>1. PICK y \in Events \X Hooks :
            y = <<e, h>> /\ received' = [received EXCEPT ![y] = received[y] + 1]
    BY DEF Receive
  <1>2. received \in [Events \X Hooks -> Nat]
    BY DEF TypeOK
  <1>3. received[y] + 1 \in Nat
    BY <1>2
  <1>4. received' \in [Events \X Hooks -> Nat] /\ received'[y] = received[y] + 1
    BY <1>1, <1>2, <1>3
  <1>5. \A x \in Events \X Hooks : x # y => received'[x] = received[x]
    BY <1>1, <1>2
  <1> QED
    BY <1>1, <1>4, <1>5

\* One more outcome.
LEMMA Recorded ==
    ASSUME NEW e \in Events, NEW h \in Hooks, NEW o \in {"delivered", "failed"},
           Untold(e, h), audit' = audit \cup {<<e, h, o>>}
    PROVE  /\ Outcomes(e, h)' = {o}
           /\ \A g : g # h => Outcomes(e, g)' = Outcomes(e, g)
           /\ \A f \in Events : \A g, p : f # e => (<<f, g, p>> \in audit' <=> <<f, g, p>> \in audit)
  BY DEF Untold, Outcomes

LEMMA InitIInv == Init => IInv
  <1> SUFFICES ASSUME Init PROVE IInv
    OBVIOUS
  <1>1. TypeOK
    BY ConstantsAssumption DEF Init, TypeOK, NotBegun
  <1>2. ASSUME NEW e \in Events PROVE Consistent(e)
    <2>1. dispatch[e].pc = "none"
      BY DEF Init, NotBegun
    <2>2. \A h \in Hooks : Fresh(e, h) /\ Real(e, h)
      BY ConstantsAssumption DEF Init, Fresh, Untold, Outcomes, Real
    <2> QED
      BY <2>1, <2>2 DEF Consistent
  <1> QED
    BY <1>1, <1>2 DEF IInv

-----------------------------------------------------------------------------
(* Every action.                                                           *)

LEMMA SubscriptionsStep ==
    ASSUME IInv, NEW h \in Hooks, Subscribe(h) \/ Unsubscribe(h)
    PROVE  IInv'
  <1>1. TypeOK' /\ UNCHANGED <<dispatch, received, audit, crashes>>
    BY DEF IInv, TypeOK, Subscribe, Unsubscribe
  <1>2. \A e \in Events : Consistent(e)'
    BY <1>1, Others DEF IInv
  <1> QED
    BY <1>1, <1>2 DEF IInv

LEMMA BeginStep ==
    ASSUME IInv, NEW e \in Events, Begin(e)
    PROVE  IInv'
  <1>1. PICK active, d :
            /\ active \in SUBSET Hooks
            /\ d = [NotBegun EXCEPT !.snapshot = active]
            /\ Turn(e, d, active)
            /\ UNCHANGED <<subs, received, audit, crashes>>
            /\ dispatch[e].pc = "none"
    BY DEF Begin
  <1>2. d \in Dispatch /\ d.snapshot = active
    BY <1>1, ConstantsAssumption DEF NotBegun, Dispatch
  <1>3. /\ dispatch' \in [Events -> Dispatch]
        /\ \A f \in Events : f # e => dispatch'[f] = dispatch[f]
        /\ dispatch'[e].snapshot = active
        /\ \/ active = {} /\ dispatch'[e].pc = "over"
           \/ /\ dispatch'[e].pc = "sending" /\ dispatch'[e].tries = 0
              /\ dispatch'[e].hook \in active
              /\ dispatch'[e].pending = active \ {dispatch'[e].hook}
    BY <1>1, <1>2, Turned DEF IInv
  <1>4. TypeOK'
    BY <1>1, <1>3 DEF IInv, TypeOK, Dispatch
  <1>5. \A h \in Hooks : Fresh(e, h) /\ Fresh(e, h)' /\ Real(e, h)'
    BY <1>1 DEF IInv, Consistent, Fresh, Untold, Outcomes, Real
  <1>6. Consistent(e)'
    <2>1. CASE active = {} /\ dispatch'[e].pc = "over"
      BY <1>3, <1>5, <2>1 DEF Consistent, Told
    <2>2. CASE dispatch'[e].pc = "sending"
      <3>1. Sorted(e)'
        BY <1>1, <1>3, <1>5, <2>2 DEF Sorted, Fresh
      <3> QED
        BY <1>5, <2>2, <3>1 DEF Consistent
    <2> QED
      BY <1>3, <2>1, <2>2
  <1>7. \A f \in Events : f # e => Consistent(f)'
    BY <1>1, <1>3, Others DEF IInv
  <1> QED
    BY <1>4, <1>6, <1>7 DEF IInv

LEMMA NoCipherStep ==
    ASSUME IInv, NEW e \in Events, NoCipher(e)
    PROVE  IInv'
  <1>0. PICK active \in SUBSET Hooks :
            /\ audit' = audit \cup {<<e, h, "failed">> : h \in active}
            /\ dispatch' = [dispatch EXCEPT ![e] =
                    [NotBegun EXCEPT !.pc = "over", !.snapshot = active]]
            /\ UNCHANGED <<subs, received, crashes>>
            /\ dispatch[e].pc = "none"
    BY DEF NoCipher
  <1>1. PICK d : /\ d = [NotBegun EXCEPT !.pc = "over", !.snapshot = active]
                 /\ audit' = audit \cup {<<e, h, "failed">> : h \in active}
                 /\ dispatch' = [dispatch EXCEPT ![e] = d]
                 /\ UNCHANGED <<subs, received, crashes>>
                 /\ dispatch[e].pc = "none"
    BY <1>0
  <1>2. d \in Dispatch /\ d.snapshot = active /\ d.pc = "over"
    <2>1. d = [pc |-> "over", snapshot |-> active, pending |-> {}, hook |-> None, tries |-> 0]
      BY <1>1 DEF NotBegun
    <2>2. 0 \in 0..MaxRetries
      BY ConstantsAssumption
    <2> QED
      BY <2>1, <2>2 DEF Dispatch
  <1>3. dispatch \in [Events -> Dispatch]
    BY DEF IInv, TypeOK, Dispatch
  <1>4. TypeOK'
    BY <1>1, <1>2, <1>3 DEF IInv, TypeOK, Dispatch
  <1>5. \A h \in Hooks : Fresh(e, h)
    BY <1>1 DEF IInv, Consistent
  <1>6. \A h \in active : Outcomes(e, h)' = {"failed"}
    BY <1>1, <1>5 DEF Fresh, Untold, Outcomes
  <1>7. \A h \in Hooks : Real(e, h)'
    BY <1>1, <1>5, ConstantsAssumption DEF IInv, Consistent, Real, Fresh
  <1>8. Consistent(e)'
    BY <1>1, <1>2, <1>3, <1>6, <1>7 DEF Consistent, Told, Resolved
  <1>9. \A f \in Events : f # e => Consistent(f)'
    BY <1>1, <1>3, Others DEF IInv
  <1> QED
    BY <1>4, <1>8, <1>9 DEF IInv

\* A hook is done with: the outcome is recorded, and the dispatch goes on.
LEMMA ConcludeStep ==
    ASSUME IInv, NEW e \in Events, NEW o \in {"delivered", "failed"},
           dispatch[e].pc = "sending", Conclude(e, o),
           \/ UNCHANGED received /\ o = "failed"
           \/ Receive(e)
    PROVE  IInv'
  <1>1. PICK h, d, pending :
            /\ h = dispatch[e].hook /\ d = dispatch[e] /\ pending = dispatch[e].pending
            /\ audit' = audit \cup {<<e, h, o>>}
            /\ Turn(e, d, pending)
            /\ UNCHANGED <<subs, crashes>>
    BY DEF Conclude
  <1>2. /\ h \in Hooks /\ d \in Dispatch /\ pending \in SUBSET Hooks
        /\ h \in d.snapshot \ pending /\ pending \subseteq d.snapshot
        /\ \A g \in pending : Fresh(e, g)
        /\ Untold(e, h) /\ received[<<e, h>>] <= d.tries
        /\ \A g \in d.snapshot \ pending : g # h => Resolved(e, g)
    BY <1>1 DEF IInv, TypeOK, Dispatch, Consistent, Sorted
  <1>3. /\ dispatch' \in [Events -> Dispatch]
        /\ \A f \in Events : f # e => dispatch'[f] = dispatch[f]
        /\ dispatch'[e].snapshot = d.snapshot
        /\ \/ pending = {} /\ dispatch'[e].pc = "over"
           \/ /\ dispatch'[e].pc = "sending" /\ dispatch'[e].tries = 0
              /\ dispatch'[e].hook \in pending
              /\ dispatch'[e].pending = pending \ {dispatch'[e].hook}
    BY <1>1, <1>2, Turned DEF IInv
  <1>4. /\ received' \in [Events \X Hooks -> Nat]
        /\ \A x \in Events \X Hooks : x # <<e, h>> => received'[x] = received[x]
        /\ received'[<<e, h>>] \in {received[<<e, h>>], received[<<e, h>>] + 1}
        /\ o = "delivered" => received'[<<e, h>>] = received[<<e, h>>] + 1
    BY <1>1, <1>2, ReceivedOnce DEF IInv, TypeOK
  <1>5. /\ Outcomes(e, h)' = {o}
        /\ \A g : g # h => Outcomes(e, g)' = Outcomes(e, g)
        /\ \A f \in Events : \A g, p : f # e => (<<f, g, p>> \in audit' <=> <<f, g, p>> \in audit)
    BY <1>1, <1>2, Recorded
  <1>6. TypeOK'
    BY <1>1, <1>2, <1>3, <1>4 DEF IInv, TypeOK, Dispatch
  <1>7. \A g \in pending : Fresh(e, g)'
    BY <1>2, <1>4, <1>5 DEF Fresh, Untold
  <1>8. \A g \in d.snapshot \ pending : Resolved(e, g)'
    BY <1>2, <1>5 DEF Resolved
  <1>9. ASSUME NEW g \in Hooks PROVE Real(e, g)'
    <2>1. CASE g # h
      BY <1>1, <1>4, <2>1 DEF IInv, Consistent, Real
    <2>2. CASE g = h
      <3>1. received[<<e, h>>] \in Nat /\ d.tries \in 0..MaxRetries /\ MaxRetries \in Nat
        BY <1>2, ConstantsAssumption DEF IInv, TypeOK, Dispatch
      <3>2. received'[<<e, h>>] <= MaxRetries + 1
        BY <1>2, <1>4, <3>1
      <3>3. <<e, h, "delivered">> \in audit' => o = "delivered"
        BY <1>5 DEF Outcomes
      <3>4. o = "delivered" => received'[<<e, h>>] >= 1
        BY <1>4, <3>1
      <3> QED
        BY <2>2, <3>2, <3>3, <3>4 DEF Real
    <2> QED
      BY <2>1, <2>2
  <1>10. Consistent(e)'
    <2>1. CASE pending = {} /\ dispatch'[e].pc = "over"
      BY <1>3, <1>8, <1>9, <2>1 DEF Consistent, Told
    <2>2. CASE pending # {} \/ dispatch'[e].pc # "over"
      <3>1. /\ dispatch'[e].pc = "sending" /\ dispatch'[e].tries = 0
            /\ dispatch'[e].hook \in pending
            /\ dispatch'[e].pending = pending \ {dispatch'[e].hook}
        BY <1>3, <2>2
      <3>2. Fresh(e, dispatch[e].hook)'
        BY <1>7, <3>1
      <3>3. received'[<<e, dispatch'[e].hook>>] = 0 /\ Outcomes(e, dispatch[e].hook)' = {}
        BY <3>2 DEF Fresh, Untold
      <3>4. Sorted(e)'
        BY <1>2, <1>3, <1>7, <1>8, <3>1, <3>3 DEF Sorted, Untold
      <3> QED
        BY <1>9, <3>1, <3>4 DEF Consistent
    <2> QED
      BY <2>1, <2>2
  <1>11. \A f \in Events : f # e => Consistent(f)'
    BY <1>1, <1>2, <1>3, <1>4, <1>5, Others DEF IInv
  <1> QED
    BY <1>6, <1>10, <1>11 DEF IInv

\* The hook is tried again.
LEMMA RetryStep ==
    ASSUME IInv, NEW e \in Events, Retry(e)
    PROVE  IInv'
  <1>1. PICK h, x :
            /\ h = dispatch[e].hook
            /\ x = [dispatch[e] EXCEPT !.tries = @ + 1]
            /\ dispatch' = [dispatch EXCEPT ![e] = x]
            /\ Receive(e) \/ UNCHANGED received
            /\ UNCHANGED <<subs, audit, crashes>>
            /\ dispatch[e].pc = "sending" /\ dispatch[e].tries < MaxRetries
    BY DEF Retry, Sending
  <1>2. dispatch[e] \in Dispatch /\ h \in Hooks /\ Sorted(e) /\ MaxRetries \in Nat
    BY <1>1, ConstantsAssumption DEF IInv, TypeOK, Dispatch, Consistent
  <1>3. /\ x \in Dispatch /\ x.pc = "sending" /\ x.hook = h /\ x.tries = dispatch[e].tries + 1
        /\ x.snapshot = dispatch[e].snapshot /\ x.pending = dispatch[e].pending
    BY <1>1, <1>2 DEF Dispatch
  <1>4. /\ dispatch' \in [Events -> Dispatch] /\ dispatch'[e] = x
        /\ \A f \in Events : f # e => dispatch'[f] = dispatch[f]
    BY <1>1, <1>3 DEF IInv, TypeOK, Dispatch
  <1>5. /\ received' \in [Events \X Hooks -> Nat]
        /\ \A y \in Events \X Hooks : y # <<e, h>> => received'[y] = received[y]
        /\ received'[<<e, h>>] \in {received[<<e, h>>], received[<<e, h>>] + 1}
    BY <1>1, <1>2, ReceivedOnce DEF IInv, TypeOK
  <1>6. TypeOK'
    BY <1>1, <1>3, <1>4, <1>5 DEF IInv, TypeOK, Dispatch
  <1>7. \A g : Outcomes(e, g)' = Outcomes(e, g)
    BY <1>1 DEF Outcomes
  <1>8. received[<<e, h>>] \in Nat /\ dispatch[e].tries \in 0..MaxRetries
        /\ received[<<e, h>>] <= dispatch[e].tries
    BY <1>1, <1>2 DEF IInv, TypeOK, Dispatch, Sorted
  <1>9. received'[<<e, h>>] <= x.tries /\ received'[<<e, h>>] <= MaxRetries + 1
        /\ received'[<<e, h>>] >= received[<<e, h>>]
    BY <1>1, <1>2, <1>3, <1>5, <1>8
  <1>10. \A g \in dispatch[e].pending : g \in Hooks /\ g # h
    BY <1>1, <1>2 DEF Sorted, Dispatch
  <1>11. Sorted(e)'
    <2>1. \A g \in x.pending : Fresh(e, g)'
      BY <1>2, <1>3, <1>5, <1>7, <1>10 DEF Sorted, Fresh, Untold
    <2>2. \A g \in x.snapshot \ x.pending : g # x.hook => Resolved(e, g)'
      BY <1>1, <1>2, <1>3, <1>7 DEF Sorted, Resolved
    <2> QED
      BY <1>1, <1>2, <1>3, <1>4, <1>7, <1>9, <2>1, <2>2 DEF Sorted, Untold
  <1>12. ASSUME NEW g \in Hooks PROVE Real(e, g)'
    <2>1. CASE g # h
      BY <1>1, <1>5, <2>1 DEF IInv, Consistent, Real
    <2>2. <<e, h, "delivered">> \notin audit'
      BY <1>1, <1>2 DEF Sorted, Untold, Outcomes
    <2> QED
      BY <1>9, <2>1, <2>2 DEF Real
  <1>13. Consistent(e)'
    BY <1>3, <1>4, <1>11, <1>12 DEF Consistent
  <1>14. \A f \in Events : f # e => Consistent(f)'
    BY <1>1, <1>2, <1>4, <1>5, Others DEF IInv
  <1> QED
    BY <1>6, <1>13, <1>14 DEF IInv

LEMMA RaiseStep ==
    ASSUME IInv, NEW e \in Events, Raise(e)
    PROVE  IInv'
  <1>1. PICK x :
            /\ x = [dispatch[e] EXCEPT !.pc = "over", !.pending = {}, !.hook = None]
            /\ dispatch' = [dispatch EXCEPT ![e] = x]
            /\ audit' = audit \cup {<<e, None, "failed">>}
            /\ UNCHANGED <<subs, received, crashes>>
    BY DEF Raise
  <1>2. x \in Dispatch /\ x.pc = "over"
    BY <1>1 DEF IInv, TypeOK, Dispatch
  <1>3. /\ dispatch' \in [Events -> Dispatch] /\ dispatch'[e] = x
        /\ \A f \in Events : f # e => dispatch'[f] = dispatch[f]
    BY <1>1, <1>2 DEF IInv, TypeOK, Dispatch
  <1>4. TypeOK'
    BY <1>1, <1>2, <1>3 DEF IInv, TypeOK, Dispatch
  <1>5. \A h \in Hooks : Real(e, h)'
    BY <1>1, ConstantsAssumption DEF IInv, Consistent, Real
  <1>6. Consistent(e)'
    BY <1>1, <1>2, <1>3, <1>5 DEF Consistent, Told
  <1>7. \A f \in Events : f # e => Consistent(f)'
    BY <1>1, <1>3, Others DEF IInv
  <1> QED
    BY <1>4, <1>6, <1>7 DEF IInv

LEMMA CrashStep ==
    ASSUME IInv, Crash
    PROVE  IInv'
  <1> DEFINE lost(e) == [dispatch[e] EXCEPT !.pc = "lost", !.hook = None]
  <1>1. /\ dispatch' = [e \in Events |->
                IF dispatch[e].pc # "sending" THEN dispatch[e] ELSE lost(e)]
        /\ crashes' = crashes + 1 /\ crashes < MaxCrashes
        /\ UNCHANGED <<subs, received, audit>>
    BY DEF Crash
  <1>2. \A e \in Events : lost(e) \in Dispatch /\ lost(e).pc = "lost"
    BY DEF IInv, TypeOK, Dispatch
  <1> HIDE DEF lost
  <1>3. dispatch' \in [Events -> Dispatch]
    BY <1>1, <1>2 DEF IInv, TypeOK, Dispatch
  <1>4. \A e \in Events : dispatch'[e].pc # "sending"
    BY <1>1, <1>2
  <1>5. crashes' \in 0..MaxCrashes
    BY <1>1, ConstantsAssumption DEF IInv, TypeOK
  <1>6. TypeOK'
    BY <1>1, <1>3, <1>4, <1>5 DEF IInv, TypeOK, Dispatch
  <1>7. ASSUME NEW e \in Events PROVE Consistent(e)'
    <2>1. CASE dispatch'[e] = dispatch[e]
      BY <1>1, <2>1, Others DEF IInv
    <2>2. CASE dispatch'[e] = lost(e)
      <3>1. \A h \in Hooks : Real(e, h)'
        BY <1>1 DEF IInv, Consistent, Real
      <3> QED
        BY <1>2, <2>2, <3>1 DEF Consistent
    <2> QED
      BY <1>1, <2>1, <2>2
  <1> QED
    BY <1>6, <1>7 DEF IInv

LEMMA StepIInv == IInv /\ [Next]_vars => IInv'
  <1> SUFFICES ASSUME IInv, [Next]_vars PROVE IInv'
    OBVIOUS
  <1>1. ASSUME NEW h \in Hooks, Subscribe(h) \/ Unsubscribe(h) PROVE IInv'
    BY <1>1, SubscriptionsStep
  <1>2. ASSUME NEW e \in Events, Begin(e) \/ NoCipher(e) PROVE IInv'
    BY <1>2, BeginStep, NoCipherStep
  <1>3. ASSUME NEW e \in Events, Deliver(e) PROVE IInv'
    BY <1>3, ConcludeStep DEF Deliver, Sending
  <1>4. ASSUME NEW e \in Events, GiveUp(e) PROVE IInv'
    BY <1>4, ConcludeStep DEF GiveUp, Sending
  <1>5. ASSUME NEW e \in Events, BadSecret(e) PROVE IInv'
    BY <1>5, ConcludeStep DEF BadSecret
  <1>6. ASSUME NEW e \in Events, Retry(e) \/ Raise(e) PROVE IInv'
    BY <1>6, RetryStep, RaiseStep
  <1>7. CASE Crash
    BY <1>7, CrashStep
  <1>8. CASE UNCHANGED vars
    <2>1. TypeOK'
      BY <1>8 DEF IInv, TypeOK, vars
    <2>2. \A e \in Events : Consistent(e)'
      BY <1>8, Others DEF IInv, vars
    <2> QED
      BY <2>1, <2>2 DEF IInv
  <1> QED
    BY <1>1, <1>2, <1>3, <1>4, <1>5, <1>6, <1>7, <1>8 DEF Next, Proceed

-----------------------------------------------------------------------------
(* The theorems.                                                           *)

THEOREM Inductive == Spec => []IInv
  BY InitIInv, StepIInv, PTL DEF Spec

\* A dispatch that is sending is at one of its hooks, and never past its tries.
THEOREM TypeCorrect == Spec => []TypeOK
  <1>1. IInv => TypeOK
    BY DEF IInv
  <1> QED
    BY <1>1, Inductive, PTL

\* The audit log has one outcome for every hook of a dispatch that is over, or
\* says that it was cut short (_dispatch_webhooks, _safe_dispatch_webhooks).
THEOREM DispatchesAccounted == Spec => []Accounted
  <1>1. IInv => Accounted
    <2> SUFFICES ASSUME IInv, NEW e \in Events, Over(e), <<e, None, "failed">> \notin audit,
                        NEW h \in dispatch[e].snapshot
                 PROVE  Cardinality(Outcomes(e, h)) = 1
      BY DEF Accounted
    <2>1. PICK o : Outcomes(e, h) = {o}
      BY DEF IInv, Consistent, Told, Over, Resolved
    <2> QED
      BY <2>1, FS_Singleton
  <1> QED
    BY <1>1, Inductive, PTL

\* Nothing is recorded as delivered that was not sent, and no hook is sent an
\* event more often than there are tries.
THEOREM DeliveriesHappened == Spec => []DeliveriesReal
  <1>1. IInv => DeliveriesReal
    BY DEF IInv, Consistent, Real, DeliveriesReal
  <1> QED
    BY <1>1, Inductive, PTL
=============================================================================
