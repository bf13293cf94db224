------------------------ MODULE ServiceClientProofs ------------------------
(* The circuit breaker of ServiceClient for any number of calls, retries   *)
(* and failures.                                                           *)
EXTENDS ServiceClient, FiniteSetTheorems, TLAPS

\* The calls under way are finitely many, no more than there are.
LEMMA InFlightFinite ==
    /\ IsFiniteSet(InFlight)
    /\ Cardinality(InFlight) \in Nat /\ Cardinality(Calls) \in Nat
    /\ Cardinality(InFlight) <= Cardinality(Calls)
<1>1. InFlight \subseteq Calls
  BY DEF InFlight
<1> QED
  BY <1>1, ConstantsAssumption, FS_Subset, FS_CardinalityType DEF ConstantsAssumption

\* When a call is over, one call less is under way.
LEMMA CallOver ==
    ASSUME TypeOK, NEW c \in Calls, call[c].pc # "idle",
           call' = [call EXCEPT ![c] = Idle]
    PROVE  /\ Cardinality(InFlight') = Cardinality(InFlight) - 1
           /\ Cardinality(InFlight) >= 1
           /\ Cardinality(InFlight') \in Nat
<1>1. c \in InFlight
  BY DEF InFlight
<1>2. InFlight' = InFlight \ {c}
  BY DEF InFlight, Idle, TypeOK
<1>3. /\ IsFiniteSet(InFlight \ {c})
      /\ Cardinality(InFlight \ {c}) = Cardinality(InFlight) - 1
  BY <1>1, InFlightFinite, FS_RemoveElement
<1>4. Cardinality(InFlight \ {c}) \in Nat
  BY <1>3, FS_CardinalityType
<1> QED
  BY <1>2, <1>3, <1>4, InFlightFinite

\* A call that goes on to its next attempt, or to sleep, stays under way.
LEMMA CallGoesOn ==
    ASSUME TypeOK, NEW c \in Calls, call[c].pc # "idle",
           NEW pc \in {"sent", "asleep"}, NEW attempt, Goto(c, pc, attempt)
    PROVE  InFlight' = InFlight
BY DEF InFlight, Goto, TypeOK

LEMMA TypeStep ==
    ASSUME TypeOK, [Next]_vars
    PROVE  TypeOK'
<1> USE ConstantsAssumption DEF ConstantsAssumption, TypeOK
<1>1. CASE Tick
  BY <1>1 DEF Tick, Open
<1>2. ASSUME NEW c \in Calls, Start(c) PROVE TypeOK'
  BY <1>2 DEF Start, Goto, Open
<1>3. ASSUME NEW c \in Calls, Retry(c) PROVE TypeOK'
  BY <1>3 DEF Retry, Goto
<1>4. ASSUME NEW c \in Calls, Wake(c) PROVE TypeOK'
  BY <1>4 DEF Wake, Goto, Open
<1>5. ASSUME NEW c \in Calls, GiveUp(c) PROVE TypeOK'
  BY <1>5 DEF GiveUp, RecordFailure, Idle, Open
<1>6. ASSUME NEW c \in Calls, Answer(c) PROVE TypeOK'
  BY <1>6 DEF Answer, Idle
<1>7. ASSUME NEW c \in Calls, Break(c) PROVE TypeOK'
  BY <1>7 DEF Break, Idle
<1>8. CASE UNCHANGED vars
  BY <1>8 DEF vars
<1> QED
  BY <1>1, <1>2, <1>3, <1>4, <1>5, <1>6, <1>7, <1>8 DEF Next, Proceed

\* The variables keep their types, and a call sleeps only before an attempt
\* that it still has (_request).
THEOREM TypeCorrect == Spec => []TypeOK
<1>1. Init => TypeOK
  BY ConstantsAssumption DEF ConstantsAssumption, Init, TypeOK, Idle
<1>2. TypeOK /\ [Next]_vars => TypeOK'
  BY TypeStep
<1> QED
  BY <1>1, <1>2, PTL DEF Spec

Breaker == OpenAtThreshold /\ FailuresBounded

LEMMA BreakerStep ==
    ASSUME TypeOK, Breaker, [Next]_vars
    PROVE  Breaker'
<1> USE ConstantsAssumption DEF ConstantsAssumption, Breaker, OpenAtThreshold, FailuresBounded
<1>a. failures \in Nat /\ Threshold \in Nat \ {0}
  BY DEF TypeOK
<1>1. CASE Tick
  <2>1. InFlight' = InFlight /\ Open /\ Open' /\ failures' = failures
    BY <1>1 DEF Tick, InFlight, Open, TypeOK
  <2> QED
    BY <2>1
<1>2. ASSUME NEW c \in Calls, Start(c) PROVE Breaker'
  BY <1>2, <1>a DEF Start, Open
<1>3. ASSUME NEW c \in Calls, Retry(c) PROVE Breaker'
  <2>1. InFlight' = InFlight
    BY <1>3, CallGoesOn DEF Retry
  <2> QED
    BY <1>3, <2>1 DEF Retry, Open
<1>4. ASSUME NEW c \in Calls, Wake(c) PROVE Breaker'
  <2>1. InFlight' = InFlight
    BY <1>4, CallGoesOn DEF Wake, TypeOK
  <2> QED
    BY <1>4, <2>1 DEF Wake, Open
<1>5. ASSUME NEW c \in Calls, GiveUp(c) PROVE Breaker'
  <2>1. /\ Cardinality(InFlight') = Cardinality(InFlight) - 1
        /\ Cardinality(InFlight) >= 1
    BY <1>5, CallOver DEF GiveUp
  <2>2. /\ Cardinality(InFlight) \in Nat /\ Cardinality(Calls) \in Nat
        /\ Cardinality(InFlight) <= Cardinality(Calls)
    BY InFlightFinite
  <2>3. failures' = failures + 1
    BY <1>5 DEF GiveUp, RecordFailure
  <2>4. CASE failures' >= Threshold
    <3>1. Open'
      BY <1>5, <2>4 DEF GiveUp, RecordFailure, Open
    <3>2. CASE Open
      BY <1>a, <2>1, <2>2, <2>3, <2>4, <3>1, <3>2
    <3>3. CASE ~Open
      BY <1>a, <2>1, <2>2, <2>3, <2>4, <3>1, <3>3
    <3> QED
      BY <3>2, <3>3
  <2>5. CASE ~(failures' >= Threshold)
    <3>1. ~Open
      BY <1>a, <2>3, <2>5
    <3>2. ~Open'
      BY <1>5, <2>5, <3>1 DEF GiveUp, RecordFailure, Open
    <3> QED
      BY <1>a, <2>3, <2>5, <3>2
  <2> QED
    BY <2>4, <2>5
<1>6. ASSUME NEW c \in Calls, Answer(c) PROVE Breaker'
  BY <1>6, <1>a DEF Answer, Open
<1>7. ASSUME NEW c \in Calls, Break(c) PROVE Breaker'
  <2>1. Cardinality(InFlight') = Cardinality(InFlight) - 1
    BY <1>7, CallOver DEF Break
  <2>2. Cardinality(InFlight) \in Nat /\ Cardinality(Calls) \in Nat
    BY InFlightFinite
  <2>3. failures' = failures /\ (Open' <=> Open)
    BY <1>7 DEF Break, Open
  <2> QED
    BY <1>a, <2>1, <2>2, <2>3
<1>8. CASE UNCHANGED vars
  BY <1>8 DEF vars, InFlight, Open
<1> QED
  BY <1>1, <1>2, <1>3, <1>4, <1>5, <1>6, <1>7, <1>8 DEF Next, Proceed

LEMMA BreakerInvariant == Spec => []Breaker
<1>1. Init => Breaker
  BY ConstantsAssumption
  DEF ConstantsAssumption, Init, Breaker, OpenAtThreshold, FailuresBounded, Open
<1>2. TypeOK /\ TypeOK' /\ Breaker /\ [Next]_vars => Breaker'
  BY BreakerStep
<1> QED
  BY <1>1, <1>2, TypeCorrect, PTL DEF Spec

\* The circuit is open exactly when as many failures in a row as the threshold
\* have been recorded, however calls overlap (_record_failure, _check_circuit).
THEOREM CircuitConsistent == Spec => []OpenAtThreshold
BY BreakerInvariant, PTL DEF Breaker

\* The count of failures passes the threshold by less than the calls there are.
THEOREM FailureCountBounded == Spec => []FailuresBounded
BY BreakerInvariant, PTL DEF Breaker

-----------------------------------------------------------------------------
(* The traffic of an open circuit.  What the calls under way can still     *)
(* send is a set, so that it can be counted.                               *)

Tries == 1..MaxRetries
Attempt == Calls \X Tries
Left(c, n) == call[c].pc # "idle" /\ call[c].attempt < n
ToSend == {a \in Attempt : Left(a[1], a[2])}

Traffic == Open => traffic + Cardinality(ToSend) <= (Cardinality(Calls) - 1) * MaxRetries

LEMMA Pairs ==
    ASSUME NEW S, NEW T, NEW a \in S \X T
    PROVE  a[1] \in S /\ a[2] \in T /\ a = <<a[1], a[2]>>
OBVIOUS

LEMMA PairsFinite ==
    ASSUME NEW S, NEW T, IsFiniteSet(S), IsFiniteSet(T)
    PROVE  IsFiniteSet(S \X T) /\ Cardinality(S \X T) = Cardinality(S) * Cardinality(T)
BY FS_Product

LEMMA Counts ==
    /\ IsFiniteSet(Attempt)
    /\ IsFiniteSet(ToSend) /\ Cardinality(ToSend) \in Nat
    /\ MaxRetries \in Nat /\ (Cardinality(Calls) - 1) * MaxRetries \in Int
<1>1. MaxRetries \in Nat /\ IsFiniteSet(Calls)
  BY ConstantsAssumption DEF ConstantsAssumption
<1>2. IsFiniteSet(Tries)
  BY <1>1, FS_Interval DEF Tries
<1>3. IsFiniteSet(Attempt)
  BY <1>1, <1>2, PairsFinite DEF Attempt
<1>4. ToSend \subseteq Attempt
  BY DEF ToSend
<1>5. IsFiniteSet(ToSend)
  BY <1>3, <1>4, FS_Subset
<1>6. Cardinality(ToSend) \in Nat
  BY <1>5, FS_CardinalityType
<1>7. Cardinality(Calls) - 1 \in Int
  BY <1>1, FS_CardinalityType
<1>8. \A m \in Int, n \in Int : m * n \in Int
  OBVIOUS
<1> QED
  BY <1>1, <1>3, <1>5, <1>6, <1>7, <1>8

\* Attempts get fewer when no call has more left than before.
LEMMA FewerToSend ==
    ASSUME \A c \in Calls, n \in Tries : Left(c, n)' => Left(c, n)
    PROVE  ToSend' \subseteq ToSend
<1> SUFFICES ASSUME NEW a \in Attempt, Left(a[1], a[2])' PROVE Left(a[1], a[2])
  BY DEF ToSend
<1>1. a[1] \in Calls /\ a[2] \in Tries
  BY Pairs DEF Attempt
<1> QED
  BY <1>1

\* The call that opens the circuit leaves the attempts of the others.
LEMMA ToSendOfOthers ==
    ASSUME NEW c \in Calls, \A n \in Tries : ~Left(c, n)'
    PROVE  Cardinality(ToSend') <= (Cardinality(Calls) - 1) * MaxRetries
<1> DEFINE others == Calls \ {c}
<1>1. IsFiniteSet(others) /\ Cardinality(others) = Cardinality(Calls) - 1
  BY FS_RemoveElement, ConstantsAssumption DEF ConstantsAssumption
<1>2. IsFiniteSet(Tries) /\ Cardinality(Tries) = MaxRetries
  <2>1. 1 \in Int /\ MaxRetries \in Int /\ MaxRetries >= 0
    BY Counts
  <2>2. IsFiniteSet(Tries)
        /\ Cardinality(Tries) = IF 1 > MaxRetries THEN 0 ELSE MaxRetries - 1 + 1
    BY <2>1, FS_Interval DEF Tries
  <2> QED
    BY <2>1, <2>2
<1> HIDE DEF others
<1>3. /\ IsFiniteSet(others \X Tries)
      /\ Cardinality(others \X Tries) = Cardinality(others) * Cardinality(Tries)
  BY <1>1, <1>2, PairsFinite
<1>4. ToSend' \subseteq others \X Tries
  <2> SUFFICES ASSUME NEW a \in Attempt, Left(a[1], a[2])' PROVE a \in others \X Tries
    BY DEF ToSend
  <2>1. a[1] \in Calls /\ a[2] \in Tries /\ a = <<a[1], a[2]>>
    BY Pairs DEF Attempt
  <2>2. a[1] # c
    BY <2>1
  <2> QED
    BY <2>1, <2>2 DEF others
<1>5. Cardinality(ToSend') <= Cardinality(others \X Tries)
  BY <1>3, <1>4, FS_Subset
<1>6. Cardinality(others \X Tries) = (Cardinality(Calls) - 1) * MaxRetries
  BY <1>1, <1>2, <1>3
<1> QED
  BY <1>5, <1>6

\* A step that does not open the circuit, sends nothing and adds no attempts.
LEMMA TrafficKept ==
    ASSUME Traffic, TypeOK, Open' => Open, traffic' = traffic,
           \A c \in Calls, n \in Tries : Left(c, n)' => Left(c, n)
    PROVE  Traffic'
<1> DEFINE bound == (Cardinality(Calls) - 1) * MaxRetries
<1>1. IsFiniteSet(ToSend) /\ ToSend' \subseteq ToSend
  BY FewerToSend, Counts
<1>2. IsFiniteSet(ToSend') /\ Cardinality(ToSend') <= Cardinality(ToSend)
  BY <1>1, FS_Subset
<1>3. Cardinality(ToSend') \in Nat
  BY <1>2, FS_CardinalityType
<1>4. Cardinality(ToSend) \in Nat /\ traffic \in Nat /\ bound \in Int
  BY Counts DEF TypeOK
<1>5. Open => traffic + Cardinality(ToSend) <= bound
  BY DEF Traffic
<1> HIDE DEF bound
<1>6. Open' => traffic' + Cardinality(ToSend') <= bound
  BY <1>2, <1>3, <1>4, <1>5
<1> QED
  BY <1>6 DEF Traffic, bound

\* An attempt is sent: it is counted instead of being left.
LEMMA TrafficSent ==
    ASSUME Traffic, TypeOK, NEW c \in Calls, Wake(c)
    PROVE  Traffic'
<1> DEFINE bound == (Cardinality(Calls) - 1) * MaxRetries
           next == call[c].attempt + 1
<1>1. call[c].attempt \in Nat /\ next \in Tries /\ Left(c, next)
  BY Counts DEF Wake, TypeOK, Left, Tries
<1>2. call'[c].pc = "sent" /\ call'[c].attempt = next
      /\ \A d \in Calls : d # c => call'[d] = call[d]
  BY DEF Wake, Goto, TypeOK
<1>3. <<c, next>> \in ToSend
  <2>1. <<c, next>> \in Attempt
    BY <1>1 DEF Attempt
  <2> QED
    BY <1>1, <2>1 DEF ToSend
<1>4. ToSend' = ToSend \ {<<c, next>>}
  <2>1. ASSUME NEW a \in Attempt
        PROVE  Left(a[1], a[2])' <=> Left(a[1], a[2]) /\ a # <<c, next>>
    <3>1. PICK d \in Calls, n \in Tries : a = <<d, n>>
      BY Pairs DEF Attempt
    <3>2. CASE d # c
      BY <1>2, <3>1, <3>2 DEF Left
    <3>3. CASE d = c
      <4>1. Left(d, n)' <=> next < n
        BY <1>2, <3>3 DEF Left
      <4>2. Left(d, n) <=> call[c].attempt < n
        BY <3>3 DEF Left, Wake
      <4>3. next < n <=> call[c].attempt < n /\ n # next
        BY <1>1 DEF Tries
      <4> QED
        BY <3>1, <3>3, <4>1, <4>2, <4>3
    <3> QED
      BY <3>2, <3>3
  <2> HIDE DEF next
  <2> QED
    BY <2>1 DEF ToSend
<1> HIDE DEF next
<1>5. Cardinality(ToSend') = Cardinality(ToSend) - 1
  BY <1>3, <1>4, Counts, FS_RemoveElement
<1>6. (Open' => Open) /\ (Open => traffic' = traffic + 1)
  BY DEF Wake, Open
<1>7. Cardinality(ToSend) \in Nat /\ traffic \in Nat /\ bound \in Int
  BY Counts DEF TypeOK
<1>8. Open => traffic + Cardinality(ToSend) <= bound
  BY DEF Traffic
<1> HIDE DEF bound
<1>9. Open' => traffic' + Cardinality(ToSend') <= bound
  BY <1>5, <1>6, <1>7, <1>8
<1> QED
  BY <1>9 DEF Traffic, bound

LEMMA TrafficStep ==
    ASSUME TypeOK, Traffic, [Next]_vars
    PROVE  Traffic'
<1>1. ASSUME NEW c \in Calls, call' = [call EXCEPT ![c] = Idle]
      PROVE  \A d \in Calls, n \in Tries :
                Left(d, n)' => Left(d, n) /\ d # c
  BY <1>1 DEF Left, Idle, TypeOK
<1>2. CASE Tick
  BY <1>2, TrafficKept DEF Tick, Left
<1>3. ASSUME NEW c \in Calls, Start(c) PROVE Traffic'
  BY <1>3 DEF Start, Open, Traffic
<1>4. ASSUME NEW c \in Calls, Retry(c) PROVE Traffic'
  <2>1. \A d \in Calls, n \in Tries : Left(d, n)' => Left(d, n)
    BY <1>4 DEF Retry, Goto, Left, TypeOK
  <2> QED
    BY <1>4, <2>1, TrafficKept DEF Retry, Open
<1>5. ASSUME NEW c \in Calls, Wake(c) PROVE Traffic'
  BY <1>5, TrafficSent
<1>6. ASSUME NEW c \in Calls, GiveUp(c) PROVE Traffic'
  <2>1. \A d \in Calls, n \in Tries : Left(d, n)' => Left(d, n) /\ d # c
    BY <1>1, <1>6 DEF GiveUp
  <2>2. CASE Open
    BY <1>6, <2>1, <2>2, TrafficKept DEF GiveUp, RecordFailure
  <2>3. CASE ~Open
    <3>1. traffic' = 0
      BY <1>6, <2>3 DEF GiveUp, RecordFailure
    <3>2. \A n \in Tries : ~Left(c, n)'
      BY <2>1
    <3>3. Cardinality(ToSend') <= (Cardinality(Calls) - 1) * MaxRetries
      BY <3>2, ToSendOfOthers
    <3>4. ToSend' \subseteq ToSend
      BY <2>1, FewerToSend
    <3>5. IsFiniteSet(ToSend')
      BY <3>4, Counts, FS_Subset
    <3>6. Cardinality(ToSend') \in Nat
      BY <3>5, FS_CardinalityType
    <3>7. traffic' + Cardinality(ToSend') = Cardinality(ToSend')
      BY <3>1, <3>6
    <3> QED
      BY <3>3, <3>7 DEF Traffic
  <2> QED
    BY <2>2, <2>3
<1>7. ASSUME NEW c \in Calls, Answer(c) PROVE Traffic'
  BY <1>7 DEF Answer, Open, Traffic
<1>8. ASSUME NEW c \in Calls, Break(c) PROVE Traffic'
  <2>1. \A d \in Calls, n \in Tries : Left(d, n)' => Left(d, n) /\ d # c
    BY <1>1, <1>8 DEF Break
  <2> QED
    BY <1>8, <2>1, TrafficKept DEF Break, Open
<1>9. CASE UNCHANGED vars
  BY <1>9, TrafficKept DEF vars, Open, Left
<1> QED
  BY <1>2, <1>3, <1>4, <1>5, <1>6, <1>7, <1>8, <1>9 DEF Next, Proceed

\* An open circuit is followed by no more attempts than the other calls have left,
\* MaxRetries each (_request does not look at the circuit before a retry).
THEOREM TrafficBounded == Spec => []OpenTrafficBounded
<1>1. Init => Traffic
  BY DEF Init, Traffic, Open
<1>2. TypeOK /\ Traffic => OpenTrafficBounded
  <2> SUFFICES ASSUME TypeOK, Traffic, Open PROVE traffic <= (Cardinality(Calls) - 1) * MaxRetries
    BY DEF OpenTrafficBounded
  <2> DEFINE bound == (Cardinality(Calls) - 1) * MaxRetries
  <2>1. traffic + Cardinality(ToSend) <= bound
    BY DEF Traffic
  <2>2. bound \in Int /\ Cardinality(ToSend) \in Nat /\ traffic \in Nat
    BY Counts DEF TypeOK
  <2> HIDE DEF bound
  <2>3. traffic <= bound
    BY <2>1, <2>2
  <2> QED
    BY <2>3 DEF bound
<1>3. TypeOK /\ Traffic /\ [Next]_vars => Traffic'
  BY TrafficStep
<1> QED
  BY <1>1, <1>2, <1>3, TypeCorrect, PTL DEF Spec

\* Inside the cooldown nobody starts a call, and no failure, sleep or retry closes
\* the circuit: only the answer to an attempt that was sent does (_record_success).
THEOREM ClosedByAnswers == Spec => ClosedEarlyByAnswer
<1>1. ASSUME TypeOK, [Next]_vars, Open, ~Admits, openFor' = None
      PROVE  \E c \in Calls : call[c].pc = "sent" /\ call'[c].pc = "idle"
  <2>1. None \notin 0..Cooldown
    BY ConstantsAssumption DEF ConstantsAssumption
  <2>2. openFor \in 0..Cooldown
    BY <1>1 DEF TypeOK, Open
  <2>3. ~Tick
    BY <1>1, <2>1, <2>2, ConstantsAssumption DEF ConstantsAssumption, Tick
  <2>4. ASSUME NEW c \in Calls PROVE ~Start(c)
    BY <1>1 DEF Start
  <2>5. ASSUME NEW c \in Calls, Retry(c) \/ Wake(c) \/ Break(c) PROVE FALSE
    BY <1>1, <2>5 DEF Retry, Wake, Break, Open
  <2>6. ASSUME NEW c \in Calls, GiveUp(c) PROVE FALSE
    <3>1. openFor' \in {0, openFor}
      BY <2>6 DEF GiveUp, RecordFailure
    <3>2. 0 \in 0..Cooldown
      BY ConstantsAssumption DEF ConstantsAssumption
    <3> QED
      BY <1>1, <2>1, <2>2, <3>1, <3>2
  <2>7. ~UNCHANGED vars
    BY <1>1 DEF vars, Open
  <2>8. PICK c \in Calls : Answer(c)
    BY <1>1, <2>3, <2>4, <2>5, <2>6, <2>7 DEF Next, Proceed
  <2>9. call[c].pc = "sent" /\ call'[c].pc = "idle"
    BY <1>1, <2>8 DEF Answer, Idle, TypeOK
  <2> QED
    BY <2>9
<1>2. TypeOK /\ [Next]_vars =>
        [Open /\ ~Admits /\ openFor' = None =>
            \E c \in Calls : call[c].pc = "sent" /\ call'[c].pc = "idle"]_vars
  BY <1>1
<1> QED
  BY <1>2, TypeCorrect, PTL DEF Spec, ClosedEarlyByAnswer
=============================================================================
