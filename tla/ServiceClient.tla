--------------------------- MODULE ServiceClient ---------------------------
(***************************************************************************)
(* ServiceClient, the HTTP boundary around one platform service: bounded   *)
(* retries and a circuit breaker, shared by the calls an asyncio process   *)
(* makes at the same time (research runs under way, a CRM import).         *)
(*                                                                         *)
(* A call is interrupted only where it awaits: while its request is out    *)
(* ("sent") and while it sleeps before a retry ("asleep").  How long an    *)
(* answer or a sleep takes is left open, so every backoff is covered.      *)
(***************************************************************************)
EXTENDS Naturals, FiniteSets

CONSTANTS
    Calls,       \* coroutines that can be inside _request at the same time
    MaxRetries,  \* max_retries
    Threshold,   \* circuit_failure_threshold
    Cooldown,    \* circuit_cooldown_seconds, in ticks of the clock
    None         \* Python's None

ASSUME ConstantsAssumption ==
    /\ IsFiniteSet(Calls)
    /\ MaxRetries \in Nat /\ Cooldown \in Nat
    /\ Threshold \in Nat \ {0}
    /\ None \notin Nat

VARIABLES
    failures,  \* _consecutive_failures
    openFor,   \* the time since _circuit_opened_at, up to Cooldown, or None
    call,      \* where each call is, and which attempt it is at
    traffic    \* history: attempts sent since the circuit was last opened

vars == <<failures, openFor, call, traffic>>

Idle == [pc |-> "idle", attempt |-> 0]
InFlight == {c \in Calls : call[c].pc # "idle"}
Open == openFor # None

Admits_NeverAgain == ~Open

\* what _check_circuit lets through
Admits == Open => openFor >= Cooldown

TypeOK ==
    /\ failures \in Nat
    /\ openFor \in 0..Cooldown \cup {None}
    /\ call \in [Calls -> [pc : {"idle", "sent", "asleep"}, attempt : 0..MaxRetries]]
    /\ \A c \in Calls : call[c].pc = "asleep" => call[c].attempt < MaxRetries
    /\ traffic \in Nat

Init ==
    /\ failures = 0
    /\ openFor = None
    /\ call = [c \in Calls |-> Idle]
    /\ traffic = 0

Goto(c, pc, attempt) == call' = [call EXCEPT ![c] = [pc |-> pc, attempt |-> attempt]]

Start_Unchecked(c) ==
    /\ call[c].pc = "idle"
    /\ Goto(c, "sent", 0)
    /\ UNCHANGED <<failures, openFor, traffic>>

Start_KeepsCount(c) ==
    /\ call[c].pc = "idle"
    /\ Admits
    /\ openFor' = None
    /\ Goto(c, "sent", 0)
    /\ UNCHANGED <<failures, traffic>>

Start_WithoutCooldown(c) ==
    /\ call[c].pc = "idle"
    /\ failures' = IF Open THEN 0 ELSE failures
    /\ openFor' = None
    /\ Goto(c, "sent", 0)
    /\ UNCHANGED traffic

\* _check_circuit, then the first attempt.  After the cooldown any number of
\* calls may go ahead, with a count that starts at zero.  A call that is
\* refused raises ServiceCircuitOpenError and changes nothing.
Start(c) ==
    /\ call[c].pc = "idle"
    /\ Admits
    /\ failures' = IF Open THEN 0 ELSE failures
    /\ openFor' = None
    /\ Goto(c, "sent", 0)
    /\ UNCHANGED traffic

RecordFailure_OffByOne ==
    /\ failures' = failures + 1
    /\ openFor' = IF failures > Threshold THEN 0 ELSE openFor
    /\ traffic' = IF Open THEN traffic ELSE 0

\* _record_failure: one more failure of an open circuit stamps it again
RecordFailure ==
    /\ failures' = failures + 1
    /\ openFor' = IF failures' >= Threshold THEN 0 ELSE openFor
    /\ traffic' = IF Open THEN traffic ELSE 0

Retry_OffByOne(c) ==
    /\ call[c].pc = "sent" /\ call[c].attempt <= MaxRetries
    /\ Goto(c, "asleep", call[c].attempt)
    /\ UNCHANGED <<failures, openFor, traffic>>

\* 429, 5xx or a TransportError, and attempts are left
Retry(c) ==
    /\ call[c].pc = "sent" /\ call[c].attempt < MaxRetries
    /\ Goto(c, "asleep", call[c].attempt)
    /\ UNCHANGED <<failures, openFor, traffic>>

Wake_SameAttempt(c) ==
    /\ call[c].pc = "asleep"
    /\ Goto(c, "sent", call[c].attempt)
    /\ traffic' = IF Open THEN traffic + 1 ELSE traffic
    /\ UNCHANGED <<failures, openFor>>

\* the next attempt, which does not look at the circuit
Wake(c) ==
    /\ call[c].pc = "asleep"
    /\ Goto(c, "sent", call[c].attempt + 1)
    /\ traffic' = IF Open THEN traffic + 1 ELSE traffic
    /\ UNCHANGED <<failures, openFor>>

\* ... and none is left
GiveUp(c) ==
    /\ call[c].pc = "sent" /\ call[c].attempt = MaxRetries
    /\ RecordFailure
    /\ call' = [call EXCEPT ![c] = Idle]

\* any other status, 4xx included: _record_success, whatever was in force
Answer(c) ==
    /\ call[c].pc = "sent"
    /\ failures' = 0 /\ openFor' = None
    /\ call' = [call EXCEPT ![c] = Idle]
    /\ UNCHANGED traffic

\* any other exception (undecodable answer, redirects, cancellation) leaves
\* _request unrecorded
Break(c) ==
    /\ call[c].pc # "idle"
    /\ call' = [call EXCEPT ![c] = Idle]
    /\ UNCHANGED <<failures, openFor, traffic>>

Tick ==
    /\ Open /\ openFor < Cooldown
    /\ openFor' = openFor + 1
    /\ UNCHANGED <<failures, call, traffic>>

Proceed(c) == Retry(c) \/ Wake(c) \/ GiveUp(c) \/ Answer(c) \/ Break(c)

Next == Tick \/ \E c \in Calls : Start(c) \/ Proceed(c)

Spec == Init /\ [][Next]_vars

\* Every request has a timeout and every sleep ends; the clock goes on.
\* Nothing obliges anybody to start a call.
FairSpec == Spec /\ WF_vars(Tick) /\ \A c \in Calls : WF_vars(Proceed(c))

-----------------------------------------------------------------------------
(* Properties.                                                             *)

\* The count and the stamp are kept apart and written by calls that overlap,
\* and yet the circuit is open exactly when the count has reached the
\* threshold; so after a cooldown it takes Threshold new failures to open it.
OpenAtThreshold == Open <=> failures >= Threshold

\* What each call that was under way when the circuit opened can still add.
\* The count never passes the threshold by more than the other calls.
FailuresBounded ==
    IF Open THEN failures + Cardinality(InFlight) < Threshold + Cardinality(Calls)
            ELSE failures < Threshold

\* An open circuit does not stop the retries of calls under way, but the
\* service sees no more than those: MaxRetries for each of the other calls.
OpenTrafficBounded == Open => traffic <= (Cardinality(Calls) - 1) * MaxRetries

\* Calls that fail while the circuit is open stamp it again and prolong the
\* cooldown, but not for ever: in the end the circuit lets a call through.
OpenEnds == Open ~> Admits

\* Every call returns or raises.
CallsEnd == \A c \in Calls : call[c].pc # "idle" ~> call[c].pc = "idle"

\* Inside the cooldown nobody starts a call; the circuit is closed before its
\* time only by the answer to an attempt of a call that was let through before.
ClosedEarlyByAnswer ==
    [][Open /\ ~Admits /\ openFor' = None =>
        \E c \in Calls : call[c].pc = "sent" /\ call'[c].pc = "idle"]_vars
=============================================================================
