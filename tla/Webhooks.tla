------------------------------ MODULE Webhooks ------------------------------
(***************************************************************************)
(* The webhooks of one workspace: subscriptions come and go, and each      *)
(* research event is dispatched to those there are when it happens, one    *)
(* after the other, by the executor of the run (_dispatch_webhooks).       *)
(* Executors dispatch side by side and are interrupted while they await an *)
(* answer or sleep before a retry.                                         *)
(***************************************************************************)
EXTENDS Naturals, FiniteSets

CONSTANTS
    Hooks,       \* subscriptions ever created
    BadHooks,    \* those whose URL _webhook_url accepts and httpx refuses
    Events,      \* dispatches ever begun
    MaxRetries,  \* webhook_max_retries
    MaxCrashes,  \* bound: how often the process dies
    None

ASSUME ConstantsAssumption ==
    /\ BadHooks \subseteq Hooks
    /\ IsFiniteSet(Hooks) /\ IsFiniteSet(Events)
    /\ MaxRetries \in Nat /\ MaxCrashes \in Nat
    /\ None \notin Hooks

VARIABLES
    subs,      \* webhook_subscriptions: "absent", "active" or "deleted"
    dispatch,  \* per event: how far its dispatch is
    received,  \* at the receivers: how often a hook was sent an event
    audit,     \* webhook events in audit_events: <<event, hook, outcome>>
    crashes

vars == <<subs, dispatch, received, audit, crashes>>

NotBegun == [pc |-> "none", snapshot |-> {}, pending |-> {}, hook |-> None, tries |-> 0]

TypeOK ==
    /\ subs \in [Hooks -> {"absent", "active", "deleted"}]
    /\ dispatch \in [Events ->
            [pc : {"none", "sending", "over", "lost"},
             snapshot : SUBSET Hooks, pending : SUBSET Hooks,
             hook : Hooks \cup {None}, tries : 0..MaxRetries]]
    /\ received \in [Events \X Hooks -> Nat]
    /\ audit \subseteq Events \X (Hooks \cup {None}) \X {"delivered", "failed"}
    /\ crashes \in 0..MaxCrashes
    /\ \A e \in Events : dispatch[e].pc = "sending" => dispatch[e].hook \in Hooks

Init ==
    /\ subs = [h \in Hooks |-> "absent"]
    /\ dispatch = [e \in Events |-> NotBegun]
    /\ received = [x \in Events \X Hooks |-> 0]
    /\ audit = {}
    /\ crashes = 0

-----------------------------------------------------------------------------
\* create_webhook, delete_webhook
Subscribe(h) ==
    /\ subs[h] = "absent"
    /\ subs' = [subs EXCEPT ![h] = "active"]
    /\ UNCHANGED <<dispatch, received, audit, crashes>>

Unsubscribe(h) ==
    /\ subs[h] = "active"
    /\ subs' = [subs EXCEPT ![h] = "deleted"]
    /\ UNCHANGED <<dispatch, received, audit, crashes>>

\* The dispatch turns to one of the hooks of its list, or is over.
Turn(e, d, pending) ==
    \/ /\ pending = {}
       /\ dispatch' = [dispatch EXCEPT ![e] =
                        [d EXCEPT !.pc = "over", !.pending = {}, !.hook = None, !.tries = 0]]
    \/ \E h \in pending :
        dispatch' = [dispatch EXCEPT ![e] =
            [d EXCEPT !.pc = "sending", !.pending = pending \ {h}, !.hook = h, !.tries = 0]]

\* webhook_deliveries, and the first of them
Begin(e) ==
    LET active == {h \in Hooks : subs[h] = "active"} IN
    /\ dispatch[e].pc = "none"
    /\ Turn(e, [NotBegun EXCEPT !.snapshot = active], active)
    /\ UNCHANGED <<subs, received, audit, crashes>>

\* no encryption key: every delivery is recorded as failed and none is tried
NoCipher(e) ==
    LET active == {h \in Hooks : subs[h] = "active"} IN
    /\ dispatch[e].pc = "none"
    /\ audit' = audit \cup {<<e, h, "failed">> : h \in active}
    /\ dispatch' = [dispatch EXCEPT ![e] =
                        [NotBegun EXCEPT !.pc = "over", !.snapshot = active]]
    /\ UNCHANGED <<subs, received, crashes>>

Receive(e) == received' = [received EXCEPT ![<<e, dispatch[e].hook>>] = @ + 1]

\* record_audit, and on to the next hook
Conclude(e, outcome) ==
    /\ audit' = audit \cup {<<e, dispatch[e].hook, outcome>>}
    /\ Turn(e, dispatch[e], dispatch[e].pending)
    /\ UNCHANGED <<subs, crashes>>

Sending(e) == dispatch[e].pc = "sending" /\ dispatch[e].hook \notin BadHooks

\* a 2xx answer
Deliver(e) ==
    /\ Sending(e)
    /\ Receive(e)
    /\ Conclude(e, "delivered")

Retry_Forever(e) ==
    /\ Sending(e)
    /\ dispatch' = [dispatch EXCEPT ![e].tries = (@ + 1) % (MaxRetries + 1)]
    /\ UNCHANGED <<subs, received, audit, crashes>>

Retry_OffByOne(e) ==
    /\ Sending(e) /\ dispatch[e].tries <= MaxRetries
    /\ Receive(e) \/ UNCHANGED received
    /\ dispatch' = [dispatch EXCEPT ![e].tries = @ + 1]
    /\ UNCHANGED <<subs, audit, crashes>>

\* another answer, or none: the receiver may or may not have had the event
Retry(e) ==
    /\ Sending(e) /\ dispatch[e].tries < MaxRetries
    /\ Receive(e) \/ UNCHANGED received
    /\ dispatch' = [dispatch EXCEPT ![e].tries = @ + 1]
    /\ UNCHANGED <<subs, audit, crashes>>

GiveUp_Silent(e) ==
    /\ Sending(e) /\ dispatch[e].tries = MaxRetries
    /\ Receive(e) \/ UNCHANGED received
    /\ Turn(e, dispatch[e], dispatch[e].pending)
    /\ UNCHANGED <<subs, audit, crashes>>

GiveUp_AsDelivered(e) ==
    /\ Sending(e) /\ dispatch[e].tries = MaxRetries
    /\ Receive(e) \/ UNCHANGED received
    /\ Conclude(e, "delivered")

\* ... after the last retry
GiveUp(e) ==
    /\ Sending(e) /\ dispatch[e].tries = MaxRetries
    /\ Receive(e) \/ UNCHANGED received
    /\ Conclude(e, "failed")

\* a secret that is empty or cannot be decrypted: ValueError, no attempt
BadSecret(e) ==
    /\ dispatch[e].pc = "sending" /\ dispatch[e].tries = 0
    /\ UNCHANGED received
    /\ Conclude(e, "failed")

\* httpx.InvalidURL is neither an HTTPError nor a ValueError: it ends the whole
\* dispatch, for which _safe_dispatch_webhooks records one failure
Raise(e) ==
    /\ dispatch[e].pc = "sending" /\ dispatch[e].hook \in BadHooks
    /\ audit' = audit \cup {<<e, None, "failed">>}
    /\ dispatch' = [dispatch EXCEPT ![e] = [@ EXCEPT !.pc = "over", !.pending = {}, !.hook = None]]
    /\ UNCHANGED <<subs, received, crashes>>

\* The process dies; nothing remembers what it was dispatching.
Crash ==
    /\ crashes < MaxCrashes
    /\ crashes' = crashes + 1
    /\ dispatch' = [e \in Events |-> IF dispatch[e].pc # "sending" THEN dispatch[e]
                        ELSE [dispatch[e] EXCEPT !.pc = "lost", !.hook = None]]
    /\ UNCHANGED <<subs, received, audit>>

Proceed(e) == Deliver(e) \/ Retry(e) \/ GiveUp(e) \/ BadSecret(e) \/ Raise(e)

Next ==
    \/ \E h \in Hooks : Subscribe(h) \/ Unsubscribe(h)
    \/ \E e \in Events : Begin(e) \/ NoCipher(e) \/ Proceed(e)
    \/ Crash

Spec == Init /\ [][Next]_vars

\* Every attempt has a timeout (webhook_timeout_seconds), every sleep ends.
FairSpec == Spec /\ \A e \in Events : WF_vars(Proceed(e))

-----------------------------------------------------------------------------
(* Properties.                                                             *)

Over(e) == dispatch[e].pc = "over"
Outcomes(e, h) == {o \in {"delivered", "failed"} : <<e, h, o>> \in audit}

\* When a dispatch is over the audit log has one outcome for every subscription
\* it concerned, however dispatches overlap and subscriptions change meanwhile,
\* unless it was cut short, which the log tells as well.
Accounted ==
    \A e \in Events : Over(e) =>
        \/ <<e, None, "failed">> \in audit
        \/ \A h \in dispatch[e].snapshot : Cardinality(Outcomes(e, h)) = 1

\* "delivered" is never recorded of an event that the hook was not sent, and
\* retries are bounded: nobody gets an event more often than there are tries.
DeliveriesReal ==
    \A e \in Events, h \in Hooks :
        /\ <<e, h, "delivered">> \in audit => received[<<e, h>>] >= 1
        /\ received[<<e, h>>] <= MaxRetries + 1

\* A dispatch ends, so the executor of the run is free again.
DispatchEnds == \A e \in Events : dispatch[e].pc = "sending" ~> dispatch[e].pc # "sending"
=============================================================================
