------------------------------ MODULE CrmOAuth ------------------------------
(***************************************************************************)
(* The OAuth connection of one workspace to one CRM provider: the one-time *)
(* states of the authorization, the row of crm_connections, and the        *)
(* handlers that connect, refresh, synchronise and disconnect it.  Rows    *)
(* are unique per workspace and provider, so others do not interfere.      *)
(*                                                                         *)
(* One API process: a handler is interrupted only where it awaits the      *)
(* provider.  A request that the provider has served and whose answer is   *)
(* still on its way is a step of its own: the provider may have rotated    *)
(* the refresh token that the row still holds.                             *)
(***************************************************************************)
EXTENDS Naturals, FiniteSets

CONSTANTS
    Handlers,    \* coroutines that can be inside a handler at the same time
    States,      \* bound: OAuth states ever created
    Accounts,    \* accounts at the provider that a user may authorize
    MaxSerial,   \* bound: refresh tokens the provider ever issues
    MaxId,       \* bound: connections ever created
    MaxCrashes,  \* bound: how often the process dies
    None

ASSUME ConstantsAssumption == {MaxSerial, MaxId, MaxCrashes} \subseteq Nat

VARIABLES
    states,     \* crm_oauth_states
    exchanges,  \* history: how many codes were presented with each state
    conn,       \* the row of crm_connections, or None
    nextId,     \* the id the next row gets
    imported,   \* whose contacts are stored, by connection: <<id, account>>
    handler,    \* what each handler is waiting for, and its locals
    live,       \* at the provider: the refresh tokens it honours
    nextSerial, \* ... and the serial number of the next one
    rotates,    \* ... whether it replaces a refresh token it has honoured
    lost,       \* history: tokens replaced in an answer that never arrived
    overlapped, \* history: a handler began while another was waiting
    crashes

vars == <<states, exchanges, conn, nextId, imported, handler, live, nextSerial,
          rotates, lost, overlapped, crashes>>

Serials == 1..MaxSerial
Ids == 1..MaxId

\* What the provider hands out: an access token of owner and, unless serial is
\* 0, a refresh token.
Tokens == [owner : Accounts, serial : Serials \cup {0}]
Connections == [id : Ids, account : Accounts, token : Tokens]

ASSUME NoneAssumption == None \notin Accounts \cup Tokens

NoHandler == [pc |-> "idle", sync |-> FALSE, again |-> FALSE, id |-> 0,
              token |-> None, code |-> None, answer |-> None]

HandlerStates ==
    [pc : {"idle", "exchange", "refresh", "fetch"},
     sync : BOOLEAN, again : BOOLEAN, id : Ids \cup {0},
     token : Tokens \cup {None}, code : Accounts \cup {None},
     answer : Tokens \cup {None}]

\* locals are set when they are used
LocalsSet(x) ==
    /\ x.pc = "exchange" => x.code \in Accounts
    /\ x.pc \in {"refresh", "fetch"} => x.id \in Ids /\ x.token \in Tokens
    /\ x.pc = "refresh" => x.token.serial \in Serials

TypeOK ==
    /\ states \in [States -> {"absent", "fresh", "used", "expired"}]
    /\ exchanges \in [States -> Nat]
    /\ conn \in Connections \cup {None}
    /\ nextId \in 1..(MaxId + 1)
    /\ imported \subseteq Ids \X Accounts
    /\ handler \in [Handlers -> HandlerStates]
    /\ \A h \in Handlers : LocalsSet(handler[h])
    /\ live \subseteq Serials
    /\ nextSerial \in 1..(MaxSerial + 1)
    /\ rotates \in BOOLEAN
    /\ lost \subseteq Serials
    /\ overlapped \in BOOLEAN
    /\ crashes \in 0..MaxCrashes

Init ==
    /\ states = [s \in States |-> "absent"]
    /\ exchanges = [s \in States |-> 0]
    /\ conn = None /\ nextId = 1
    /\ imported = {}
    /\ handler = [h \in Handlers |-> NoHandler]
    /\ live = {} /\ nextSerial = 1 /\ rotates \in BOOLEAN
    /\ lost = {} /\ overlapped = FALSE /\ crashes = 0

Provider == <<live, nextSerial, rotates>>
Store == <<states, exchanges, nextId, imported>>
History == <<lost, overlapped, crashes>>

Goto(h, x) == handler' = [handler EXCEPT ![h] = x]
Free(h) == handler[h].pc = "idle"

\* A request is taken up by an idle handler, which goes on to wait.
Take(h, x) ==
    /\ Free(h)
    /\ Goto(h, x)
    /\ overlapped' = (overlapped \/ \E g \in Handlers : ~Free(g))
    /\ UNCHANGED <<lost, crashes>>

-----------------------------------------------------------------------------
(* Authorization.                                                          *)

\* start_crm_oauth: a new state, bound to the workspace
StartOAuth(s) ==
    /\ states[s] = "absent"
    /\ states' = [states EXCEPT ![s] = "fresh"]
    /\ UNCHANGED <<exchanges, conn, nextId, imported, handler, Provider, History>>

Expire(s) ==
    /\ states[s] = "fresh"
    /\ states' = [states EXCEPT ![s] = "expired"]
    /\ UNCHANGED <<exchanges, conn, nextId, imported, handler, Provider, History>>

Callback_StateKept(h, s, account) ==
    /\ states[s] = "fresh"
    /\ states' = states
    /\ exchanges' = [exchanges EXCEPT ![s] = @ + 1]
    /\ Take(h, [NoHandler EXCEPT !.pc = "exchange", !.code = account])
    /\ UNCHANGED <<conn, nextId, imported, Provider>>

\* complete_crm_oauth, consume_oauth_state: the state is spent, and its code is
\* presented to the provider
Callback(h, s, account) ==
    /\ states[s] = "fresh"
    /\ states' = [states EXCEPT ![s] = "used"]
    /\ exchanges' = [exchanges EXCEPT ![s] = @ + 1]
    /\ Take(h, [NoHandler EXCEPT !.pc = "exchange", !.code = account])
    /\ UNCHANGED <<conn, nextId, imported, Provider>>

\* ... or the user refused, or there is no code: a 400, and it is spent as well
CallbackRefused(s) ==
    /\ states[s] = "fresh"
    /\ states' = [states EXCEPT ![s] = "used"]
    /\ UNCHANGED <<exchanges, conn, nextId, imported, handler, Provider, History>>

Connect_KeepsToken(h) ==
    LET token == handler[h].answer IN
    /\ handler[h].pc = "exchange" /\ token # None
    /\ \/ conn = None /\ nextId \in Ids /\ nextId' = nextId + 1
          /\ conn' = [id |-> nextId, account |-> token.owner, token |-> token]
       \/ conn # None /\ nextId' = nextId
          /\ conn' = [conn EXCEPT !.account = token.owner]
    /\ Goto(h, NoHandler)
    /\ UNCHANGED <<states, exchanges, imported, Provider, History>>

\* ... exchange_code returned: upsert_crm_connection inserts or overwrites
Connect(h) ==
    LET token == handler[h].answer IN
    /\ handler[h].pc = "exchange" /\ token # None
    /\ \/ conn = None /\ nextId \in Ids /\ nextId' = nextId + 1
          /\ conn' = [id |-> nextId, account |-> token.owner, token |-> token]
       \/ conn # None /\ nextId' = nextId
          /\ conn' = [conn EXCEPT !.account = token.owner, !.token = token]
    /\ Goto(h, NoHandler)
    /\ UNCHANGED <<states, exchanges, imported, Provider, History>>

\* delete_crm_connection; the contacts imported from it stay
Disconnect ==
    /\ conn # None
    /\ conn' = None
    /\ UNCHANGED <<Store, handler, Provider, History>>

-----------------------------------------------------------------------------
(* Refresh and synchronisation.  The secret is read once, at the start.    *)

Reading(pc, sync) ==
    [NoHandler EXCEPT !.pc = pc, !.sync = sync, !.id = conn.id, !.token = conn.token]

Refresh_Unguarded(h) ==
    /\ conn # None
    /\ Take(h, Reading("refresh", FALSE))
    /\ UNCHANGED <<Store, conn, Provider>>

\* refresh_crm_connection; without a refresh token it answers 409
Refresh(h) ==
    /\ conn # None
    /\ conn.token.serial # 0
    /\ Take(h, Reading("refresh", FALSE))
    /\ UNCHANGED <<Store, conn, Provider>>

\* sync_crm_connection: it refreshes first if the access token has expired
Sync(h, expired) ==
    /\ conn # None
    /\ Take(h, Reading(IF expired /\ conn.token.serial # 0 THEN "refresh" ELSE "fetch", TRUE))
    /\ UNCHANGED <<Store, conn, Provider>>

StoreTokens_ByProvider(h) ==
    IF conn # None
    THEN conn' = [conn EXCEPT !.token = handler[h].answer]
    ELSE conn' = [id |-> handler[h].id, account |-> handler[h].answer.owner,
                  token |-> handler[h].answer]

StoreTokens_AccessOnly(h) ==
    IF conn # None /\ conn.id = handler[h].id
    THEN conn' = [conn EXCEPT !.token.owner = handler[h].answer.owner]
    ELSE conn' = conn

\* update_crm_connection_tokens, by id; a row that is gone is not an error
StoreTokens(h) ==
    IF conn # None /\ conn.id = handler[h].id
    THEN conn' = [conn EXCEPT !.token = handler[h].answer]
    ELSE conn' = conn

\* refresh returned: the tokens are stored, and a sync goes on to fetch
Refreshed(h) ==
    /\ handler[h].pc = "refresh" /\ handler[h].answer # None
    /\ StoreTokens(h)
    /\ Goto(h, IF handler[h].sync
               THEN [handler[h] EXCEPT !.pc = "fetch", !.answer = None]
               ELSE NoHandler)
    /\ UNCHANGED <<Store, Provider, History>>

Unauthorized_EveryTime(h) ==
    /\ handler[h].pc = "fetch"
    /\ handler[h].token.serial # 0
    /\ Goto(h, [handler[h] EXCEPT !.pc = "refresh", !.again = TRUE])
    /\ UNCHANGED <<Store, conn, Provider, History>>

\* fetch_contacts answered 401: once more, with the refresh token read at the
\* start, even if this very sync has replaced it meanwhile
Unauthorized(h) ==
    /\ handler[h].pc = "fetch" /\ ~handler[h].again
    /\ handler[h].token.serial # 0
    /\ Goto(h, [handler[h] EXCEPT !.pc = "refresh", !.again = TRUE])
    /\ UNCHANGED <<Store, conn, Provider, History>>

\* ... or returned contacts, which upsert_crm_contacts stores under the
\* connection's id whether or not the connection is still there
Import(h) ==
    /\ handler[h].pc = "fetch"
    /\ imported' = imported \cup {<<handler[h].id, handler[h].token.owner>>}
    /\ Goto(h, NoHandler)
    /\ UNCHANGED <<states, exchanges, conn, nextId, Provider, History>>

\* httpx.HTTPError or ValueError: a 502, and nothing is stored.  An answer
\* that was on its way is lost.
Replaced(h) ==
    LET x == handler[h] IN
    IF x.pc = "refresh" /\ x.answer # None /\ x.answer # x.token
    THEN {x.token.serial} ELSE {}

Fail(h) ==
    /\ ~Free(h)
    /\ Goto(h, NoHandler)
    /\ lost' = lost \cup Replaced(h)
    /\ UNCHANGED <<Store, conn, Provider, overlapped, crashes>>

\* The process dies with everything its handlers were waiting for.
Crash ==
    /\ crashes < MaxCrashes
    /\ crashes' = crashes + 1
    /\ handler' = [h \in Handlers |-> NoHandler]
    /\ lost' = lost \cup UNION {Replaced(h) : h \in Handlers}
    /\ UNCHANGED <<Store, conn, Provider, overlapped>>

-----------------------------------------------------------------------------
(* The provider.  A request it refuses is a Fail of the handler.           *)

\* a code is good for an access token and, at most providers, a refresh token
Grant(h) ==
    /\ handler[h].pc = "exchange" /\ handler[h].answer = None
    /\ \/ nextSerial \in Serials
          /\ Goto(h, [handler[h] EXCEPT !.answer =
                        [owner |-> handler[h].code, serial |-> nextSerial]])
          /\ live' = live \cup {nextSerial}
          /\ nextSerial' = nextSerial + 1 /\ rotates' = rotates
       \/ Goto(h, [handler[h] EXCEPT !.answer = [owner |-> handler[h].code, serial |-> 0]])
          /\ UNCHANGED Provider
    /\ UNCHANGED <<Store, conn, History>>

Renew_NoFallback(h) ==
    /\ handler[h].pc = "refresh" /\ handler[h].answer = None
    /\ handler[h].token.serial \in live /\ ~rotates
    /\ Goto(h, [handler[h] EXCEPT !.answer = [handler[h].token EXCEPT !.serial = 0]])
    /\ UNCHANGED <<Store, conn, Provider, History>>

\* A refresh token is good for a new access token.  If no new refresh token
\* comes with it, refresh keeps the one it presented (_token_from_payload) ...
Renew(h) ==
    /\ handler[h].pc = "refresh" /\ handler[h].answer = None
    /\ handler[h].token.serial \in live /\ ~rotates
    /\ Goto(h, [handler[h] EXCEPT !.answer = handler[h].token])
    /\ UNCHANGED <<Store, conn, Provider, History>>

\* ... but a provider that rotates tokens gives a new one for the old.
Rotate(h) ==
    /\ handler[h].pc = "refresh" /\ handler[h].answer = None
    /\ handler[h].token.serial \in live /\ rotates
    /\ nextSerial \in Serials
    /\ Goto(h, [handler[h] EXCEPT !.answer = [handler[h].token EXCEPT !.serial = nextSerial]])
    /\ live' = (live \ {handler[h].token.serial}) \cup {nextSerial}
    /\ nextSerial' = nextSerial + 1
    /\ UNCHANGED <<Store, conn, rotates, History>>

-----------------------------------------------------------------------------
Proceed(h) ==
    \/ Connect(h) \/ Refreshed(h) \/ Unauthorized(h) \/ Import(h) \/ Fail(h)
    \/ Grant(h) \/ Renew(h) \/ Rotate(h)

Next ==
    \/ \E s \in States : StartOAuth(s) \/ Expire(s) \/ CallbackRefused(s)
    \/ \E h \in Handlers :
        \/ \E s \in States, account \in Accounts : Callback(h, s, account)
        \/ \E expired \in BOOLEAN : Sync(h, expired)
        \/ Refresh(h) \/ Proceed(h)
    \/ Disconnect
    \/ Crash

Spec == Init /\ [][Next]_vars

\* Requests to the provider have a timeout (20 s for tokens, 30 s for contacts).
FairSpec == Spec /\ \A h \in Handlers : WF_vars(Proceed(h))

-----------------------------------------------------------------------------
(* Properties.                                                             *)

\* A state is good for one code at most, and none once it has expired (README:
\* "a usage unique et expire").
StateOneTime ==
    \A s \in States :
        exchanges[s] <= IF states[s] = "used" THEN 1 ELSE 0

\* However refreshes, syncs, reconnections and disconnections overlap, the row
\* keeps a refresh token that the provider honours, or a handler is about to
\* store its replacement, or the replacement was in an answer that got lost.
RefreshTokenKept ==
    conn # None /\ conn.token.serial # 0 =>
        \/ conn.token.serial \in live
        \/ conn.token.serial \in lost
        \/ \E h \in Handlers :
            /\ handler[h].pc = "refresh" /\ handler[h].answer # None
            /\ handler[h].id = conn.id /\ handler[h].token = conn.token

\* The inductive invariant behind RefreshTokenKept (CrmOAuthProofs).

\* a handler that has read the row's token, and one whose answer is on its way
Holds(h) == handler[h].pc \in {"refresh", "fetch"}
Answered(h) == handler[h].pc \in {"exchange", "refresh"} /\ handler[h].answer # None

\* The refresh tokens in use have been issued; a provider that does not rotate
\* them honours them all.
SerialsIssued ==
    /\ \A s \in live : s < nextSerial
    /\ conn # None => conn.token.serial < nextSerial
    /\ \A h \in Handlers :
        /\ Holds(h) => handler[h].token.serial < nextSerial
        /\ Answered(h) => handler[h].answer.serial < nextSerial
    /\ ~rotates => \A s \in Serials : s < nextSerial => s \in live

\* The refresh token in an answer that is on its way is honoured, and nobody
\* else has it yet.
AnswersFresh ==
    rotates => \A h \in Handlers : Answered(h) /\ handler[h].answer.serial # 0 =>
        /\ handler[h].answer.serial \in live
        /\ conn # None => conn.token.serial # handler[h].answer.serial
        /\ \A g \in Handlers :
            /\ Holds(g) => handler[g].token.serial # handler[h].answer.serial
            /\ Answered(g) /\ g # h =>
                    handler[g].answer.serial # handler[h].answer.serial

\* Whoever has the row's refresh token has read it from this very row.
TokenOfRow ==
    rotates /\ conn # None /\ conn.token.serial # 0 =>
        \A h \in Handlers : Holds(h) /\ handler[h].token.serial = conn.token.serial =>
            handler[h].id = conn.id /\ handler[h].token = conn.token

\* A sync that fetches contacts has dealt with the answer to its refresh.
AnswersTaken == \A h \in Handlers : handler[h].pc = "fetch" => handler[h].answer = None

IInv ==
    /\ TypeOK /\ SerialsIssued /\ AnswersFresh /\ TokenOfRow /\ AnswersTaken
    /\ RefreshTokenKept

\* A provider that answers a refresh without a new refresh token does not make
\* the row lose the one it has: only a new authorization may (refresh).
RefreshTokenNotDropped ==
    [][conn # None /\ conn' # None /\ conn.token.serial # 0 /\ conn'.token.serial = 0 =>
        \E h \in Handlers : handler[h].pc = "exchange" /\ handler'[h].pc = "idle"]_vars

\* A refresh or a sync that is still under way when the connection is removed
\* does not bring it back: only a new authorization does, with a new id.
DisconnectLasts ==
    [][conn = None /\ conn' # None =>
        /\ conn'.id = nextId
        /\ \E h \in Handlers : handler[h].pc = "exchange" /\ handler'[h].pc = "idle"]_vars

\* As long as a refresh, a sync or an authorization starts only when the last
\* one is over, the tokens are those of the account the connection shows
\* (external_account_id), whatever fails and whenever it is disconnected ...
TokensOfAccount == ~overlapped /\ conn # None => conn.token.owner = conn.account

\* ... and a sync stores contacts of that account only.
ImportsOfAccount ==
    [][\A x \in imported' \ imported :
        ~overlapped /\ conn # None => x = <<conn.id, conn.account>>]_vars

\* Every handler answers: a sync asks for new tokens twice at most.
HandlersEnd == \A h \in Handlers : ~Free(h) ~> Free(h)
=============================================================================
