--------------------------- MODULE CrmOAuthProofs ---------------------------
(* CrmOAuth for any number of handlers, accounts, refresh tokens, failures *)
(* and crashes.                                                            *)
EXTENDS CrmOAuth, TLAPS

-----------------------------------------------------------------------------
(* Types.                                                                  *)

\* A handler that moves to a state of the right type keeps the types.
LEMMA GotoType ==
    ASSUME TypeOK, NEW h \in Handlers, NEW x \in HandlerStates, LocalsSet(x), Goto(h, x)
    PROVE  /\ handler' \in [Handlers -> HandlerStates]
           /\ \A g \in Handlers : LocalsSet(handler'[g])
BY DEF TypeOK, Goto

\* What a request that is taken up, or given up, leaves in its handler.
LEMMA NoHandlerType == NoHandler \in HandlerStates /\ LocalsSet(NoHandler)
BY DEF NoHandler, HandlerStates, LocalsSet

LEMMA ExchangeType ==
    ASSUME NEW account \in Accounts
    PROVE  LET x == [NoHandler EXCEPT !.pc = "exchange", !.code = account]
           IN  x \in HandlerStates /\ LocalsSet(x)
BY DEF NoHandler, HandlerStates, LocalsSet

LEMMA ReadingType ==
    ASSUME TypeOK, conn # None, NEW pc \in {"refresh", "fetch"}, NEW sync \in BOOLEAN,
           pc = "refresh" => conn.token.serial # 0
    PROVE  Reading(pc, sync) \in HandlerStates /\ LocalsSet(Reading(pc, sync))
<1>1. conn \in Connections
  BY DEF TypeOK
<1> QED
  BY <1>1 DEF Reading, NoHandler, HandlerStates, LocalsSet, Connections, Tokens

LEMMA AnswerType ==
    ASSUME TypeOK, NEW h \in Handlers, NEW token \in Tokens
    PROVE  LET x == [handler[h] EXCEPT !.answer = token]
           IN  x \in HandlerStates /\ LocalsSet(x)
<1>1. handler[h] \in HandlerStates /\ LocalsSet(handler[h])
  BY DEF TypeOK
<1> QED
  BY <1>1 DEF HandlerStates, LocalsSet

LEMMA FetchType ==
    ASSUME TypeOK, NEW h \in Handlers, handler[h].pc = "refresh"
    PROVE  LET x == [handler[h] EXCEPT !.pc = "fetch", !.answer = None]
           IN  x \in HandlerStates /\ LocalsSet(x)
<1>1. handler[h] \in HandlerStates /\ LocalsSet(handler[h])
  BY DEF TypeOK
<1> QED
  BY <1>1 DEF HandlerStates, LocalsSet

LEMMA AgainType ==
    ASSUME TypeOK, NEW h \in Handlers, handler[h].pc = "fetch", handler[h].token.serial # 0
    PROVE  LET x == [handler[h] EXCEPT !.pc = "refresh", !.again = TRUE]
           IN  x \in HandlerStates /\ LocalsSet(x)
<1>1. handler[h] \in HandlerStates /\ LocalsSet(handler[h])
  BY DEF TypeOK
<1>2. handler[h].token.serial \in Serials
  BY <1>1 DEF LocalsSet, Tokens
<1> QED
  BY <1>1, <1>2 DEF HandlerStates, LocalsSet

LEMMA TypeInit == ASSUME Init PROVE TypeOK
<1> USE ConstantsAssumption DEF ConstantsAssumption
<1>1. handler \in [Handlers -> HandlerStates] /\ \A h \in Handlers : LocalsSet(handler[h])
  BY NoHandlerType DEF Init
<1>2. {MaxSerial, MaxId, MaxCrashes} \subseteq Nat
  BY DEF ConstantsAssumption
<1>3. /\ nextId \in 1..(MaxId + 1) /\ nextSerial \in 1..(MaxSerial + 1)
      /\ crashes \in 0..MaxCrashes
  BY <1>2 DEF Init
<1>4. states \in [States -> {"absent", "fresh", "used", "expired"}]
      /\ exchanges \in [States -> Nat]
  BY DEF Init
<1> QED
  BY <1>1, <1>3, <1>4 DEF Init, TypeOK

LEMMA TypeStep ==
    ASSUME TypeOK, [Next]_vars
    PROVE  TypeOK'
<1> USE ConstantsAssumption DEF ConstantsAssumption, Provider, Store, History
<1>1. ASSUME NEW s \in States, StartOAuth(s) \/ Expire(s) \/ CallbackRefused(s)
      PROVE  TypeOK'
  BY <1>1 DEF StartOAuth, Expire, CallbackRefused, TypeOK
<1>2. ASSUME NEW h \in Handlers, NEW s \in States, NEW account \in Accounts,
             Callback(h, s, account)
      PROVE  TypeOK'
  <2>1. /\ handler' \in [Handlers -> HandlerStates]
        /\ \A g \in Handlers : LocalsSet(handler'[g])
    BY <1>2, ExchangeType, GotoType DEF Callback, Take
  <2> QED
    BY <1>2, <2>1 DEF Callback, Take, TypeOK
<1>3. ASSUME NEW h \in Handlers, NEW pc \in {"refresh", "fetch"}, NEW sync \in BOOLEAN,
             conn # None, pc = "refresh" => conn.token.serial # 0,
             Take(h, Reading(pc, sync)), UNCHANGED <<Store, conn, Provider>>
      PROVE  TypeOK'
  <2>1. /\ handler' \in [Handlers -> HandlerStates]
        /\ \A g \in Handlers : LocalsSet(handler'[g])
    BY <1>3, ReadingType, GotoType DEF Take
  <2> QED
    BY <1>3, <2>1 DEF Take, TypeOK
<1>4. ASSUME NEW h \in Handlers, Refresh(h) PROVE TypeOK'
  BY <1>3, <1>4 DEF Refresh
<1>5. ASSUME NEW h \in Handlers, NEW expired \in BOOLEAN, Sync(h, expired) PROVE TypeOK'
  BY <1>3, <1>5 DEF Sync
<1>6. ASSUME NEW h \in Handlers, Connect(h) PROVE TypeOK'
  <2>1. handler[h].answer \in Tokens
    BY <1>6 DEF Connect, TypeOK, HandlerStates
  <2>2. /\ handler' \in [Handlers -> HandlerStates]
        /\ \A g \in Handlers : LocalsSet(handler'[g])
    BY <1>6, NoHandlerType, GotoType DEF Connect
  <2>3. conn' \in Connections
    <3>1. handler[h].answer.owner \in Accounts
      BY <2>1 DEF Tokens
    <3>2. CASE conn = None
      BY <1>6, <2>1, <3>1, <3>2 DEF Connect, Connections
    <3>3. CASE conn # None
      BY <1>6, <2>1, <3>1, <3>3 DEF Connect, TypeOK, Connections
    <3> QED
      BY <3>2, <3>3
  <2>4. nextId' \in 1..(MaxId + 1)
    BY <1>6 DEF Connect, TypeOK, Ids
  <2> QED
    BY <1>6, <2>2, <2>3, <2>4 DEF Connect, TypeOK
<1>7. ASSUME NEW h \in Handlers, Refreshed(h) PROVE TypeOK'
  <2>1. conn' \in Connections \cup {None}
    BY <1>7 DEF Refreshed, StoreTokens, TypeOK, HandlerStates, Connections
  <2>2. /\ handler' \in [Handlers -> HandlerStates]
        /\ \A g \in Handlers : LocalsSet(handler'[g])
    BY <1>7, FetchType, NoHandlerType, GotoType DEF Refreshed
  <2> QED
    BY <1>7, <2>1, <2>2 DEF Refreshed, TypeOK
<1>8. ASSUME NEW h \in Handlers, Unauthorized(h) PROVE TypeOK'
  <2>1. /\ handler' \in [Handlers -> HandlerStates]
        /\ \A g \in Handlers : LocalsSet(handler'[g])
    BY <1>8, AgainType, GotoType DEF Unauthorized
  <2> QED
    BY <1>8, <2>1 DEF Unauthorized, TypeOK
<1>9. ASSUME NEW h \in Handlers, Import(h) PROVE TypeOK'
  <2>1. /\ handler' \in [Handlers -> HandlerStates]
        /\ \A g \in Handlers : LocalsSet(handler'[g])
    BY <1>9, NoHandlerType, GotoType DEF Import
  <2>2. <<handler[h].id, handler[h].token.owner>> \in Ids \X Accounts
    BY <1>9 DEF Import, TypeOK, LocalsSet, Tokens
  <2> QED
    BY <1>9, <2>1, <2>2 DEF Import, TypeOK
<1>10. \A h \in Handlers : Replaced(h) \subseteq Serials
  BY DEF Replaced, TypeOK, LocalsSet
<1>11. ASSUME NEW h \in Handlers, Fail(h) PROVE TypeOK'
  <2>1. /\ handler' \in [Handlers -> HandlerStates]
        /\ \A g \in Handlers : LocalsSet(handler'[g])
    BY <1>11, NoHandlerType, GotoType DEF Fail
  <2> QED
    BY <1>10, <1>11, <2>1 DEF Fail, TypeOK
<1>12. ASSUME Crash PROVE TypeOK'
  <2>1. /\ handler' \in [Handlers -> HandlerStates]
        /\ \A g \in Handlers : LocalsSet(handler'[g])
    BY <1>12, NoHandlerType DEF Crash
  <2> QED
    BY <1>10, <1>12, <2>1 DEF Crash, TypeOK
<1>13. ASSUME NEW h \in Handlers, Grant(h) PROVE TypeOK'
  <2>1. handler[h].code \in Accounts
    BY <1>13 DEF Grant, TypeOK, LocalsSet
  <2>2. ASSUME NEW serial \in Serials \cup {0},
               Goto(h, [handler[h] EXCEPT !.answer =
                           [owner |-> handler[h].code, serial |-> serial]])
        PROVE  /\ handler' \in [Handlers -> HandlerStates]
               /\ \A g \in Handlers : LocalsSet(handler'[g])
    <3>1. [owner |-> handler[h].code, serial |-> serial] \in Tokens
      BY <2>1 DEF Tokens
    <3> QED
      BY <2>2, <3>1, AnswerType, GotoType
  <2>3. /\ handler' \in [Handlers -> HandlerStates]
        /\ \A g \in Handlers : LocalsSet(handler'[g])
    BY <1>13, <2>2 DEF Grant
  <2>4. /\ live' \subseteq Serials /\ nextSerial' \in 1..(MaxSerial + 1)
        /\ rotates' = rotates
    BY <1>13 DEF Grant, TypeOK, Serials
  <2> QED
    BY <1>13, <2>3, <2>4 DEF Grant, TypeOK
<1>14. ASSUME NEW h \in Handlers, Renew(h) PROVE TypeOK'
  <2>1. handler[h].token \in Tokens
    BY <1>14 DEF Renew, TypeOK, LocalsSet
  <2>2. /\ handler' \in [Handlers -> HandlerStates]
        /\ \A g \in Handlers : LocalsSet(handler'[g])
    BY <1>14, <2>1, AnswerType, GotoType DEF Renew
  <2> QED
    BY <1>14, <2>2 DEF Renew, TypeOK
<1>15. ASSUME NEW h \in Handlers, Rotate(h) PROVE TypeOK'
  <2>1. [handler[h].token EXCEPT !.serial = nextSerial] \in Tokens
    BY <1>15 DEF Rotate, TypeOK, LocalsSet, Tokens
  <2>2. /\ handler' \in [Handlers -> HandlerStates]
        /\ \A g \in Handlers : LocalsSet(handler'[g])
    BY <1>15, <2>1, AnswerType, GotoType DEF Rotate
  <2>3. live' \subseteq Serials /\ nextSerial' \in 1..(MaxSerial + 1)
    BY <1>15 DEF Rotate, TypeOK, Serials
  <2> QED
    BY <1>15, <2>2, <2>3 DEF Rotate, TypeOK
<1>16. CASE Disconnect
  BY <1>16 DEF Disconnect, TypeOK
<1>17. CASE UNCHANGED vars
  BY <1>17 DEF vars, TypeOK
<1> QED
  BY <1>1, <1>2, <1>4, <1>5, <1>6, <1>7, <1>8, <1>9, <1>11, <1>12, <1>13, <1>14, <1>15,
     <1>16, <1>17 DEF Next, Proceed

\* Every variable keeps its type, and the locals of a handler are set when they
\* are used, whatever the provider answers and whenever the process dies.
THEOREM TypeCorrect == Spec => []TypeOK
<1>1. Init => TypeOK
  BY TypeInit
<1>2. TypeOK /\ [Next]_vars => TypeOK'
  BY TypeStep
<1> QED
  BY <1>1, <1>2, PTL DEF Spec

-----------------------------------------------------------------------------
(* The refresh token of the row.  TypeStep gives TypeOK'; what is left of  *)
(* IInv is about the row, the handlers and the provider only.              *)

Rest == SerialsIssued /\ AnswersFresh /\ TokenOfRow /\ AnswersTaken /\ RefreshTokenKept

LEMMA Moved ==
    ASSUME TypeOK, NEW h \in Handlers, NEW x, Goto(h, x)
    PROVE  \A g \in Handlers : handler'[g] = IF g = h THEN x ELSE handler[g]
BY DEF TypeOK, Goto

\* The serials that occur are numbers.
LEMMA Numbers ==
    ASSUME TypeOK
    PROVE  /\ nextSerial \in Nat /\ Serials \subseteq Nat
           /\ conn # None => conn.token.serial \in Serials \cup {0}
           /\ \A h \in Handlers :
                /\ Holds(h) => handler[h].token.serial \in Serials \cup {0}
                /\ handler[h].pc = "refresh" => handler[h].token.serial \in Serials
                /\ Answered(h) => handler[h].answer.serial \in Serials \cup {0}
BY ConstantsAssumption DEF ConstantsAssumption, TypeOK, Serials, Connections, Tokens,
    HandlerStates, LocalsSet, Holds, Answered

LEMMA RestInit == ASSUME Init PROVE Rest
BY DEF Init, Rest, SerialsIssued, AnswersFresh, TokenOfRow, AnswersTaken, RefreshTokenKept,
    Holds, Answered, NoHandler, Serials

\* A handler that begins to wait for the exchange of a code.
LEMMA RestCallback ==
    ASSUME TypeOK, Rest, NEW h \in Handlers, NEW s \in States, NEW account \in Accounts,
           Callback(h, s, account)
    PROVE  Rest'
<1> DEFINE x == [NoHandler EXCEPT !.pc = "exchange", !.code = account]
<1>1. x.pc = "exchange" /\ x.answer = None
  BY DEF NoHandler
<1> HIDE DEF x
<1>2. \A g \in Handlers : handler'[g] = IF g = h THEN x ELSE handler[g]
  BY Moved DEF Callback, Take, x
<1>3. Free(h) /\ UNCHANGED <<conn, live, nextSerial, rotates, lost>>
  BY DEF Callback, Take, Provider
<1> QED
  BY <1>1, <1>2, <1>3 DEF Rest, SerialsIssued, AnswersFresh, TokenOfRow, AnswersTaken,
     RefreshTokenKept, Holds, Answered, Free

\* A handler that reads the row, to refresh it or to synchronise.
LEMMA RestReading ==
    ASSUME TypeOK, Rest, NEW h \in Handlers, NEW pc \in {"refresh", "fetch"},
           NEW sync \in BOOLEAN, conn # None, Take(h, Reading(pc, sync)),
           UNCHANGED <<Store, conn, Provider>>
    PROVE  Rest'
<1> DEFINE x == Reading(pc, sync)
<1>1. x.pc = pc /\ x.answer = None /\ x.id = conn.id /\ x.token = conn.token
  BY DEF NoHandler, Reading
<1> HIDE DEF x
<1>2. \A g \in Handlers : handler'[g] = IF g = h THEN x ELSE handler[g]
  BY Moved DEF Take, x
<1>3. Free(h) /\ UNCHANGED <<conn, live, nextSerial, rotates, lost>>
  BY DEF Take, Provider
<1> QED
  BY <1>1, <1>2, <1>3 DEF Rest, SerialsIssued, AnswersFresh, TokenOfRow, AnswersTaken,
     RefreshTokenKept, Holds, Answered, Free

\* A handler that answers; what its last answer replaced, if it has not stored it,
\* is lost.
LEMMA RestFail ==
    ASSUME TypeOK, Rest, NEW h \in Handlers, Goto(h, NoHandler),
           lost' = lost \cup Replaced(h), UNCHANGED <<conn, live, nextSerial, rotates>>
    PROVE  Rest'
<1>1. \A g \in Handlers : handler'[g] = IF g = h THEN NoHandler ELSE handler[g]
  BY Moved
<1>2. NoHandler.pc = "idle"
  BY DEF NoHandler
<1>3. SerialsIssued' /\ AnswersFresh' /\ TokenOfRow' /\ AnswersTaken'
  BY <1>1, <1>2 DEF Rest, SerialsIssued, AnswersFresh, TokenOfRow, AnswersTaken, Holds, Answered
<1>4. RefreshTokenKept'
  <2> SUFFICES ASSUME conn # None, conn.token.serial # 0, conn.token.serial \notin live,
                      handler[h].pc = "refresh", handler[h].answer # None,
                      handler[h].token = conn.token
               PROVE  conn.token.serial \in Replaced(h)
    BY <1>1 DEF Rest, RefreshTokenKept
  <2>1. rotates
    BY Numbers DEF Rest, SerialsIssued
  <2>2. handler[h].answer.serial # handler[h].token.serial
    BY <2>1 DEF Rest, AnswersFresh, Holds, Answered
  <2> QED
    BY <2>2 DEF Replaced
<1> QED
  BY <1>3, <1>4 DEF Rest

\* The answer that a handler is about to store: a token that is honoured, if it
\* has a refresh token, and that nobody else has.
LEMMA AnswerStored ==
    ASSUME TypeOK, Rest, NEW h \in Handlers, Answered(h)
    PROVE  /\ handler[h].answer.serial \in Serials \cup {0}
           /\ handler[h].answer.serial < nextSerial
           /\ handler[h].answer.serial # 0 => handler[h].answer.serial \in live
           /\ rotates /\ handler[h].answer.serial # 0 => \A g \in Handlers :
                /\ Holds(g) => handler[g].token.serial # handler[h].answer.serial
                /\ Answered(g) /\ g # h =>
                        handler[g].answer.serial # handler[h].answer.serial
BY Numbers DEF Rest, SerialsIssued, AnswersFresh

\* A row that takes its token from an answer; the handler holds at most what it
\* held before.
LEMMA RestStored ==
    ASSUME TypeOK, Rest, NEW h \in Handlers, Answered(h), NEW x,
           x.pc \in {"idle", "fetch"},
           x.pc = "fetch" => Holds(h) /\ x.answer = None /\ x.token = handler[h].token,
           Goto(h, x), conn'.token = handler[h].answer,
           UNCHANGED <<live, nextSerial, rotates, lost>>
    PROVE  Rest'
<1>1. \A g \in Handlers : handler'[g] = IF g = h THEN x ELSE handler[g]
  BY Moved
<1>2. SerialsIssued' /\ AnswersTaken'
  BY <1>1, AnswerStored DEF Rest, SerialsIssued, AnswersTaken, Holds, Answered
<1>3. AnswersFresh'
  BY <1>1, AnswerStored DEF Rest, AnswersFresh, Holds, Answered
<1>4. TokenOfRow'
  BY <1>1, AnswerStored DEF TokenOfRow, Holds, Answered
<1>5. RefreshTokenKept'
  BY AnswerStored DEF RefreshTokenKept
<1> QED
  BY <1>2, <1>3, <1>4, <1>5 DEF Rest

LEMMA RestConnect ==
    ASSUME TypeOK, Rest, NEW h \in Handlers, Connect(h)
    PROVE  Rest'
<1>1. Answered(h) /\ Goto(h, NoHandler)
  BY DEF Connect, Answered
<1>2. conn'.token = handler[h].answer
  <2>1. CASE conn = None
    BY <2>1 DEF Connect
  <2>2. CASE conn # None
    BY <2>2 DEF Connect, TypeOK, Connections
  <2> QED
    BY <2>1, <2>2
<1>3. NoHandler.pc = "idle"
  BY DEF NoHandler
<1>4. UNCHANGED <<live, nextSerial, rotates, lost>>
  BY DEF Connect, Provider, History
<1> QED
  BY <1>1, <1>2, <1>3, <1>4, RestStored

\* A row that is gone, or another one: the refreshed tokens are dropped.
LEMMA RestDropped ==
    ASSUME TypeOK, Rest, NEW h \in Handlers, handler[h].pc = "refresh", NEW x,
           x.pc \in {"idle", "fetch"},
           x.pc = "fetch" => x.answer = None /\ x.token = handler[h].token
                                             /\ x.id = handler[h].id,
           Goto(h, x), conn = None \/ conn.id # handler[h].id,
           UNCHANGED <<conn, live, nextSerial, rotates, lost>>
    PROVE  Rest'
<1>1. \A g \in Handlers : handler'[g] = IF g = h THEN x ELSE handler[g]
  BY Moved
<1> QED
  BY <1>1 DEF Rest, SerialsIssued, AnswersFresh, TokenOfRow, AnswersTaken, RefreshTokenKept,
     Holds, Answered

LEMMA RestRefreshed ==
    ASSUME TypeOK, Rest, NEW h \in Handlers, Refreshed(h)
    PROVE  Rest'
<1> DEFINE x == IF handler[h].sync
                THEN [handler[h] EXCEPT !.pc = "fetch", !.answer = None]
                ELSE NoHandler
<1>1. /\ x.pc \in {"idle", "fetch"}
      /\ x.pc = "fetch" => x.answer = None /\ x.token = handler[h].token
                                            /\ x.id = handler[h].id
  <2>1. handler[h] \in HandlerStates
    BY DEF TypeOK
  <2> QED
    BY <2>1 DEF NoHandler, HandlerStates
<1>2. Goto(h, x)
  BY DEF Refreshed
<1> HIDE DEF x
<1>3. /\ handler[h].pc = "refresh" /\ Holds(h) /\ Answered(h) /\ StoreTokens(h)
      /\ UNCHANGED <<live, nextSerial, rotates, lost>>
  BY DEF Refreshed, Holds, Answered, Provider, History
<1>4. CASE conn # None /\ conn.id = handler[h].id
  <2>1. conn'.token = handler[h].answer
    BY <1>3, <1>4 DEF StoreTokens, TypeOK, Connections
  <2> QED
    BY <1>1, <1>2, <1>3, <2>1, RestStored
<1>5. CASE conn = None \/ conn.id # handler[h].id
  BY <1>1, <1>2, <1>3, <1>5, RestDropped DEF StoreTokens
<1> QED
  BY <1>4, <1>5

LEMMA RestUnauthorized ==
    ASSUME TypeOK, Rest, NEW h \in Handlers, Unauthorized(h)
    PROVE  Rest'
<1> DEFINE x == [handler[h] EXCEPT !.pc = "refresh", !.again = TRUE]
<1>1. x.pc = "refresh" /\ x.answer = None /\ x.token = handler[h].token
      /\ x.id = handler[h].id
  <2>1. handler[h] \in HandlerStates
    BY DEF TypeOK
  <2> QED
    BY <2>1 DEF HandlerStates, Unauthorized, Rest, AnswersTaken
<1> HIDE DEF x
<1>2. \A g \in Handlers : handler'[g] = IF g = h THEN x ELSE handler[g]
  BY Moved DEF Unauthorized, x
<1>3. handler[h].pc = "fetch" /\ UNCHANGED <<conn, live, nextSerial, rotates, lost>>
  BY DEF Unauthorized, Provider, History
<1> QED
  BY <1>1, <1>2, <1>3 DEF Rest, SerialsIssued, AnswersFresh, TokenOfRow, AnswersTaken,
     RefreshTokenKept, Holds, Answered

LEMMA RestCrash ==
    ASSUME TypeOK, Rest, Crash
    PROVE  Rest'
<1>1. \A g \in Handlers : handler'[g] = NoHandler
  BY DEF Crash
<1>2. NoHandler.pc = "idle"
  BY DEF NoHandler
<1>3. UNCHANGED <<conn, live, nextSerial, rotates>>
  BY DEF Crash, Provider
<1>4. SerialsIssued' /\ AnswersFresh' /\ TokenOfRow' /\ AnswersTaken'
  BY <1>1, <1>2, <1>3 DEF Rest, SerialsIssued, AnswersFresh, TokenOfRow, AnswersTaken,
     Holds, Answered
<1>5. RefreshTokenKept'
  <2>1. lost' = lost \cup UNION {Replaced(h) : h \in Handlers}
    BY DEF Crash
  <2> SUFFICES ASSUME conn # None, conn.token.serial # 0, conn.token.serial \notin live,
                      NEW h \in Handlers, handler[h].pc = "refresh",
                      handler[h].answer # None, handler[h].token = conn.token
               PROVE  conn.token.serial \in Replaced(h)
    BY <1>3, <2>1 DEF Rest, RefreshTokenKept
  <2>2. rotates
    BY Numbers DEF Rest, SerialsIssued
  <2>3. handler[h].answer.serial # handler[h].token.serial
    BY <2>2 DEF Rest, AnswersFresh, Holds, Answered
  <2> QED
    BY <2>3 DEF Replaced
<1> QED
  BY <1>4, <1>5 DEF Rest

\* The provider answers the handler h, which goes on to wait where it waited.
AnsweredBy(h, token) ==
    /\ handler'[h].answer = token /\ token # None
    /\ \A g \in Handlers : handler'[g].pc = handler[g].pc /\ handler'[g].id = handler[g].id
                           /\ handler'[g].token = handler[g].token
    /\ \A g \in Handlers \ {h} : handler'[g] = handler[g]

LEMMA AnsweredByGoto ==
    ASSUME TypeOK, NEW h \in Handlers, NEW token \in Tokens,
           Goto(h, [handler[h] EXCEPT !.answer = token])
    PROVE  AnsweredBy(h, token)
<1>1. handler[h] \in HandlerStates
  BY DEF TypeOK
<1>2. \A g \in Handlers :
        handler'[g] = IF g = h THEN [handler[h] EXCEPT !.answer = token] ELSE handler[g]
  BY Moved
<1> QED
  BY <1>1, <1>2, NoneAssumption DEF AnsweredBy, HandlerStates

\* ... without a refresh token, or with the one that it honours still.
LEMMA RestSameToken ==
    ASSUME TypeOK, Rest, NEW h \in Handlers, NEW token \in Tokens,
           handler[h].pc \in {"exchange", "refresh"}, handler[h].answer = None,
           token.serial = 0 \/ (~rotates /\ token.serial \in live),
           AnsweredBy(h, token), UNCHANGED <<conn, live, nextSerial, rotates, lost>>
    PROVE  Rest'
<1>1. token.serial < nextSerial
  <2>1. nextSerial \in Nat \ {0}
    BY ConstantsAssumption DEF ConstantsAssumption, TypeOK
  <2> QED
    BY <2>1 DEF Rest, SerialsIssued
<1>2. SerialsIssued' /\ AnswersTaken'
  BY <1>1 DEF Rest, SerialsIssued, AnswersTaken, Holds, Answered, AnsweredBy
<1>3. AnswersFresh'
  BY DEF Rest, AnswersFresh, Holds, Answered, AnsweredBy
<1>4. TokenOfRow' /\ RefreshTokenKept'
  BY DEF Rest, TokenOfRow, RefreshTokenKept, Holds, AnsweredBy
<1> QED
  BY <1>2, <1>3, <1>4 DEF Rest

\* ... with a new refresh token, in place of old if it is one it honoured.
LEMMA RestNewToken ==
    ASSUME TypeOK, Rest, NEW h \in Handlers, NEW token \in Tokens, NEW old,
           handler[h].pc \in {"exchange", "refresh"}, handler[h].answer = None,
           nextSerial \in Serials, token.serial = nextSerial, AnsweredBy(h, token),
           live' = (live \ {old}) \cup {nextSerial}, nextSerial' = nextSerial + 1,
           old = 0 \/ (rotates /\ handler[h].pc = "refresh" /\ old = handler[h].token.serial),
           UNCHANGED <<conn, rotates, lost>>
    PROVE  Rest'
<1>1. /\ nextSerial \in Nat /\ nextSerial # 0 /\ live \subseteq Serials
      /\ Serials \subseteq Nat
  <2>1. nextSerial \in Nat /\ Serials \subseteq Nat
    BY Numbers
  <2>2. live \subseteq Serials
    BY DEF TypeOK
  <2>3. nextSerial # 0
    BY ConstantsAssumption DEF ConstantsAssumption, Serials
  <2> QED
    BY <2>1, <2>2, <2>3
<1>2. \A s \in Serials \cup {0} : s < nextSerial => s < nextSerial' /\ s # nextSerial
  BY <1>1
<1>3. \A s \in Serials : s < nextSerial' => s < nextSerial \/ s = nextSerial
  BY <1>1
<1>4. SerialsIssued'
  <2>1. \A s \in live' : s < nextSerial'
    <3>1. \A s \in live : s < nextSerial /\ s \in Serials
      BY <1>1 DEF Rest, SerialsIssued
    <3>2. nextSerial < nextSerial'
      BY <1>1
    <3> QED
      BY <1>2, <3>1, <3>2
  <2>2. conn' # None => conn'.token.serial < nextSerial'
    BY <1>2, Numbers DEF Rest, SerialsIssued
  <2>3. ASSUME NEW g \in Handlers
        PROVE  /\ Holds(g)' => handler'[g].token.serial < nextSerial'
               /\ Answered(g)' => handler'[g].answer.serial < nextSerial'
    <3>1. Holds(g)' => handler'[g].token.serial < nextSerial'
      BY <1>2, Numbers DEF Rest, SerialsIssued, Holds, AnsweredBy
    <3>2. CASE g = h
      BY <1>1, <3>1, <3>2 DEF AnsweredBy
    <3>3. CASE g # h
      <4>1. handler'[g] = handler[g]
        BY <3>3 DEF AnsweredBy
      <4>2. Answered(g) =>
              handler[g].answer.serial \in Serials \cup {0} /\ handler[g].answer.serial < nextSerial
        BY Numbers DEF Rest, SerialsIssued
      <4> QED
        BY <1>2, <3>1, <4>1, <4>2 DEF Answered
    <3> QED
      BY <3>2, <3>3
  <2>4. ~rotates' => \A s \in Serials : s < nextSerial' => s \in live'
    BY <1>1, <1>3 DEF Rest, SerialsIssued, Serials
  <2> QED
    BY <2>1, <2>2, <2>3, <2>4 DEF SerialsIssued
<1>5. AnswersTaken'
  BY DEF Rest, AnswersTaken, AnsweredBy
<1>6. AnswersFresh'
  <2> SUFFICES ASSUME rotates, NEW f \in Handlers, Answered(f)',
                      handler'[f].answer.serial # 0
               PROVE  /\ handler'[f].answer.serial \in live'
                      /\ conn # None => conn.token.serial # handler'[f].answer.serial
                      /\ \A g \in Handlers :
                          /\ Holds(g)' => handler'[g].token.serial # handler'[f].answer.serial
                          /\ Answered(g)' /\ g # f =>
                                handler'[g].answer.serial # handler'[f].answer.serial
    BY DEF AnswersFresh
  <2>1. CASE f = h
    BY <1>2, <2>1, Numbers DEF Rest, SerialsIssued, Holds, Answered, AnsweredBy
  <2>2. CASE f # h
    <3>1. Answered(f) /\ handler'[f] = handler[f]
      BY <2>2 DEF Answered, AnsweredBy
    <3>2. handler[f].answer.serial # nextSerial
      BY <1>2, <3>1, Numbers DEF Rest, SerialsIssued
    <3>3. handler[f].answer.serial # old
      BY <3>1 DEF Rest, AnswersFresh, Holds
    <3> QED
      BY <3>1, <3>2, <3>3 DEF Rest, AnswersFresh, Holds, Answered, AnsweredBy
  <2> QED
    BY <2>1, <2>2
<1>7. TokenOfRow'
  BY DEF Rest, TokenOfRow, Holds, AnsweredBy
<1>8. RefreshTokenKept'
  <2> SUFFICES ASSUME conn # None, conn.token.serial # 0, conn.token.serial = old
               PROVE  RefreshTokenKept'
    BY DEF Rest, RefreshTokenKept, AnsweredBy
  <2>1. handler[h].id = conn.id /\ handler[h].token = conn.token
    BY DEF Rest, TokenOfRow, Holds
  <2> QED
    BY <2>1 DEF RefreshTokenKept, AnsweredBy
<1> QED
  BY <1>4, <1>5, <1>6, <1>7, <1>8 DEF Rest

LEMMA RestGrant ==
    ASSUME TypeOK, Rest, NEW h \in Handlers, Grant(h)
    PROVE  Rest'
<1> DEFINE token(serial) == [owner |-> handler[h].code, serial |-> serial]
<1>1. handler[h].code \in Accounts
  BY DEF Grant, TypeOK, LocalsSet
<1>2. \A serial \in Serials \cup {0} : token(serial) \in Tokens /\ token(serial).serial = serial
  BY <1>1 DEF Tokens
<1>3. handler[h].pc = "exchange" /\ handler[h].answer = None /\ UNCHANGED <<conn, rotates, lost>>
  BY DEF Grant, History, Provider
<1>4. CASE /\ nextSerial \in Serials
           /\ Goto(h, [handler[h] EXCEPT !.answer = token(nextSerial)])
           /\ live' = live \cup {nextSerial} /\ nextSerial' = nextSerial + 1
  <2>1. token(nextSerial) \in Tokens /\ token(nextSerial).serial = nextSerial
    BY <1>2, <1>4
  <2>2. AnsweredBy(h, token(nextSerial))
    BY <1>4, <2>1, AnsweredByGoto
  <2>3. live' = (live \ {0}) \cup {nextSerial}
    BY <1>4, ConstantsAssumption DEF ConstantsAssumption, TypeOK, Serials
  <2> HIDE DEF token
  <2> QED
    BY <1>3, <1>4, <2>1, <2>2, <2>3, RestNewToken
<1>5. CASE /\ Goto(h, [handler[h] EXCEPT !.answer = token(0)])
           /\ UNCHANGED Provider
  <2>1. token(0) \in Tokens /\ token(0).serial = 0
    BY <1>2
  <2>2. AnsweredBy(h, token(0))
    BY <1>5, <2>1, AnsweredByGoto
  <2> HIDE DEF token
  <2> QED
    BY <1>3, <1>5, <2>1, <2>2, RestSameToken DEF Provider
<1> QED
  BY <1>4, <1>5 DEF Grant

LEMMA RestRenew ==
    ASSUME TypeOK, Rest, NEW h \in Handlers, Renew(h)
    PROVE  Rest'
<1>1. handler[h].token \in Tokens
  BY DEF Renew, TypeOK, LocalsSet
<1>2. AnsweredBy(h, handler[h].token)
  BY <1>1, AnsweredByGoto DEF Renew
<1> QED
  BY <1>1, <1>2, RestSameToken DEF Renew, Provider, History

LEMMA RestRotate ==
    ASSUME TypeOK, Rest, NEW h \in Handlers, Rotate(h)
    PROVE  Rest'
<1> DEFINE token == [handler[h].token EXCEPT !.serial = nextSerial]
<1>1. handler[h].token \in Tokens
  BY DEF Rotate, TypeOK, LocalsSet
<1>2. token \in Tokens /\ token.serial = nextSerial
  BY <1>1 DEF Rotate, Tokens
<1>3. AnsweredBy(h, token)
  BY <1>2, AnsweredByGoto DEF Rotate
<1> HIDE DEF token
<1> QED
  BY <1>2, <1>3, RestNewToken DEF Rotate, History

LEMMA RestStep ==
    ASSUME TypeOK, Rest, [Next]_vars
    PROVE  Rest'
<1>1. ASSUME UNCHANGED <<conn, handler, live, nextSerial, rotates, lost>>
      PROVE  Rest'
  BY <1>1 DEF Rest, SerialsIssued, AnswersFresh, TokenOfRow, AnswersTaken, RefreshTokenKept,
     Holds, Answered
<1>2. ASSUME NEW s \in States, StartOAuth(s) \/ Expire(s) \/ CallbackRefused(s)
      PROVE  Rest'
  BY <1>1, <1>2 DEF StartOAuth, Expire, CallbackRefused, Provider, History
<1>3. ASSUME NEW h \in Handlers, Refresh(h) PROVE Rest'
  BY <1>3, RestReading DEF Refresh
<1>4. ASSUME NEW h \in Handlers, NEW expired \in BOOLEAN, Sync(h, expired) PROVE Rest'
  BY <1>4, RestReading DEF Sync
<1>5. ASSUME NEW h \in Handlers, Import(h) PROVE Rest'
  <2>1. Replaced(h) = {}
    BY <1>5 DEF Import, Replaced
  <2> QED
    BY <1>5, <2>1, RestFail DEF Import, Provider, History
<1>6. ASSUME NEW h \in Handlers, Fail(h) PROVE Rest'
  BY <1>6, RestFail DEF Fail, Provider
<1>7. CASE Disconnect
  BY <1>7 DEF Disconnect, Provider, History, Rest, SerialsIssued, AnswersFresh, TokenOfRow,
     AnswersTaken, RefreshTokenKept, Holds, Answered
<1>8. CASE UNCHANGED vars
  BY <1>1, <1>8 DEF vars
<1> QED
  BY <1>2, <1>3, <1>4, <1>5, <1>6, <1>7, <1>8, RestCallback, RestConnect, RestRefreshed,
     RestUnauthorized, RestGrant, RestRenew, RestRotate, RestCrash DEF Next, Proceed

\* The inductive invariant: what is under way at the provider and in the handlers
\* accounts for every refresh token that may end up in the row.
THEOREM Inductive == Spec => []IInv
<1>1. Init => IInv
  BY TypeInit, RestInit DEF IInv, Rest
<1>2. IInv /\ [Next]_vars => IInv'
  BY TypeStep, RestStep DEF IInv, Rest
<1> QED
  BY <1>1, <1>2, PTL DEF Spec

\* However refreshes, syncs, reconnections and disconnections overlap, the row
\* keeps a refresh token that the provider honours, or a handler is about to store
\* its replacement, or the replacement was in an answer that got lost.
THEOREM RefreshTokensKept == Spec => []RefreshTokenKept
<1>1. IInv => RefreshTokenKept
  BY DEF IInv
<1> QED
  BY <1>1, Inductive, PTL

\* A state is good for one code at most, and none once it has expired.
THEOREM StatesOneTime == Spec => []StateOneTime
<1>1. Init => StateOneTime
  BY DEF Init, StateOneTime
<1>2. TypeOK /\ StateOneTime /\ [Next]_vars => StateOneTime'
  <2> SUFFICES ASSUME TypeOK, StateOneTime, [Next]_vars PROVE StateOneTime'
    OBVIOUS
  <2>1. ASSUME NEW s \in States, StartOAuth(s) \/ Expire(s) \/ CallbackRefused(s)
        PROVE  StateOneTime'
    BY <2>1 DEF StartOAuth, Expire, CallbackRefused, StateOneTime, TypeOK
  <2>2. ASSUME NEW h \in Handlers, NEW s \in States, NEW account \in Accounts,
               Callback(h, s, account)
        PROVE  StateOneTime'
    <3>1. exchanges[s] = 0
      BY <2>2 DEF Callback, StateOneTime, TypeOK
    <3> QED
      BY <2>2, <3>1 DEF Callback, StateOneTime, TypeOK
  <2>3. ASSUME UNCHANGED <<states, exchanges>>
        PROVE  StateOneTime'
    BY <2>3 DEF StateOneTime
  <2>4. ASSUME NEW h \in Handlers, Proceed(h) PROVE UNCHANGED <<states, exchanges>>
    BY <2>4 DEF Proceed, Connect, Refreshed, Unauthorized, Import, Fail, Grant, Renew, Rotate,
       Store
  <2>5. ASSUME \/ Disconnect \/ Crash \/ UNCHANGED vars
               \/ \E h \in Handlers : Refresh(h) \/ \E expired \in BOOLEAN : Sync(h, expired)
        PROVE  UNCHANGED <<states, exchanges>>
    BY <2>5 DEF Disconnect, Crash, Refresh, Sync, Store, vars
  <2> QED
    BY <2>1, <2>2, <2>3, <2>4, <2>5 DEF Next
<1> QED
  BY <1>1, <1>2, TypeCorrect, PTL DEF Spec

\* A refresh or a sync that is still under way when the connection is removed does
\* not bring it back: only a new authorization does, with a new id.
THEOREM DisconnectionsLast == Spec => DisconnectLasts
<1>1. ASSUME TypeOK, [Next]_vars, conn = None, conn' # None
      PROVE  /\ conn'.id = nextId
             /\ \E h \in Handlers : handler[h].pc = "exchange" /\ handler'[h].pc = "idle"
  <2>1. PICK h \in Handlers : Connect(h)
    BY <1>1 DEF Next, vars, StartOAuth, Expire, CallbackRefused, Callback, Sync, Refresh,
       Proceed, Refreshed, StoreTokens, Unauthorized, Import, Fail, Grant, Renew, Rotate,
       Disconnect, Crash
  <2>2. handler'[h].pc = "idle"
    BY <1>1, <2>1, Moved DEF Connect, NoHandler
  <2> QED
    BY <1>1, <2>1, <2>2 DEF Connect
<1>2. TypeOK /\ [Next]_vars =>
        [conn = None /\ conn' # None =>
            /\ conn'.id = nextId
            /\ \E h \in Handlers : handler[h].pc = "exchange" /\ handler'[h].pc = "idle"]_vars
  BY <1>1
<1> QED
  BY <1>2, TypeCorrect, PTL DEF Spec, DisconnectLasts

-----------------------------------------------------------------------------
(* Accounts.  A refresh is answered for the account whose token was        *)
(* presented; as long as no two requests overlap, only one handler is      *)
(* waiting, and what it has read of the row is what the row shows.         *)

RenewalsKept ==
    \A h \in Handlers : handler[h].pc = "refresh" /\ handler[h].answer # None =>
        handler[h].answer.serial # 0 /\ handler[h].answer.owner = handler[h].token.owner

OneRequest == \A g, h \in Handlers : ~Free(g) /\ ~Free(h) => g = h

RowRead ==
    conn # None =>
        /\ conn.token.owner = conn.account
        /\ \A h \in Handlers : Holds(h) =>
            handler[h].id = conn.id /\ handler[h].token.owner = conn.account

Apart == ~overlapped => OneRequest /\ RowRead

LEMMA ApartInit == ASSUME Init PROVE RenewalsKept /\ Apart
BY DEF Init, RenewalsKept, Apart, OneRequest, RowRead, Free, Holds, NoHandler

\* A request that is taken up: if none is waiting, it is the only one.
LEMMA ApartTake ==
    ASSUME IInv, RenewalsKept, Apart, NEW h \in Handlers, NEW x, Take(h, x), conn' = conn,
           x.answer = None,
           x.pc \in {"refresh", "fetch"} =>
                conn # None /\ x.id = conn.id /\ x.token = conn.token
    PROVE  RenewalsKept' /\ Apart'
<1>1. \A g \in Handlers : handler'[g] = IF g = h THEN x ELSE handler[g]
  BY Moved DEF Take, IInv
<1>2. RenewalsKept'
  BY <1>1 DEF RenewalsKept
<1>3. ASSUME ~overlapped' PROVE OneRequest' /\ RowRead'
  <2>1. ~overlapped /\ \A g \in Handlers : Free(g)
    BY <1>3 DEF Take
  <2>2. \A g \in Handlers : g # h => Free(g)'
    BY <1>1, <2>1 DEF Free
  <2>3. OneRequest'
    BY <2>2 DEF OneRequest
  <2>4. RowRead'
    BY <1>1, <2>1 DEF Apart, RowRead, Holds, Free
  <2> QED
    BY <2>3, <2>4
<1> QED
  BY <1>2, <1>3 DEF Apart

\* A handler that goes on waiting, or answers, and has read nothing new.
LEMMA ApartGoto ==
    ASSUME IInv, RenewalsKept, Apart, NEW h \in Handlers, NEW x, Goto(h, x), ~Free(h),
           x.pc \in {"refresh", "fetch"} =>
                Holds(h) /\ x.id = handler[h].id /\ x.token = handler[h].token,
           x.pc = "refresh" /\ x.answer # None =>
                x.answer.serial # 0 /\ x.answer.owner = handler[h].token.owner,
           overlapped' = overlapped,
           conn' # None /\ ~overlapped => conn'.token.owner = conn'.account,
           conn' # None /\ ~overlapped /\ x.pc # "idle" =>
                conn # None /\ conn'.id = conn.id /\ conn'.account = conn.account
    PROVE  RenewalsKept' /\ Apart'
<1>1. \A g \in Handlers : handler'[g] = IF g = h THEN x ELSE handler[g]
  BY Moved DEF IInv
<1>2. RenewalsKept'
  BY <1>1 DEF RenewalsKept
<1>3. ASSUME ~overlapped' PROVE OneRequest' /\ RowRead'
  <2>1. \A g \in Handlers : g # h => Free(g) /\ Free(g)'
    BY <1>1, <1>3 DEF Apart, OneRequest, Free
  <2>2. OneRequest'
    BY <2>1 DEF OneRequest
  <2>3. ASSUME conn' # None, NEW g \in Handlers, Holds(g)'
        PROVE  handler'[g].id = conn'.id /\ handler'[g].token.owner = conn'.account
    <3>1. g = h /\ handler'[h] = x /\ x.pc \in {"refresh", "fetch"}
      BY <1>1, <2>1, <2>3 DEF Holds, Free
    <3> QED
      BY <1>3, <2>3, <3>1 DEF Apart, RowRead
  <2> QED
    BY <1>3, <2>2, <2>3 DEF RowRead
<1> QED
  BY <1>2, <1>3 DEF Apart

LEMMA ApartStep ==
    ASSUME IInv, RenewalsKept, Apart, [Next]_vars
    PROVE  RenewalsKept' /\ Apart'
<1> USE DEF Provider, Store, History
<1>1. TypeOK /\ \A h \in Handlers : handler[h] \in HandlerStates /\ LocalsSet(handler[h])
  BY DEF IInv, TypeOK
<1>2. NoHandler.pc = "idle" /\ NoHandler.answer = None
  BY DEF NoHandler
<1>3. ASSUME UNCHANGED <<handler, conn, overlapped>> PROVE RenewalsKept' /\ Apart'
  BY <1>3 DEF RenewalsKept, Apart, OneRequest, RowRead, Free, Holds
<1>4. ASSUME NEW s \in States, StartOAuth(s) \/ Expire(s) \/ CallbackRefused(s)
      PROVE  RenewalsKept' /\ Apart'
  BY <1>3, <1>4 DEF StartOAuth, Expire, CallbackRefused
<1>5. ASSUME NEW h \in Handlers, NEW s \in States, NEW account \in Accounts,
             Callback(h, s, account)
      PROVE  RenewalsKept' /\ Apart'
  <2> DEFINE x == [NoHandler EXCEPT !.pc = "exchange", !.code = account]
  <2>1. x.pc = "exchange" /\ x.answer = None
    BY DEF NoHandler
  <2>2. Take(h, x) /\ conn' = conn
    BY <1>5 DEF Callback
  <2> HIDE DEF x
  <2> QED
    BY <2>1, <2>2, ApartTake
<1>6. ASSUME NEW h \in Handlers, NEW pc \in {"refresh", "fetch"}, NEW sync \in BOOLEAN,
             conn # None, Take(h, Reading(pc, sync)), conn' = conn
      PROVE  RenewalsKept' /\ Apart'
  <2> DEFINE x == Reading(pc, sync)
  <2>1. x.pc = pc /\ x.answer = None /\ x.id = conn.id /\ x.token = conn.token
    BY DEF Reading, NoHandler
  <2>2. Take(h, x)
    BY <1>6
  <2> HIDE DEF x
  <2> QED
    BY <1>6, <2>1, <2>2, ApartTake
<1>7. ASSUME NEW h \in Handlers, Refresh(h) \/ \E expired \in BOOLEAN : Sync(h, expired)
      PROVE  RenewalsKept' /\ Apart'
  BY <1>6, <1>7 DEF Refresh, Sync
<1>8. ASSUME NEW h \in Handlers, Connect(h) PROVE RenewalsKept' /\ Apart'
  <2>1. conn'.token.owner = conn'.account
    <3>1. CASE conn = None
      BY <1>8, <3>1 DEF Connect
    <3>2. CASE conn # None
      BY <1>1, <1>8, <3>2 DEF Connect, TypeOK, Connections
    <3> QED
      BY <3>1, <3>2
  <2>2. Goto(h, NoHandler) /\ ~Free(h) /\ overlapped' = overlapped
    BY <1>8 DEF Connect, Free
  <2> QED
    BY <1>2, <2>1, <2>2, ApartGoto
<1>9. ASSUME NEW h \in Handlers, Refreshed(h) PROVE RenewalsKept' /\ Apart'
  <2> DEFINE x == IF handler[h].sync
                  THEN [handler[h] EXCEPT !.pc = "fetch", !.answer = None] ELSE NoHandler
  <2>1. /\ x.pc \in {"idle", "fetch"} /\ x.answer = None
        /\ x.pc = "fetch" => x.id = handler[h].id /\ x.token = handler[h].token
    BY <1>1, <1>2 DEF HandlerStates
  <2>2. Goto(h, x) /\ ~Free(h) /\ Holds(h) /\ overlapped' = overlapped
    BY <1>9 DEF Refreshed, Free, Holds
  <2> HIDE DEF x
  <2>3. conn' # None => conn # None /\ conn'.id = conn.id /\ conn'.account = conn.account
    BY <1>1, <1>9 DEF Refreshed, StoreTokens, TypeOK, Connections
  <2>4. conn' # None /\ ~overlapped => conn'.token.owner = conn'.account
    <3>1. handler[h].answer.owner = handler[h].token.owner
      BY <1>9 DEF Refreshed, RenewalsKept
    <3>2. conn' = conn \/ (conn # None /\ conn'.token = handler[h].answer)
      BY <1>1, <1>9 DEF Refreshed, StoreTokens, TypeOK, Connections
    <3> QED
      BY <2>2, <2>3, <3>1, <3>2 DEF Apart, RowRead
  <2> QED
    BY <2>1, <2>2, <2>3, <2>4, ApartGoto
<1>10. ASSUME conn' # None, UNCHANGED conn, ~overlapped
       PROVE  conn # None /\ conn'.token.owner = conn'.account
  BY <1>10 DEF Apart, RowRead
<1>11. ASSUME NEW h \in Handlers, Unauthorized(h) PROVE RenewalsKept' /\ Apart'
  <2> DEFINE x == [handler[h] EXCEPT !.pc = "refresh", !.again = TRUE]
  <2>1. /\ x.answer = None /\ x.id = handler[h].id /\ x.token = handler[h].token
        /\ Goto(h, x) /\ ~Free(h) /\ Holds(h) /\ UNCHANGED <<conn, overlapped>>
    BY <1>1, <1>11 DEF Unauthorized, HandlerStates, IInv, AnswersTaken, Free, Holds
  <2> HIDE DEF x
  <2> QED
    BY <1>10, <2>1, ApartGoto
<1>12. ASSUME NEW h \in Handlers, Import(h) \/ Fail(h) PROVE RenewalsKept' /\ Apart'
  <2>1. Goto(h, NoHandler) /\ ~Free(h) /\ UNCHANGED <<conn, overlapped>>
    BY <1>12 DEF Import, Fail, Free
  <2> QED
    BY <1>2, <1>10, <2>1, ApartGoto
<1>13. ASSUME NEW h \in Handlers, NEW token \in Tokens, ~Free(h),
              handler[h].pc = "refresh" =>
                    token.serial # 0 /\ token.owner = handler[h].token.owner,
              Goto(h, [handler[h] EXCEPT !.answer = token]), UNCHANGED <<conn, overlapped>>
       PROVE  RenewalsKept' /\ Apart'
  <2> DEFINE x == [handler[h] EXCEPT !.answer = token]
  <2>1. /\ x.answer = token /\ x.pc = handler[h].pc /\ x.id = handler[h].id
        /\ x.token = handler[h].token /\ Goto(h, x)
    BY <1>1, <1>13 DEF HandlerStates
  <2> HIDE DEF x
  <2> QED
    BY <1>10, <1>13, <2>1, ApartGoto DEF Holds
<1>14. ASSUME NEW h \in Handlers, Grant(h) PROVE RenewalsKept' /\ Apart'
  <2>1. ~Free(h) /\ handler[h].pc = "exchange" /\ UNCHANGED <<conn, overlapped>>
    BY <1>14 DEF Grant, Free
  <2>2. \A serial \in Serials \cup {0} :
            [owner |-> handler[h].code, serial |-> serial] \in Tokens
    BY <1>1, <2>1 DEF LocalsSet, Tokens
  <2>3. PICK serial \in Serials \cup {0} :
            Goto(h, [handler[h] EXCEPT !.answer =
                        [owner |-> handler[h].code, serial |-> serial]])
    BY <1>14 DEF Grant
  <2> QED
    BY <1>13, <2>1, <2>2, <2>3
<1>15. ASSUME NEW h \in Handlers, Renew(h) \/ Rotate(h) PROVE RenewalsKept' /\ Apart'
  <2>1. /\ ~Free(h) /\ handler[h].pc = "refresh" /\ UNCHANGED <<conn, overlapped>>
        /\ handler[h].token \in Tokens /\ handler[h].token.serial \in Serials
    BY <1>1, <1>15 DEF Renew, Rotate, Free, LocalsSet
  <2>2. 0 \notin Serials
    BY ConstantsAssumption DEF ConstantsAssumption, Serials
  <2>3. PICK serial \in Serials :
            Goto(h, [handler[h] EXCEPT !.answer = [handler[h].token EXCEPT !.serial = serial]])
    BY <1>15, <2>1 DEF Renew, Rotate, Tokens
  <2>4. LET token == [handler[h].token EXCEPT !.serial = serial]
        IN  token \in Tokens /\ token.serial # 0 /\ token.owner = handler[h].token.owner
    BY <2>1, <2>2 DEF Tokens
  <2> QED
    BY <1>13, <2>1, <2>3, <2>4
<1>16. CASE Disconnect
  BY <1>16 DEF Disconnect, RenewalsKept, Apart, OneRequest, RowRead, Free, Holds
<1>17. CASE Crash
  <2>1. \A h \in Handlers : handler'[h] = NoHandler
    BY <1>17 DEF Crash
  <2>2. UNCHANGED <<conn, overlapped>>
    BY <1>17 DEF Crash
  <2> QED
    BY <1>2, <2>1, <2>2 DEF RenewalsKept, Apart, OneRequest, RowRead, Free, Holds
<1>18. CASE UNCHANGED vars
  BY <1>3, <1>18 DEF vars
<1> QED
  BY <1>4, <1>5, <1>7, <1>8, <1>9, <1>11, <1>12, <1>14, <1>15, <1>16, <1>17, <1>18
     DEF Next, Proceed

\* What the account properties rest on, next to IInv.
THEOREM RequestsApart == Spec => [](RenewalsKept /\ Apart)
<1>1. Init => RenewalsKept /\ Apart
  BY ApartInit
<1>2. IInv /\ RenewalsKept /\ Apart /\ [Next]_vars => (RenewalsKept /\ Apart)'
  BY ApartStep
<1> QED
  BY <1>1, <1>2, Inductive, PTL DEF Spec

\* As long as requests do not overlap, the tokens are those of the account that
\* the connection shows.
THEOREM TokensMatchAccount == Spec => []TokensOfAccount
<1>1. Apart => TokensOfAccount
  BY DEF Apart, RowRead, TokensOfAccount
<1> QED
  BY <1>1, RequestsApart, PTL

\* ... and a sync stores contacts of that account only.
THEOREM ImportsMatchAccount == Spec => ImportsOfAccount
<1>1. ASSUME TypeOK, Apart, [Next]_vars
      PROVE  \A x \in imported' \ imported :
                ~overlapped /\ conn # None => x = <<conn.id, conn.account>>
  <2> SUFFICES ASSUME NEW x \in imported' \ imported, ~overlapped, conn # None
               PROVE  x = <<conn.id, conn.account>>
    OBVIOUS
  <2>1. PICK h \in Handlers : Import(h)
    BY <1>1 DEF Next, vars, StartOAuth, Expire, CallbackRefused, Callback, Sync, Refresh,
       Proceed, Connect, Refreshed, Unauthorized, Fail, Grant, Renew, Rotate, Disconnect,
       Crash, Store
  <2>2. x = <<handler[h].id, handler[h].token.owner>> /\ Holds(h)
    BY <2>1 DEF Import, Holds
  <2> QED
    BY <1>1, <2>2 DEF Apart, RowRead
<1>2. TypeOK /\ Apart /\ [Next]_vars =>
        [\A x \in imported' \ imported :
            ~overlapped /\ conn # None => x = <<conn.id, conn.account>>]_vars
  BY <1>1
<1> QED
  BY <1>2, TypeCorrect, RequestsApart, PTL DEF Spec, ImportsOfAccount

\* Only a new authorization makes the row lose the refresh token it has.
THEOREM RefreshTokensNotDropped == Spec => RefreshTokenNotDropped
<1>1. ASSUME TypeOK, RenewalsKept, [Next]_vars, conn # None, conn' # None,
             conn.token.serial # 0, conn'.token.serial = 0
      PROVE  \E h \in Handlers : handler[h].pc = "exchange" /\ handler'[h].pc = "idle"
  <2>1. \E h \in Handlers : Connect(h) \/ Refreshed(h)
    BY <1>1 DEF Next, vars, StartOAuth, Expire, CallbackRefused, Callback, Sync, Refresh,
       Proceed, Unauthorized, Import, Fail, Grant, Renew, Rotate, Disconnect, Crash
  <2>2. ASSUME NEW h \in Handlers, Refreshed(h) PROVE FALSE
    <3>1. conn'.token = conn.token \/ conn'.token = handler[h].answer
      BY <1>1, <2>2 DEF Refreshed, StoreTokens, TypeOK, Connections
    <3>2. handler[h].answer.serial # 0
      BY <1>1, <2>2 DEF Refreshed, RenewalsKept
    <3> QED
      BY <1>1, <3>1, <3>2
  <2>3. PICK h \in Handlers : Connect(h)
    BY <2>1, <2>2
  <2>4. handler[h].pc = "exchange" /\ handler'[h].pc = "idle"
    BY <1>1, <2>3, Moved DEF Connect, NoHandler
  <2> QED
    BY <2>4
<1>2. TypeOK /\ RenewalsKept /\ [Next]_vars =>
        [conn # None /\ conn' # None /\ conn.token.serial # 0 /\ conn'.token.serial = 0 =>
            \E h \in Handlers : handler[h].pc = "exchange" /\ handler'[h].pc = "idle"]_vars
  BY <1>1
<1> QED
  BY <1>2, TypeCorrect, RequestsApart, PTL DEF Spec, RefreshTokenNotDropped
=============================================================================
