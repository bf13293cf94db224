------------------------- MODULE CrmContactsProofs -------------------------
(* Theorems about the contacts of a workspace, for any number of handlers, *)
(* files, persons and keys.                                                *)
EXTENDS CrmContacts, SequenceTheorems, TLAPS

-----------------------------------------------------------------------------
(* Contacts become rows, and people of a bundle.                           *)

\* Row and person show the same contact.
Shows(x, row) == \E p \in x.people : p.name = row.name /\ row.id \in {p.id, p.row}

\* The contacts of a list, by position.
LEMMA ContactAt ==
    ASSUME NEW contacts \in Contacts, NEW i \in DOMAIN contacts
    PROVE  i \in Nat /\ contacts[i] \in [id : Ids \cup {None}, name : Names]
  <1> DEFINE Contact == [id : Ids \cup {None}, name : Names]
  <1>1. contacts \in Seq(Contact)
    BY DEF Contacts
  <1> HIDE DEF Contact
  <1>2. Len(contacts) \in Nat /\ DOMAIN contacts = 1..Len(contacts)
    BY <1>1, LenProperties
  <1>3. contacts[i] \in Contact
    BY <1>1, <1>2, ElementOfSeq
  <1> QED
    BY <1>2, <1>3 DEF Contact

\* Rows are made of the contacts of a source.
LEMMA StoredRow ==
    ASSUME NEW source \in Sources \cup {OAuthSource}, NEW contacts \in Contacts
    PROVE  /\ Stored(source, contacts) \subseteq Row
           /\ \A row \in Stored(source, contacts) :
                /\ row.source = source
                /\ \E i \in DOMAIN contacts :
                    row.name = contacts[i].name /\ row.id = StoreId(contacts, i)
  <1> SUFFICES ASSUME NEW row \in Stored(source, contacts)
               PROVE  /\ row \in Row /\ row.source = source
                      /\ \E i \in DOMAIN contacts :
                            row.name = contacts[i].name /\ row.id = StoreId(contacts, i)
    OBVIOUS
  <1>1. PICK i \in DOMAIN contacts : row = [source |-> source, id |-> StoreId(contacts, i),
                                            name |-> contacts[i].name]
    BY DEF Stored
  <1>2. contacts[i] \in [id : Ids \cup {None}, name : Names] /\ i \in Nat
    BY ContactAt
  <1>3. StoreId(contacts, i) \in Ids \cup Nat
    BY <1>2 DEF StoreId
  <1> QED
    BY <1>1, <1>2, <1>3 DEF Row

\* Two contacts with one id leave one row.
LEMMA StoredOnce ==
    ASSUME NEW source, NEW contacts \in Contacts,
           NEW r \in Stored(source, contacts), NEW s \in Stored(source, contacts), r.id = s.id
    PROVE  r = s
  <1> DEFINE Last(i) == \A k \in DOMAIN contacts :
                            k > i => StoreId(contacts, k) # StoreId(contacts, i)
             Of(i) == [source |-> source, id |-> StoreId(contacts, i), name |-> contacts[i].name]
  <1>1. PICK i \in DOMAIN contacts : Last(i) /\ r = Of(i)
    BY DEF Stored
  <1>2. PICK j \in DOMAIN contacts : Last(j) /\ s = Of(j)
    BY DEF Stored
  <1>3. StoreId(contacts, i) = StoreId(contacts, j)
    BY <1>1, <1>2
  <1>4. i \in Nat /\ j \in Nat
    BY ContactAt
  <1>5. ~(i > j) /\ ~(j > i)
    BY <1>1, <1>2, <1>3
  <1>6. i = j
    BY <1>4, <1>5
  <1> QED
    BY <1>1, <1>2, <1>6

\* upsert_crm_contacts keeps the types and one row per source and id.
LEMMA UpsertTable ==
    ASSUME NEW source \in Sources \cup {OAuthSource}, NEW contacts \in Contacts,
           table \subseteq Row,
           \A r, s \in table : r.source = s.source /\ r.id = s.id => r = s,
           Upsert(source, contacts)
    PROVE  /\ table' \subseteq Row
           /\ \A r, s \in table' : r.source = s.source /\ r.id = s.id => r = s
           /\ table' \subseteq table \cup Stored(source, contacts)
  <1> DEFINE new == Stored(source, contacts)
             old == {row \in table : \A n \in new : n.source # row.source \/ n.id # row.id}
  <1>1. table' = old \cup new
    BY DEF Upsert
  <1>2. new \subseteq Row /\ \A n \in new : n.source = source
    BY StoredRow
  <1>3. \A r, s \in new : r.id = s.id => r = s
    BY StoredOnce
  <1>4. \A r, s \in old : r.source = s.source /\ r.id = s.id => r = s
    OBVIOUS
  <1>5. \A r \in old, s \in new : ~(r.source = s.source /\ r.id = s.id)
    OBVIOUS
  <1> HIDE DEF new, old
  <1>6. ASSUME NEW r \in table', NEW s \in table', r.source = s.source, r.id = s.id
        PROVE  r = s
    BY <1>1, <1>3, <1>4, <1>5, <1>6
  <1>7. old \subseteq table
    BY DEF old
  <1> QED
    BY <1>1, <1>2, <1>6, <1>7 DEF new

\* The row of a contact and the person of the bundle agree on its position.
LEMMA BundleShows ==
    ASSUME NEW source \in Sources, NEW contacts \in Contacts,
           NEW row \in Stored(source, contacts), NEW x, x.people = Bundle(contacts)
    PROVE  Shows(x, row)
  <1>1. PICK i \in DOMAIN contacts : row.name = contacts[i].name /\ row.id = StoreId(contacts, i)
    BY StoredRow
  <1>2. PICK p \in Bundle(contacts) :
            p = [id |-> IF contacts[i].id # None THEN contacts[i].id
                        ELSE PersonOf[contacts[i].name],
                 name |-> contacts[i].name, row |-> i + 1]
    BY DEF Bundle
  <1>3. p.name = row.name /\ row.id \in {p.id, p.row}
    BY <1>1, <1>2 DEF StoreId
  <1> QED
    BY <1>3 DEF Shows

\* A bundle is made of persons.
LEMMA BundleType ==
    ASSUME NEW contacts \in Contacts
    PROVE  Bundle(contacts) \subseteq Person
  <1> SUFFICES ASSUME NEW p \in Bundle(contacts) PROVE p \in Person
    OBVIOUS
  <1>1. PICK i \in DOMAIN contacts :
            p = [id |-> IF contacts[i].id # None THEN contacts[i].id
                        ELSE PersonOf[contacts[i].name],
                 name |-> contacts[i].name, row |-> i + 1]
    BY DEF Bundle
  <1>2. contacts[i] \in [id : Ids \cup {None}, name : Names] /\ i \in Nat
    BY ContactAt
  <1>3. PersonOf[contacts[i].name] \in Persons
    BY <1>2, ConstantsAssumption
  <1> QED
    BY <1>1, <1>2, <1>3 DEF Person

-----------------------------------------------------------------------------
(* The inductive invariant.                                                *)

\* A handler that waits for ARGUS has sent what it is about to store.
Posted ==
    \A h \in Handlers : handler[h].pc = "post" =>
        [key |-> handler[h].key, source |-> handler[h].source,
         people |-> Bundle(handler[h].contacts)] \in sent

\* Every row of a CSV source was in a bundle under a key that ARGUS knows.
Sent ==
    ~dry => \A row \in table : row.source \in Sources =>
        \E x \in sent : x.source = row.source /\ Known(x.key) /\ Shows(x, row)

\* No handler carries a person who was removed.
Unburdened == \A person \in erased : ~Carried(person)

IInv == TypeOK /\ Posted /\ Sent /\ Unburdened /\ ErasedStayAway

LEMMA EmptyContacts == <<>> \in Contacts /\ About(<<>>) = {}
  BY DEF Contacts, About

LEMMA InitIInv == Init => IInv
  <1> SUFFICES ASSUME Init PROVE IInv
    OBVIOUS
  <1> USE DEF Init, NoHandler
  <1>1. TypeOK
    BY EmptyContacts DEF TypeOK
  <1>2. Posted /\ Sent /\ Unburdened /\ ErasedStayAway
    BY DEF Posted, Sent, Unburdened, ErasedStayAway
  <1> QED
    BY <1>1, <1>2 DEF IInv

-----------------------------------------------------------------------------
(* Every action.                                                           *)

\* The locals of a handler that has, or has not, something to store.
LEMMA GotoIdle ==
    ASSUME IInv, NEW h \in Handlers, Goto(h, NoHandler)
    PROVE  \A g \in Handlers : handler'[g] = IF g = h THEN NoHandler ELSE handler[g]
  BY DEF IInv, TypeOK, Goto

\* What handlers have is what they had, less what one has let go.
LEMMA LetGo ==
    ASSUME IInv, sent' = sent, erased' = erased,
           \A g \in Handlers : handler'[g] \in {handler[g], NoHandler}
    PROVE  Posted' /\ Unburdened'
  <1>1. Posted'
    BY DEF IInv, Posted, NoHandler
  <1>2. \A g \in Handlers : About(handler'[g].contacts) \in {About(handler[g].contacts), {}}
    BY EmptyContacts DEF NoHandler
  <1>3. Unburdened'
    BY <1>2 DEF IInv, Unburdened, Carried
  <1> QED
    BY <1>1, <1>3

LEMMA ImportDryStep ==
    ASSUME IInv, NEW f \in Files, ImportDry(f)
    PROVE  IInv'
  <1> DEFINE contacts == ParseCsv(f.rows)
  <1>1. contacts \in Contacts /\ f.source \in Sources
    BY ParseAssumption DEF Sources
  <1>2. /\ Upsert(f.source, contacts) /\ erased' = erased \ About(contacts)
        /\ UNCHANGED <<handler, sent, taken, dry>> /\ dry
    BY DEF ImportDry, Bring
  <1> HIDE DEF contacts
  <1>3. /\ table' \subseteq Row
        /\ \A r, s \in table' : r.source = s.source /\ r.id = s.id => r = s
        /\ table' \subseteq table \cup Stored(f.source, contacts)
    BY <1>1, <1>2, UpsertTable DEF IInv, TypeOK
  <1>4. TypeOK'
    BY <1>2, <1>3 DEF IInv, TypeOK
  <1>5. Posted' /\ Sent'
    BY <1>2 DEF IInv, Posted, Sent
  <1>6. Unburdened'
    BY <1>2 DEF IInv, Unburdened, Carried
  <1>7. \A row \in Stored(f.source, contacts) : PersonOf[row.name] \in About(contacts)
    BY <1>1, StoredRow DEF About
  <1>8. ErasedStayAway'
    BY <1>2, <1>3, <1>7 DEF IInv, ErasedStayAway
  <1> QED
    BY <1>4, <1>5, <1>6, <1>8 DEF IInv

LEMMA ImportCsvStep ==
    ASSUME IInv, NEW h \in Handlers, NEW f \in Files, NEW key \in Keys \cup {None},
           ImportCsv(h, f, key)
    PROVE  IInv'
  <1>1. PICK contacts, sentKey, request, x :
            /\ contacts = ParseCsv(f.rows)
            /\ sentKey = IF key = None THEN DefaultKey(f.source) ELSE key
            /\ request = [key |-> sentKey, source |-> f.source, people |-> Bundle(contacts)]
            /\ x = [pc |-> "post", source |-> f.source, contacts |-> contacts, key |-> sentKey]
            /\ sent' = sent \cup {request}
            /\ handler' = [handler EXCEPT ![h] = x]
            /\ erased' = erased \ About(contacts)
            /\ UNCHANGED <<table, taken, dry>>
    BY DEF ImportCsv, Goto, Bring
  <1>2. contacts \in Contacts /\ f.source \in Sources /\ sentKey \in Keys \cup Sources
    BY <1>1, ParseAssumption DEF Sources, DefaultKey
  <1>3. request \in Request
    BY <1>1, <1>2, BundleType DEF Request
  <1>4. \A g \in Handlers : handler'[g] = IF g = h THEN x ELSE handler[g]
    BY <1>1 DEF IInv, TypeOK
  <1>5. TypeOK'
    <2>1. handler' \in [Handlers ->
                [pc : {"idle", "post", "fetch", "fetched"},
                 source : Sources \cup {OAuthSource, None}, contacts : Contacts,
                 key : Keys \cup Sources \cup {None}]]
      BY <1>1, <1>2 DEF IInv, TypeOK
    <2>2. \A g \in Handlers :
            /\ handler'[g].pc = "post" => handler'[g].source \in Sources
            /\ handler'[g].pc \in {"fetch", "fetched"} => handler'[g].source = OAuthSource
      BY <1>1, <1>2, <1>4 DEF IInv, TypeOK
    <2> QED
      BY <1>1, <1>3, <2>1, <2>2 DEF IInv, TypeOK
  <1>6. Posted'
    BY <1>1, <1>4 DEF IInv, Posted
  <1>7. Sent'
    BY <1>1 DEF IInv, Sent, Known
  <1>8. Unburdened'
    BY <1>1, <1>4 DEF IInv, Unburdened, Carried
  <1>9. ErasedStayAway'
    BY <1>1 DEF IInv, ErasedStayAway
  <1> QED
    BY <1>5, <1>6, <1>7, <1>8, <1>9 DEF IInv

LEMMA IngestStep ==
    ASSUME IInv, NEW x \in sent, Ingest(x)
    PROVE  IInv'
  <1> USE DEF Ingest
  <1>1. TypeOK'
    BY DEF IInv, TypeOK
  <1>2. Sent'
    BY DEF IInv, Sent, Known
  <1>3. Posted' /\ Unburdened' /\ ErasedStayAway'
    BY DEF IInv, Posted, Unburdened, Carried, ErasedStayAway
  <1> QED
    BY <1>1, <1>2, <1>3 DEF IInv

\* A handler stores its contacts and is done.
LEMMA StoreStep ==
    ASSUME IInv, NEW h \in Handlers, StoreImport(h) \/ StoreSync(h)
    PROVE  IInv'
  <1>1. PICK source, contacts :
            /\ source = handler[h].source
            /\ contacts = handler[h].contacts
            /\ Upsert(source, contacts)
            /\ Goto(h, NoHandler)
            /\ UNCHANGED <<sent, taken, erased, dry>>
    BY DEF StoreImport, StoreSync
  <1>2. /\ contacts \in Contacts /\ source \in Sources \cup {OAuthSource}
        /\ source \in Sources => handler[h].pc = "post" /\ Known(handler[h].key)
    BY <1>1, ConstantsAssumption DEF StoreImport, StoreSync, IInv, TypeOK
  <1>3. /\ table' \subseteq Row
        /\ \A r, s \in table' : r.source = s.source /\ r.id = s.id => r = s
        /\ table' \subseteq table \cup Stored(source, contacts)
    BY <1>1, <1>2, UpsertTable DEF IInv, TypeOK
  <1>4. \A g \in Handlers : handler'[g] = IF g = h THEN NoHandler ELSE handler[g]
    BY <1>1, GotoIdle
  <1>5. TypeOK'
    <2>1. handler' \in [Handlers ->
                [pc : {"idle", "post", "fetch", "fetched"},
                 source : Sources \cup {OAuthSource, None}, contacts : Contacts,
                 key : Keys \cup Sources \cup {None}]]
      BY <1>1, EmptyContacts DEF IInv, TypeOK, Goto, NoHandler
    <2>2. \A g \in Handlers :
            /\ handler'[g].pc = "post" => handler'[g].source \in Sources
            /\ handler'[g].pc \in {"fetch", "fetched"} => handler'[g].source = OAuthSource
      BY <1>4 DEF IInv, TypeOK, NoHandler
    <2> QED
      BY <1>1, <1>3, <2>1, <2>2 DEF IInv, TypeOK
  <1>6. Posted' /\ Unburdened'
    BY <1>1, <1>4, LetGo
  <1>7. Sent'
    <2> SUFFICES ASSUME ~dry, NEW row \in table', row.source \in Sources
                 PROVE  \E x \in sent : x.source = row.source /\ Known(x.key) /\ Shows(x, row)
      BY <1>1 DEF Sent, Known
    <2>1. CASE row \in table
      BY <2>1 DEF IInv, Sent
    <2>2. CASE row \in Stored(source, contacts)
      <3>1. row.source = source /\ source \in Sources
        BY <1>2, <2>2, StoredRow
      <3>2. PICK x \in sent :
                x = [key |-> handler[h].key, source |-> source, people |-> Bundle(contacts)]
        BY <1>1, <1>2, <3>1 DEF IInv, Posted
      <3>3. Shows(x, row)
        BY <1>2, <2>2, <3>1, <3>2, BundleShows
      <3> QED
        BY <1>2, <3>1, <3>2, <3>3
    <2> QED
      BY <1>3, <2>1, <2>2
  <1>8. \A row \in Stored(source, contacts) : PersonOf[row.name] \in About(contacts)
    BY <1>2, StoredRow DEF About
  <1>9. ErasedStayAway'
    BY <1>1, <1>3, <1>8 DEF IInv, ErasedStayAway, Unburdened, Carried
  <1> QED
    BY <1>5, <1>6, <1>7, <1>9 DEF IInv

\* A handler goes on to wait for, or with, the provider's contacts, or to its end.
LEMMA WaitStep ==
    ASSUME IInv, NEW h \in Handlers, Sync(h) \/ Fail(h) \/ \E answer \in Answers : Fetch(h, answer)
    PROVE  IInv'
  <1> DEFINE Becomes(x) ==
            /\ Goto(h, x) /\ UNCHANGED <<table, sent, taken, dry>>
            /\ x.contacts \in Contacts
            /\ erased' \subseteq erased
            /\ erased' \cap About(x.contacts) = {}
            /\ x \in [pc : {"idle", "fetch", "fetched"},
                     source : Sources \cup {OAuthSource, None}, contacts : Contacts,
                     key : Keys \cup Sources \cup {None}]
            /\ x.pc # "idle" => x.source = OAuthSource
  <1>1. PICK x : Becomes(x)
    <2>1. CASE Sync(h)
      <3>1. PICK x : x = [NoHandler EXCEPT !.pc = "fetch", !.source = OAuthSource] /\ Goto(h, x)
        BY <2>1 DEF Sync
      <3>2. x = [pc |-> "fetch", source |-> OAuthSource, contacts |-> <<>>, key |-> None]
        BY <3>1 DEF NoHandler
      <3>3. x.contacts = <<>> /\ x.source = OAuthSource
            /\ x \in [pc : {"idle", "fetch", "fetched"},
                     source : Sources \cup {OAuthSource, None}, contacts : Contacts,
                     key : Keys \cup Sources \cup {None}]
        BY <3>2, EmptyContacts
      <3>4. UNCHANGED <<table, sent, taken, erased, dry>>
        BY <2>1 DEF Sync
      <3>5. erased' \cap About(x.contacts) = {}
        BY <3>3, EmptyContacts
      <3>6. Becomes(x)
        BY <3>1, <3>3, <3>4, <3>5, EmptyContacts
      <3> QED
        BY <3>6
    <2>2. CASE Fail(h)
      <3>1. PICK x : x = NoHandler /\ Goto(h, x)
        BY <2>2 DEF Fail
      <3>2. Becomes(x)
        BY <2>2, <3>1, EmptyContacts DEF Fail, NoHandler
      <3> QED
        BY <3>2
    <2>3. ASSUME NEW answer \in Answers, Fetch(h, answer)
          PROVE  \E x : Becomes(x)
      <3>1. PICK x : x = [handler[h] EXCEPT !.pc = "fetched", !.contacts = answer] /\ Goto(h, x)
        BY <2>3 DEF Fetch
      <3>2. answer \in Contacts
        BY ConstantsAssumption
      <3>3. x \in [pc : {"fetched"}, source : Sources \cup {OAuthSource, None},
                  contacts : Contacts, key : Keys \cup Sources \cup {None}]
            /\ x.contacts = answer /\ x.source = OAuthSource
        BY <2>3, <3>1, <3>2 DEF Fetch, IInv, TypeOK
      <3>4. Becomes(x)
        BY <2>3, <3>1, <3>2, <3>3 DEF Fetch, Bring
      <3> QED
        BY <3>4
    <2> QED
      BY <2>1, <2>2, <2>3
  <1>2. \A g \in Handlers : handler'[g] = IF g = h THEN x ELSE handler[g]
    BY <1>1 DEF IInv, TypeOK, Goto
  <1>3. TypeOK'
    <2>1. handler' \in [Handlers ->
                [pc : {"idle", "post", "fetch", "fetched"},
                 source : Sources \cup {OAuthSource, None}, contacts : Contacts,
                 key : Keys \cup Sources \cup {None}]]
      BY <1>1 DEF IInv, TypeOK, Goto
    <2>2. \A g \in Handlers :
            /\ handler'[g].pc = "post" => handler'[g].source \in Sources
            /\ handler'[g].pc \in {"fetch", "fetched"} => handler'[g].source = OAuthSource
      BY <1>1, <1>2 DEF IInv, TypeOK
    <2> QED
      BY <1>1, <2>1, <2>2 DEF IInv, TypeOK
  <1>4. Posted' /\ Sent'
    BY <1>1, <1>2 DEF IInv, Posted, Sent, Known
  <1>5. Unburdened'
    BY <1>1, <1>2 DEF IInv, Unburdened, Carried
  <1>6. ErasedStayAway'
    BY <1>1 DEF IInv, ErasedStayAway
  <1> QED
    BY <1>3, <1>4, <1>5, <1>6 DEF IInv

LEMMA PrivacyDeleteStep ==
    ASSUME IInv, NEW person \in Persons, PrivacyDelete(person)
    PROVE  IInv'
  <1> USE DEF PrivacyDelete, Erase
  <1>1. TypeOK'
    BY DEF IInv, TypeOK
  <1>2. Posted' /\ Sent'
    BY DEF IInv, Posted, Sent, Known
  <1>3. Unburdened'
    BY DEF IInv, Unburdened, Carried
  <1>4. ErasedStayAway'
    BY DEF IInv, ErasedStayAway
  <1> QED
    BY <1>1, <1>2, <1>3, <1>4 DEF IInv

LEMMA CrashStep ==
    ASSUME IInv, Crash
    PROVE  IInv'
  <1>1. \A g \in Handlers : handler'[g] = NoHandler
    BY DEF Crash
  <1>2. Posted' /\ Unburdened'
    BY <1>1, LetGo DEF Crash
  <1>3. TypeOK'
    BY EmptyContacts DEF IInv, TypeOK, Crash, NoHandler
  <1>4. Sent' /\ ErasedStayAway'
    BY DEF IInv, Sent, Known, ErasedStayAway, Crash
  <1> QED
    BY <1>2, <1>3, <1>4 DEF IInv

LEMMA StepIInv == IInv /\ [Next]_vars => IInv'
  <1> SUFFICES ASSUME IInv, [Next]_vars PROVE IInv'
    OBVIOUS
  <1>1. ASSUME NEW f \in Files, ImportDry(f) PROVE IInv'
    BY <1>1, ImportDryStep
  <1>2. ASSUME NEW h \in Handlers, NEW f \in Files, NEW key \in Keys \cup {None},
               ImportCsv(h, f, key)
        PROVE  IInv'
    BY <1>2, ImportCsvStep
  <1>3. ASSUME NEW h \in Handlers, Sync(h) \/ Fail(h) \/ \E answer \in Answers : Fetch(h, answer)
        PROVE  IInv'
    BY <1>3, WaitStep
  <1>4. ASSUME NEW h \in Handlers, StoreImport(h) \/ StoreSync(h) PROVE IInv'
    BY <1>4, StoreStep
  <1>5. ASSUME NEW x \in sent, Ingest(x) PROVE IInv'
    BY <1>5, IngestStep
  <1>6. ASSUME NEW person \in Persons, PrivacyDelete(person) PROVE IInv'
    BY <1>6, PrivacyDeleteStep
  <1>7. CASE Crash
    BY <1>7, CrashStep
  <1>8. CASE UNCHANGED vars
    <2>1. TypeOK' /\ Posted' /\ Sent'
      BY <1>8 DEF IInv, TypeOK, Posted, Sent, Known, vars
    <2>2. Unburdened' /\ ErasedStayAway'
      BY <1>8 DEF IInv, Unburdened, Carried, ErasedStayAway, vars
    <2> QED
      BY <2>1, <2>2 DEF IInv
  <1> QED
    BY <1>1, <1>2, <1>3, <1>4, <1>5, <1>6, <1>7, <1>8 DEF Next

\* The rows of a source that ARGUS knows under keys of its own are in its graph.
LEMMA SentTaken == IInv => StoredWasProjected
  <1> SUFFICES ASSUME IInv, ~dry, NEW row \in table, row.source \in Sources,
                      KeysApart(row.source)
               PROVE  \E x \in taken : x.source = row.source /\ Shows(x, row)
    BY DEF StoredWasProjected, Shows
  <1>1. PICK x \in sent : x.source = row.source /\ Known(x.key) /\ Shows(x, row)
    BY DEF IInv, Sent
  <1>2. PICK y \in taken : y.key = x.key
    BY <1>1 DEF Known
  <1>3. x = y
    BY <1>1, <1>2 DEF IInv, TypeOK, KeysApart
  <1> QED
    BY <1>1, <1>2, <1>3

-----------------------------------------------------------------------------
(* The theorems.                                                           *)

THEOREM Inductive == Spec => []IInv
  BY InitIInv, StepIInv, PTL DEF Spec

\* The table of contacts has one row per source and contact_id, and the locals
\* of handlers are set when they are used (upsert_crm_contacts).
THEOREM TypeCorrect == Spec => []TypeOK
  <1>1. IInv => TypeOK
    BY DEF IInv
  <1> QED
    BY <1>1, Inductive, PTL

\* What import_crm_csv has stored is in the ARGUS graph, under the same id or
\* position, as long as a corrected file comes under a key of its own.
THEOREM ImportsProjected == Spec => []StoredWasProjected
  BY SentTaken, Inductive, PTL

\* A person removed by privacy_delete while nobody was about to store them stays
\* away until they are brought anew.
THEOREM ErasuresLast == Spec => []ErasedStayAway
  <1>1. IInv => ErasedStayAway
    BY DEF IInv
  <1> QED
    BY <1>1, Inductive, PTL
=============================================================================
