---------------------------- MODULE CrmContacts ----------------------------
(***************************************************************************)
(* The contacts of one workspace: the table crm_contacts, the CSV import   *)
(* that projects a file to ARGUS before it stores it, the synchronisation  *)
(* that stores what a provider returns, and the privacy request that       *)
(* removes a person.                                                       *)
(*                                                                         *)
(* One API process: a handler is interrupted where it awaits ARGUS or the  *)
(* provider, and runs from there to its end.  ARGUS is external: it takes  *)
(* a bundle in under its Idempotency-Key once, perhaps long after the API  *)
(* has given up, and answers every request under that key the same way.    *)
(* CrmOAuth has the tokens a synchronisation needs.                        *)
(***************************************************************************)
EXTENDS Naturals, Sequences

CONSTANTS
    Handlers,     \* coroutines that can be inside a handler at the same time
    Files,        \* what may be uploaded: a source_id and rows
    OAuthSource,  \* "oauth:{provider}:{connection_id}"
    Answers,      \* what a provider may return: rows
    Keys,         \* Idempotency-Keys a client may send
    Ids,          \* contact_id up to its case; a number N is one that reads "row-N"
    Names,        \* full_name
    Persons,
    PersonOf,     \* casefold of a full_name
    None          \* an empty cell, a missing header

Sources == {f.source : f \in Files}
Rows == Seq([id : Ids \cup {None}, name : Names \cup {None}])
Contacts == Seq([id : Ids \cup {None}, name : Names])

ASSUME ConstantsAssumption ==
    /\ \A f \in Files : f.rows \in Rows
    /\ Answers \subseteq Contacts
    /\ PersonOf \in [Names -> Persons]
    /\ OAuthSource \notin Sources
    /\ None \notin Ids /\ None \notin Names \cup Keys

VARIABLES
    table,    \* crm_contacts
    handler,  \* what each handler is waiting for, and its locals
    sent,     \* the requests ARGUS has been sent, lost ones included
    taken,    \* ... and those it has taken in
    erased,   \* history: persons removed, and not brought anew since then
    dry       \* REACHPATH_DRY_RUN

vars == <<table, handler, sent, taken, erased, dry>>

NoHandler == [pc |-> "idle", source |-> None, contacts |-> <<>>, key |-> None]

Init ==
    /\ table = {}
    /\ handler = [h \in Handlers |-> NoHandler]
    /\ sent = {} /\ taken = {}
    /\ erased = {}
    /\ dry \in BOOLEAN

-----------------------------------------------------------------------------
(* What an upload becomes.                                                 *)

\* parse_csv: rows without a name are left out
ParseCsv(rows) == SelectSeq(rows, LAMBDA row : row.name # None)

\* What SelectSeq returns has no theorem in the library: TLC evaluates this one.
ASSUME ParseAssumption == \A f \in Files : ParseCsv(f.rows) \in Contacts

\* upsert_crm_contacts: contact_id, or "row-N" by position among the contacts
StoreId(contacts, i) ==
    IF contacts[i].id # None THEN contacts[i].id ELSE i + 1

Stored_Every(source, contacts) ==
    {[source |-> source, id |-> StoreId(contacts, i), name |-> contacts[i].name] :
        i \in DOMAIN contacts}

\* ... the last of several contacts with one id is the one that stays ...
Stored(source, contacts) ==
    {[source |-> source, id |-> StoreId(contacts, i), name |-> contacts[i].name] :
        i \in {j \in DOMAIN contacts :
                \A k \in DOMAIN contacts : k > j => StoreId(contacts, k) # StoreId(contacts, j)}}

\* ... and replaces the row of its workspace, source and contact_id.
Upsert(source, contacts) ==
    LET new == Stored(source, contacts) IN
    table' = {row \in table : \A n \in new : n.source # row.source \/ n.id # row.id} \cup new

\* build_argus_bundle: one person per contact, by contact_id or by name in any
\* case, with evidence that cites the position among the contacts.
Bundle(contacts) ==
    {[id |-> IF contacts[i].id # None THEN contacts[i].id ELSE PersonOf[contacts[i].name],
      name |-> contacts[i].name, row |-> i + 1] : i \in DOMAIN contacts}

About(contacts) == {PersonOf[contacts[i].name] : i \in DOMAIN contacts}

\* Names arrive that may be of persons removed before.
Bring(contacts) == erased' = erased \ About(contacts)

-----------------------------------------------------------------------------
(* Handlers.                                                               *)

Free(h) == handler[h].pc = "idle"
Goto(h, x) == handler' = [handler EXCEPT ![h] = x]

\* import_crm_csv in a dry run: nothing is projected
ImportDry(f) ==
    /\ dry
    /\ Upsert(f.source, ParseCsv(f.rows))
    /\ Bring(ParseCsv(f.rows))
    /\ UNCHANGED <<handler, sent, taken, dry>>

\* import_crm_csv up to its await: the bundle goes out under the client's key
\* or, without one, under the name of the source
DefaultKey(source) == source

ImportCsv(h, f, key) ==
    LET contacts == ParseCsv(f.rows)
        sentKey == IF key = None THEN DefaultKey(f.source) ELSE key
    IN
    /\ Free(h) /\ ~dry
    /\ sent' = sent \cup {[key |-> sentKey, source |-> f.source, people |-> Bundle(contacts)]}
    /\ Goto(h, [pc |-> "post", source |-> f.source, contacts |-> contacts, key |-> sentKey])
    /\ Bring(contacts)
    /\ UNCHANGED <<table, taken, dry>>

\* ARGUS takes a bundle in, once per key, whoever is still waiting for it.
Known(key) == \E x \in taken : x.key = key
Ingest(x) ==
    /\ ~Known(x.key)
    /\ taken' = taken \cup {x}
    /\ UNCHANGED <<table, handler, sent, erased, dry>>

StoreImport_Unanswered(h) ==
    /\ handler[h].pc = "post"
    /\ Upsert(handler[h].source, handler[h].contacts)
    /\ Goto(h, NoHandler)
    /\ UNCHANGED <<sent, taken, erased, dry>>

\* ... ARGUS has answered, and the contacts are stored
StoreImport(h) ==
    /\ handler[h].pc = "post" /\ Known(handler[h].key)
    /\ Upsert(handler[h].source, handler[h].contacts)
    /\ Goto(h, NoHandler)
    /\ UNCHANGED <<sent, taken, erased, dry>>

\* sync_crm_connection waits for the provider's contacts ...
Sync(h) ==
    /\ Free(h)
    /\ Goto(h, [NoHandler EXCEPT !.pc = "fetch", !.source = OAuthSource])
    /\ UNCHANGED <<table, sent, taken, erased, dry>>

\* ... which the provider sends as they are at that time ...
Fetch(h, contacts) ==
    /\ handler[h].pc = "fetch"
    /\ Goto(h, [handler[h] EXCEPT !.pc = "fetched", !.contacts = contacts])
    /\ Bring(contacts)
    /\ UNCHANGED <<table, sent, taken, dry>>

\* ... and stores them under the name of the connection
StoreSync(h) ==
    /\ handler[h].pc = "fetched"
    /\ Upsert(handler[h].source, handler[h].contacts)
    /\ Goto(h, NoHandler)
    /\ UNCHANGED <<sent, taken, erased, dry>>

\* A 502, or a 500 (the circuit of ARGUS is open, an id the column has no room
\* for): nothing is stored.
Fail(h) ==
    /\ ~Free(h)
    /\ Goto(h, NoHandler)
    /\ UNCHANGED <<table, sent, taken, erased, dry>>

\* privacy_delete removes every contact of that name, in whatever case.  The
\* person may be among the contacts a handler is about to store.
Carried(person) == \E h \in Handlers : person \in About(handler[h].contacts)

Erase(person) ==
    erased' = IF Carried(person) THEN erased ELSE erased \cup {person}

PrivacyDelete_OneSpelling(person) ==
    /\ \E name \in Names :
        /\ PersonOf[name] = person
        /\ table' = {row \in table : row.name # name}
    /\ Erase(person)
    /\ UNCHANGED <<handler, sent, taken, dry>>

PrivacyDelete(person) ==
    /\ table' = {row \in table : PersonOf[row.name] # person}
    /\ Erase(person)
    /\ UNCHANGED <<handler, sent, taken, dry>>

\* The process dies with everything its handlers were waiting for.
Crash ==
    /\ handler' = [h \in Handlers |-> NoHandler]
    /\ UNCHANGED <<table, sent, taken, erased, dry>>

-----------------------------------------------------------------------------
Next ==
    \/ \E f \in Files : ImportDry(f)
    \/ \E h \in Handlers :
        \/ \E f \in Files, key \in Keys \cup {None} : ImportCsv(h, f, key)
        \/ \E contacts \in Answers : Fetch(h, contacts)
        \/ Sync(h) \/ StoreImport(h) \/ StoreSync(h) \/ Fail(h)
    \/ \E x \in sent : Ingest(x)
    \/ \E person \in Persons : PrivacyDelete(person)
    \/ Crash

Spec == Init /\ [][Next]_vars

-----------------------------------------------------------------------------
(* Properties.                                                             *)

Person == [id : Ids \cup Persons, name : Names, row : Nat]
Request == [key : Keys \cup Sources, source : Sources, people : SUBSET Person]
Row == [source : Sources \cup {OAuthSource}, id : Ids \cup Nat, name : Names]

TypeOK ==
    /\ table \subseteq Row
    /\ \A r, s \in table : r.source = s.source /\ r.id = s.id => r = s
    /\ handler \in [Handlers ->
            [pc : {"idle", "post", "fetch", "fetched"},
             source : Sources \cup {OAuthSource, None}, contacts : Contacts,
             key : Keys \cup Sources \cup {None}]]
    /\ \A h \in Handlers :
        /\ handler[h].pc = "post" => handler[h].source \in Sources
        /\ handler[h].pc \in {"fetch", "fetched"} => handler[h].source = OAuthSource
    /\ sent \subseteq Request /\ taken \subseteq sent
    /\ erased \subseteq Persons
    /\ dry \in BOOLEAN

\* No two different files have gone out under one key, as far as the files of a
\* source are concerned.  Files without a key of their own are not apart: the
\* default key is the source's (import_crm_csv).
KeysApart(source) ==
    \A x, y \in sent : x.source = source /\ x.key = y.key => x = y

\* What a CSV import has stored is in the ARGUS graph too, with the same id or
\* the row the evidence cites (README: "stockés par workspace et projetés dans
\* le graphe ARGUS"), whatever was retried, lost or answered late, as long as a
\* corrected file comes under a key of its own.
StoredWasProjected ==
    ~dry => \A row \in table :
        row.source \in Sources /\ KeysApart(row.source) =>
            \E x \in taken : x.source = row.source /\
                \E p \in x.people : p.name = row.name /\ row.id \in {p.id, p.row}

\* A person who was removed while no handler was about to store them does not
\* come back until somebody uploads them, or a provider returns them, anew
\* (README: "supprimer les données ReachPath d'une personne").
ErasedStayAway ==
    \A person \in erased : \A row \in table : PersonOf[row.name] # person
=============================================================================
