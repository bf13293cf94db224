--------------------------- MODULE MCCrmContacts ---------------------------
(* A file, the same file without its first person, and one of ids.         *)
EXTENDS CrmContacts, TLC

CONSTANTS h1, h2, k1, c1, none, ana, bo

Row1(id, name) == [id |-> id, name |-> name]

TwoPersons == [source |-> "export",
               rows |-> <<Row1(none, "Ana"), Row1(none, none), Row1(none, "Bo")>>]
Corrected == [source |-> "export", rows |-> <<Row1(none, "Bo")>>]
\* two contacts with one id, and one whose id is the position of the next
SameId == [source |-> "sales",
           rows |-> <<Row1(c1, "Bo"), Row1(c1, "ANA"), Row1(5, "Bo"), Row1(none, "Ana")>>]

MCFiles == {TwoPersons, Corrected, SameId}
MCAnswers == {<<>>, <<Row1(c1, "ANA")>>}
MCPersonOf == "Ana" :> ana @@ "ANA" :> ana @@ "Bo" :> bo
=============================================================================
