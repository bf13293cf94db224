SPECIFICATION Spec
CONSTANTS
    h1 = h1
    h2 = h2
    k1 = k1
    c1 = c1
    ana = ana
    bo = bo
    none = none
    Handlers = {h1, h2}
    Files <- MCFiles
    OAuthSource = "oauth"
    Answers <- MCAnswers
    Keys = {k1}
    Ids = {c1, 5}
    Names = {"Ana", "ANA", "Bo"}
    Persons = {ana, bo}
    PersonOf <- MCPersonOf
    None = none
INVARIANTS TypeOK StoredWasProjected ErasedStayAway
CHECK_DEADLOCK FALSE
