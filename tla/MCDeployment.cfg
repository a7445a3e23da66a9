\* Two runners, one of which may break and be run again, and two files; two browsers that
\* want the same address with either of two passwords.
CONSTANTS
    Runner = {r1, r2}
    Files = 2
    MayBreak = {r1}
    Client = {c1, c2}
    Email = {e1}
    Password = {p1, p2}
    None = None
SPECIFICATION FairSpec
INVARIANTS TypeOK SchemaMatchesLedger RequestsMeetTables NotAllFail
    OneAccountPerEmail SessionKept
PROPERTIES KeepsDirectory RunnersEnd
