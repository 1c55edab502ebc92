\* Two sessions serve eighteen requests of four users in any order, any number
\* of times, among them repetitions, two uses of one key and refused ones.
SPECIFICATION Spec
CONSTANTS
    wi = wi  rc = rc  dem = dem  sp = sp
    sel = sel  rev = rev  buy = buy  adm = adm  s1 = s1  s2 = s2
    None = None
    Docs <- MCDocs
    Type <- MCType
    Start <- MCStart
    Subject <- MCSubject
    PinnedRevision <- MCPinned
    AIOrigin = {wi, rc, dem}
    Assigned <- MCAssigned
    Users = {sel, rev, buy, adm}
    Roles <- MCRoles
    Requests <- MCRequests
    Sessions = {s1, s2}
SYMMETRY SessionsAlike
INVARIANTS TypeOK RecordsExact
PROPERTIES GovernedSteps
