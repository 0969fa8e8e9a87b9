SPECIFICATION RoleSpec
CONSTANTS
    Members = {m1}
    Guilds = {g1}
    Accounts = {a1, a2}
    Codes = {c1, c2}
    Queued = 1
    InFlight = 2
    None = None
SYMMETRY Symmetric
INVARIANTS RoleTypeOK RoleProven VerdictIsAboutLink
PROPERTIES OldCodesLinkNothing
