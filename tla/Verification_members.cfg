SPECIFICATION FairSpec
CONSTANTS
    Members = {m1, m2}
    Guilds = {g1}
    Accounts = {a1}
    Codes = {c1, c2}
    Queued = 1
    InFlight = 1
    None = None
INVARIANTS TypeOK LinkProven
PROPERTIES PendingGoes
