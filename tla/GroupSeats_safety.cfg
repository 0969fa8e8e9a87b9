SPECIFICATION Spec
CONSTANTS
    Guilds = {g1, g2}
    Groups = {r1}
    Accounts = {a1}
    Seats = 1
    Jobs = {j1, j2}
    Codes = {c1, c2}
    None = None
    Legacy = {}
SYMMETRY Symmetric
INVARIANTS TypeOK SetupProven
PROPERTIES ReclaimIsCurrent
