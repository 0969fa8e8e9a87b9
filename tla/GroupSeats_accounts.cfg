SPECIFICATION Spec
CONSTANTS
    Guilds = {g1, g2, g3}
    Groups = {r1}
    Accounts = {a1, a2}
    Seats = 1
    Jobs = {j1}
    Codes = {c1, c2}
    None = None
    Legacy = {g3}
SYMMETRY Symmetric
INVARIANTS CapHeld
