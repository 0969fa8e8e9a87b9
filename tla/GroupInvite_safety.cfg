SPECIFICATION Spec
CONSTANTS
    Members = {m1}
    Accounts = {a1}
    Groups = {g1, g2}
    Jobs = {j1, j2}
    Presses = {p1, p2}
    Timeout = 0
    Cooldown = 1
    AgeCap = 1
    None = None
SYMMETRY Symmetric
INVARIANTS TypeOK AnswerIsOurs
PROPERTIES SettledStands FinalStands ClaimsSpaced
