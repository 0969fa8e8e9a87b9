SPECIFICATION FairSpec
CONSTANTS
    Members = {m1}
    Accounts = {a1, a2}
    Groups = {g1}
    Jobs = {j1}
    Presses = {p1}
    Timeout = 0
    Cooldown = 1
    AgeCap = 1
    None = None
PROPERTIES OfferedAndCleared WaitingEnds
