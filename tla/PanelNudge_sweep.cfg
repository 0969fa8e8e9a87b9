SPECIFICATION NudgeFairSpec
CONSTANTS
    Guilds = {g1, g2}
    Limit = 1
    Nobody = Nobody
INVARIANTS NudgeTypeOK
PROPERTIES ClockSpentOnce DueIsHeard
