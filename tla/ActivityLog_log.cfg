SPECIFICATION Spec
CONSTANTS
    Guilds = {g1}
    Channels = {c1, c2}
    MaxPerGuild = 2
    PerMessage = 2
    Entries = 4
    None = None
SYMMETRY Symmetric
INVARIANTS TypeOK LossIsTold FallbackIsHeard
PROPERTIES IsLossyLog
