SPECIFICATION FairSpec
CONSTANTS
    Jobs = {j1}
    Retries = 2
    MaxLosses = 1
    None = None
INVARIANTS Resumable CallsBounded AckedIsAnswered BlameIsDeserved
PROPERTIES ClearsOwnSession Recovers JobsEnd
