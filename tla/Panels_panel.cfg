SPECIFICATION Spec
CONSTANTS
    Clicks = {k1, k2}
    Refreshes = {f1}
    Channels = {c1, c2}
    Posts = {p1, p2}
    Legacy = Legacy
    Versions = {1, 2}
    None = None
SYMMETRY Symmetric
INVARIANTS LiveIsTracked SkippedIsRoutable
