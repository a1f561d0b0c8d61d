SPECIFICATION Spec
CONSTANTS
    c1 = c1  c2 = c2   r1 = r1  r2 = r2  s1 = s1
    None = None
    Clients = {c1, c2}
    Reloads = {r1, r2}
    Stops = {}
    BackendOf <- Switch
SYMMETRY Symmetry
CHECK_DEADLOCK FALSE
INVARIANTS TypeOK StartInv NothingLeftBehind StaleIsBeingReplaced
PROPERTIES ReloadsInstallAnnounced ReloadSparesRuns DiscardKeepsBorrowed
