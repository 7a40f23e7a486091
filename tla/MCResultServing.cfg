SPECIFICATION Spec
CONSTANTS
    p1 = p1
    Posts = {p1}
    Exports = {e1, e2}
    Garbled <- FirstIsGarbled
    Fills = {r1}
    MaxCommit = 2
    MaxFaults = 1
    Latest = Latest
    None = None
    NotFound = NotFound
SYMMETRY Symmetric
INVARIANTS TypeOK CdnIsCurrent SettledLatestIsPinned
