SPECIFICATION Spec
CONSTANTS
    p1 = p1
    Posts = {p1}
    Exports = {e1}
    Garbled = {}
    Fills = {r1}
    MaxCommit = 1
    MaxFaults = 0
    Latest = Latest
    None = None
    NotFound = NotFound
INVARIANT UpdatesInvalidate
