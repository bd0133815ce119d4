CONSTANTS
    None = None
    Procs = {p1, p2}
    Items = {item1}
    Caps <- OneCap
    MaxCap = 1
    Dirs = {d1}
    Sums = {s1}
    Heads = {h1}
    Notes = {"blocked"}
    Tears = {}
    MaxCalls = 3

SPECIFICATION Spec

INVARIANT ContinuationCap
