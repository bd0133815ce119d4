CONSTANTS
    None = None
    Procs = {p1, p2}
    Items = {item1}
    Caps <- OneCap
    MaxCap = 1
    Dirs = {d1}
    Sums = {s1}
    Heads = {h1}
    Notes = {"oracle"}
    Tears = {"journal"}
    MaxCalls = 4

SYMMETRY Symmetry

SPECIFICATION FreshSpec

INVARIANT TypeOK
INVARIANT CapOvershoot
INVARIANT OnDiskFirst
