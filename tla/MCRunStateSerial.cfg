CONSTANTS
    None = None
    Procs = {p1}
    Items = {item1}
    Caps <- OneCap
    MaxCap = 1
    Dirs = {d1, d2}
    Sums = {s1, s2}
    Heads = {h1, h2}
    Notes = {}
    Tears = {"journal", "exclude"}
    MaxCalls = 4

SYMMETRY Symmetry

SPECIFICATION FreshSpec

INVARIANT BlockedIsFinal
INVARIANT RebaselineReasoned
INVARIANT ExcludedBeforeCreated
PROPERTY TornJournalGrantsNothing
PROPERTY ResumeMatchIsCurrent
PROPERTY LedgerSpec
