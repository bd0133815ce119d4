CONSTANTS
    None = None
    Arms = 4
    Versions = {v1, v2}
    Configs = {c1, c2}
    MaxStarts = 4

SYMMETRY Symmetry

SPECIFICATION Spec

INVARIANT TypeOK
INVARIANT CheckpointWellFormed
INVARIANT PublishedIsOneRun
INVARIANT CheckpointLeads
PROPERTY ProgressKept
PROPERTY VersionKept
PROPERTY RemovedWhenComplete
