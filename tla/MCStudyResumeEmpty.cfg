CONSTANTS
    None = None
    Arms = 2
    Versions = {v1}
    Configs = {c1}
    MaxStarts = 3

SYMMETRY Symmetry

SPECIFICATION Spec

INVARIANT CheckpointResumable
