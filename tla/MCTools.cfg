CONSTANTS
    Parts = {"lanes", "fence", "receipt", "lessons", "release", "bar", "patch"}
    Runs = {r1, r2}
    Contents = {a, b}
    NoTree = NoTree
    Nothing = Nothing
    NoLesson = NoLesson
    Torn = Torn
    NoFile = NoFile
    Absent = Absent
    NoBaseline = NoBaseline
SPECIFICATION Spec
SYMMETRY Symmetry
INVARIANTS
    ReceiptsAreSound
    
PROPERTIES
    
    FenceOverlooksNothing
    LessonsKeepHistory
    ReleasesAreAttested
CHECK_DEADLOCK FALSE
