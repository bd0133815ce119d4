CONSTANTS
    Parts = {"release"}
    Runs = {r1, r2}
    Contents = {a, b}
    NoTree = NoTree
    Nothing = Nothing
    NoLesson = NoLesson
    Torn = Torn
    NoFile = NoFile
    Absent = Absent
    NoBaseline = NoBaseline
INIT Init
NEXT Next
INVARIANT EveryProfileAttested
CHECK_DEADLOCK FALSE
