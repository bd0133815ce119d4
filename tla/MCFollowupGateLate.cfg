SPECIFICATION Spec
CONSTANTS
    t1 = t1
    t2 = t2
    Tasks = {t1}
    Turns = 2
    HabitSets <- Late
    PipeMax = 2
    InnerMax = 0
INVARIANT AcceptedIsComplete
