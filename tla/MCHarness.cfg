\* Two agents and three turns for Claude, two turns for Codex; a tunnel with two frames up and
\* one down, and links that hold one.
SPECIFICATION MCSpec
CONSTANTS
    t1 = t1
    t2 = t2
    Tasks = {t1, t2}
    Turns = 3
    HabitSets <- Unruly
    PipeMax = 2
    InnerMax = 1
    AppTurns = 2
    Room = 8
    OutRoom = 2
    MaxExtra = 2
    MaxUp = 2
    MaxDown = 1
    LinkRoom = 1
INVARIANT JudgedAlike
INVARIANT CodexOutcome
INVARIANT TunnelIsFaithful
PROPERTY FramesAreDue
 
