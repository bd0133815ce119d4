CONSTANTS
    Parts = {"broker", "inputs", "case", "tdd", "plan", "acceptance", "trigger", "scoring", "trace", "proof"}
    Calls = {"c1", "c2"}
    MaxOpen = 2
    Requests <- MCRequests
    Credentials <- MCCredentials
    Trackers <- MCTrackers
    MaxTouches = 1
    Catalogs <- MCCatalogs
    PluginOrder <- MCPluginOrder
    Contents = {"a", "b"}
    Link = "link"
    Absent = Absent
    Brokers = {"pin", "other"}
    Pin = "pin"
    StudyArms = 2
    MaxEdits = 3
    Cases <- MCCases
    Children = {"c1", "c2"}
    Public = {"s1", "s2", "s3"}
    Foreign = "foreign"
    NoName = ""
    MaxEvents <- MCMaxEvents
    Runs = {"r1", "r2"}
    TddEdits = 2
    MaxRecords = 2
    Matches = TRUE
    Tasks = {"t1", "t2", "t3"}
    Unknown = "unknown"
    Files = {"f1", "f2", "f3"}
    Catalog <- MCCatalog
    ReportOnly = {"k2"}
    Skilled = {"k1"}
    PairedRuns = 2
    Minimum = 2
    Shipped = {"s1", "s2"}
    NoSkill = ""
    Explicit = {"s2"}
    Configurations <- MCConfigurations
    MinRecallProbes = 1
    MinNoSkillProbes = 1
    Reps = 2
    NoAnswer = NoAnswer
    Answers <- MCAnswers
    PinnedBroker = "pin"
    OtherBroker = "other"
    PluginBytes = {"a"}
    MaxStudies = 2
    MaxOutside = 1
    Lines <- MCLines
    MaxLines = 4
    InstalledAB = "installed-ab"
    EmptyPlugin = "empty"
    MinimumPairs = 2
    Commands <- MCCommands
    MaxRepeats = 1
    Criteria = {"C1", "C2", "C3"}
    First = "C1"
    Second = "C2"
    Schedules <- MCSchedules
    MaxDeviations = 2
    NoRecords = NoRecords
SPECIFICATION Spec
INVARIANTS
    ArmIsAccountedFor
    InputsArePinned
    CaseIsGradedOnEvidence
    TddEvidenceIsReal
    PlansAreExecutable
    AcceptanceIsWhole
    ScoresCompareLikeWithLike
    
PROPERTY StudyReportsAreEarned
CHECK_DEADLOCK FALSE
