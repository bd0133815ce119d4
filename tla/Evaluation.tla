------------------------------ MODULE Evaluation ------------------------------
(***************************************************************************)
(* The parts of one evaluation, from the inputs of a study to its score,   *)
(* side by side: a behavior is a behavior of one of them, `part`, and the  *)
(* variables of the others stay "idle".                                    *)
(***************************************************************************)
EXTENDS BrokerRun, StudyInputs, CaseEvidence, TddEvidence, DependencyPlan, StudyAcceptance,
        TriggerStudy, Scoring, TraceEvents, ResumeProof

CONSTANT Parts   \* the parts a behavior may be of

VARIABLE part

Parted == {"broker", "inputs", "case", "tdd", "plan", "acceptance", "trigger", "scoring", "trace",
           "proof"}
ASSUME PartsAreKnown == Parts \subseteq Parted

brokerIdle ==
    /\ req = "idle" /\ creds = "idle" /\ at = "idle" /\ defers = "idle" /\ held = "idle"
    /\ late = "idle" /\ run = "idle" /\ tracker = "idle" /\ watches = "idle"
    /\ pending = "idle" /\ touched = "idle" /\ oracleRC = "idle" /\ response = "idle"
inputsIdle ==
    /\ head = "idle" /\ heads = "idle" /\ worktree = "idle" /\ broker = "idle"
    /\ edits = "idle" /\ pc = "idle" /\ study = "idle"
caseIdle ==
    /\ case = "idle" /\ children = "idle" /\ events = "idle" /\ answer = "idle"
    /\ graded = "idle"
tddIdle ==
    /\ project = "idle" /\ past = "idle" /\ active = "idle" /\ step = "idle"
    /\ records = "idle" /\ trace = "idle"
planIdle ==
    /\ contract = "idle" /\ state = "idle" /\ frames = "idle" /\ verdict = "idle"
    /\ plan = "idle"
acceptanceIdle ==
    /\ rows = "idle" /\ failed = "idle" /\ published = "idle" /\ over = "idle"
triggerIdle ==
    /\ triggerStudy = "idle" /\ triggerAt = "idle" /\ config = "idle" /\ attempt = "idle"
    /\ probed = "idle" /\ tried = "idle" /\ retries = "idle" /\ rendered = "idle"
    /\ staged = "idle" /\ status = "idle" /\ kept = "idle" /\ bundle = "idle"
    /\ triggerBroker = "idle" /\ plugin = "idle" /\ outside = "idle"
scoringIdle ==
    /\ scored = "idle" /\ stage = "idle" /\ criteria = "idle" /\ card = "idle"
traceIdle ==
    /\ harness = "idle" /\ lifecycle = "idle" /\ collected = "idle" /\ tool = "idle"
    /\ callStage = "idle" /\ outcome = "idle" /\ receipts = "idle" /\ truth = "idle"
    /\ together = "idle" /\ awaited = "idle" /\ told = "idle" /\ repeats = "idle"
    /\ valid = "idle" /\ ended = "idle" /\ evidence = "idle"
proofIdle ==
    /\ schedule = "idle" /\ canCompact = "idle" /\ repetition = "idle" /\ proofAt = "idle"
    /\ repos = "idle" /\ commits = "idle" /\ base = "idle" /\ seen = "idle"
    /\ memory = "idle" /\ compacted = "idle" /\ deviations = "idle" /\ verdicts = "idle"

Init ==
    /\ part \in Parts
    /\ IF part = "broker" THEN BrokerInit ELSE brokerIdle
    /\ IF part = "inputs" THEN InputsInit ELSE inputsIdle
    /\ IF part = "case" THEN CaseInit ELSE caseIdle
    /\ IF part = "tdd" THEN TddInit ELSE tddIdle
    /\ IF part = "plan" THEN PlanInit ELSE planIdle
    /\ IF part = "acceptance" THEN AcceptanceInit ELSE acceptanceIdle
    /\ IF part = "trigger" THEN TriggerInit ELSE triggerIdle
    /\ IF part = "scoring" THEN ScoringInit ELSE scoringIdle
    /\ IF part = "trace" THEN TraceInit ELSE traceIdle
    /\ IF part = "proof" THEN ProofInit ELSE proofIdle

\* Only the variables of p change.
Only(p) ==
    /\ part = p /\ UNCHANGED part
    /\ IF p = "broker" THEN TRUE ELSE UNCHANGED brokerVars
    /\ IF p = "inputs" THEN TRUE ELSE UNCHANGED inputVars
    /\ IF p = "case" THEN TRUE ELSE UNCHANGED caseVars
    /\ IF p = "tdd" THEN TRUE ELSE UNCHANGED tddVars
    /\ IF p = "plan" THEN TRUE ELSE UNCHANGED planVars
    /\ IF p = "acceptance" THEN TRUE ELSE UNCHANGED acceptanceVars
    /\ IF p = "trigger" THEN TRUE ELSE UNCHANGED triggerVars
    /\ IF p = "scoring" THEN TRUE ELSE UNCHANGED scoringVars
    /\ IF p = "trace" THEN TRUE ELSE UNCHANGED traceVars
    /\ IF p = "proof" THEN TRUE ELSE UNCHANGED proofVars

BrokerStep == Only("broker") /\ BrokerNext
InputsStep == Only("inputs") /\ InputsNext
CaseStep == Only("case") /\ CaseNext
TddStep == Only("tdd") /\ TddNext
PlanStep == Only("plan") /\ PlanNext
AcceptanceStep == Only("acceptance") /\ AcceptanceNext
TriggerStep == Only("trigger") /\ TriggerNext
ScoringStep == Only("scoring") /\ ScoringNext
TraceStep == Only("trace") /\ TraceNext
ProofStep == Only("proof") /\ ProofNext

Next ==
    \/ BrokerStep \/ InputsStep \/ CaseStep \/ TddStep \/ PlanStep
    \/ AcceptanceStep \/ TriggerStep \/ ScoringStep \/ TraceStep \/ ProofStep

evaluationVars ==
    <<part, brokerVars, inputVars, caseVars, tddVars, planVars, acceptanceVars, triggerVars,
      scoringVars, traceVars, proofVars>>
Spec == Init /\ [][Next]_evaluationVars

-----------------------------------------------------------------------------
(* Properties: of each part, those its module states *)

\* An arm holds nothing when the broker answers, has succeeded only with a whole trace
\* and every check it was asked for, and its protected effects are the actor's own.
ArmIsAccountedFor ==
    part = "broker" =>
      /\ BrokerTypeOK /\ NothingHeld /\ SuccessIsComplete
      /\ EffectsReported /\ EffectsAreTheActors /\ ArmsHonest

\* However the checkout and the broker are edited meanwhile, every arm runs the pinned
\* broker and a plugin that one commit held (verifyCatalogs, stagePlugin, runArm).
InputsArePinned ==
    part = "inputs" =>
      InputsTypeOK /\ StagedPluginIsCommitted /\ ArmsRunPinnedBroker

\* What evaluateCase credits to a case the actor's events bear out, in their order.
CaseIsGradedOnEvidence ==
    part = "case" =>
      /\ CaseTypeOK /\ MatchingMeansEnded /\ BatchBeforeWork
      /\ OutcomeIsBothParts /\ ContractOnlyTakesAway /\ NothingSucceedsEarly
      /\ OrderCreditsReads

\* A red run and a green one that tdd evidence is made of were of projects that existed,
\* the test first, and one after the other (tddEvidence).
TddEvidenceIsReal ==
    part = "tdd" =>
      TddTypeOK /\ GradedIsWritten /\ TestCameFirst /\ EvidenceIsSequential

\* A contract is accepted exactly when its tasks can be scheduled, and a plan that meets
\* it can be executed (validDependencyContract, completeDependencyPlan).
PlansAreExecutable ==
    part = "plan" =>
      PlanTypeOK /\ AcceptedIsSchedulable /\ CompleteIsExecutable

\* Neither arm goes first more often, and acceptance at the end is about every pair.
AcceptanceIsWhole ==
    part = "acceptance" =>
      /\ AcceptanceTypeOK /\ NeitherArmGoesFirst
      /\ FinishedAcceptanceIsWhole

\* The studies without a control arm report what they have seen.  A trigger study publishes
\* all of its probes or nothing, succeeds only where its gates are met, and leaves an earlier
\* bundle as it was when it fails; a pass of resume-proof is a recovery, and a failed one had
\* something to recover.
StudyReportsAreEarned ==
    /\ [](part = "trigger" =>
            TriggerTypeOK /\ PublishedIsWhole /\ EnforcedMeansMet)
    /\ [][part = "trigger" => LeavesBundle]_triggerVars
    /\ [](part = "proof" =>
            ProofTypeOK /\ PassIsARecovery /\ FailureHadAChance)

\* The scorecard compares only rows of one setting, in pairs, and its deltas are those
\* of the pairs (score.go).
ScoresCompareLikeWithLike ==
    part = "scoring" =>
      /\ ScoringTypeOK /\ PairsTellTheDelta /\ CellsCompareLikeWithLike
      /\ DurationsCompareAllPairs /\ AcceptedScorecard

\* The tests of the evidence are runs of tests, with their own codes and in their order,
\* and nothing is counted twice.
EvidenceIsOfRuns ==
    part = "trace" =>
      /\ TraceTypeOK /\ TestsAreTrustedRuns /\ NativeCodesAreTheTests
      /\ TestsKeepTheirPlace /\ CountedOnce

\* A test run keeps its place among the writes wherever the trace shows as many tests as
\* there are receipts (the comment at main.go:5433-5435).
MatchedTestsKeepOrder == part = "trace" => MatchedCountsKeepOrder
===============================================================================
