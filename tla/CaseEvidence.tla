----------------------------- MODULE CaseEvidence -----------------------------
(***************************************************************************)
(* How one arm of an installed A/B study is graded: evaluateCase of        *)
(* evals/studies/installed-ab/run.go and the evidence functions it calls,  *)
(* over the events of an actor that selects skills, works, and starts      *)
(* children whose start and end reach the trace late, twice or never.      *)
(*                                                                         *)
(* The gates have the values validateConfiguration insists on.  What needs *)
(* the text of a response or the bytes of a project is one Boolean of the  *)
(* answer each: whether it passes that gate.                               *)
(***************************************************************************)
EXTENDS Naturals, Sequences, FiniteSets, SequencesExt

CONSTANTS
    Cases,       \* the case catalog: records of CaseFields
    Children,    \* agents the actor can start
    Public,      \* publicMegapowersSkillNames
    Foreign,     \* a skill that is not one of them
    NoName,      \* an empty path
    MaxEvents(_) \* bound, by case: events of an actor before trace_complete

\* What a case says.  spawns: required_agent_spawns raised to the gate's minimum.
CaseFields ==
    {"kind", "mode", "spawns", "maxSpawns", "delegation", "skills", "noSkills", "events",
     "attempts", "order", "noEvents", "protected", "oracle", "noop", "words", "plan"}

ASSUME CaseConstants ==
    \A c \in Cases :
      /\ c.kind \in {"prose", "code_quality", "tdd", "autonomy_status", "orchestration",
                     "safe_effects", "workflow"}
      /\ c.skills \in Seq(Public)
      /\ \A i, j \in DOMAIN c.skills : c.skills[i] = c.skills[j] => i = j
      /\ c.noSkills \subseteq Public
      /\ c.spawns \in Nat
      /\ MaxEvents(c) \in Nat

VARIABLES
    case,      \* the case of this arm
    children,  \* what has become of each child
    events,    \* the normalized events
    answer,    \* the response and the project, gate by gate
    graded     \* evaluateCase has run

caseVars == <<case, children, events, answer, graded>>

Event == [kind : {"agent_spawn", "agent_wait", "agent_complete", "skill_selected", "test",
                  "git_commit", "external_write", "trace_complete"},
          path : Children \cup Public \cup {Foreign, NoName},
          ok : BOOLEAN]

Happened(kind, path, ok) == [kind |-> kind, path |-> path, ok |-> ok]

Of(kind) == {i \in DOMAIN events : events[i].kind = kind}
Successes(kind) == {i \in Of(kind) : events[i].ok}
FirstOf(indices) == CHOOSE i \in indices : \A j \in indices : i <= j

-----------------------------------------------------------------------------
(* Skills *)

\* skillSelectionEvidence
Selected == {events[i].path : i \in Successes("skill_selected")}
Membership == ToSet(case.skills) \subseteq Selected
Unexpected ==
    {i \in Of("skill_selected") :
       events[i].path \notin Public \/ events[i].path \in case.noSkills \/ ~events[i].ok}

SkillContract == Membership /\ Unexpected = {}

\* skillReadOrderEvidence: the required skills as they were read, and where each was new.
RequiredReads == {i \in Successes("skill_selected") : events[i].path \in ToSet(case.skills)}
NewReads ==
    {i \in RequiredReads : \A j \in RequiredReads : events[j].path = events[i].path => i <= j}

\* The skills in the order in which they were new.
ReadInOrder ==
    /\ Cardinality(NewReads) = Len(case.skills)
    /\ \A i \in DOMAIN case.skills :
         \E r \in NewReads : /\ events[r].path = case.skills[i]
                             /\ Cardinality({s \in NewReads : s <= r}) = i

\* Reading the last of them again changes nothing, reading an earlier one again is out of
\* order.
LastNew(r) == CHOOSE s \in NewReads : s <= r /\ \A t \in NewReads : t <= r => t <= s
ReadInTurn == \A r \in RequiredReads : events[LastNew(r)].path = events[r].path

\* Mutant: reading a skill again changes nothing.
ReadOrderOfNew == Unexpected = {} /\ ReadInOrder

ReadOrder == Unexpected = {} /\ ReadInOrder /\ ReadInTurn

ForbiddenSkills ==
    {i \in Of("skill_selected") : events[i].path \in case.noSkills}

-----------------------------------------------------------------------------
(* Events *)

RequiredEvents == \A kind \in case.events : Successes(kind) # {}
RequiredAttempts == \A kind \in case.attempts : Of(kind) # {}
ForbiddenEvents == {i \in DOMAIN events : events[i].kind \in case.noEvents}

\* traceComplete
CompleteTrace ==
    /\ events # << >>
    /\ Of("trace_complete") = {Len(events)}
    /\ events[Len(events)].ok

\* eventOrderEvidence: a kind stands where it first succeeded or, if it never did, where
\* it was first tried.
\* Mutant: it stands where it was first tried.
PlaceTried(kind) == FirstOf(Of(kind))

Place(kind) ==
    IF Successes(kind) # {} THEN FirstOf(Successes(kind)) ELSE FirstOf(Of(kind))

EventOrder ==
    /\ \A i \in DOMAIN case.order : Of(case.order[i]) # {}
    /\ \A i, j \in DOMAIN case.order : i < j => Place(case.order[i]) < Place(case.order[j])

-----------------------------------------------------------------------------
(* Delegation *)

Spawned == {events[i].path : i \in Successes("agent_spawn")} \ {NoName}
Finished == {events[i].path : i \in Successes("agent_complete")} \ {NoName}

\* A spawn without a name or of a child there is, an end that failed, has no name or
\* was seen before.
Malformed ==
    \/ \E i \in Successes("agent_spawn") :
         \/ events[i].path = NoName
         \/ \E j \in Successes("agent_spawn") : j < i /\ events[j].path = events[i].path
    \/ \E i \in Of("agent_complete") :
         \/ ~events[i].ok
         \/ events[i].path = NoName
         \/ \E j \in Successes("agent_complete") : j < i /\ events[j].path = events[i].path

\* Mutant: as many children ended as were started.
MatchingByCount == ~Malformed /\ Cardinality(Spawned) = Cardinality(Finished)

Matching == ~Malformed /\ Spawned = Finished

SpawnsBeforeWait ==
    Cardinality({i \in Successes("agent_spawn") :
                   events[i].path # NoName /\ \A w \in Of("agent_wait") : i < w})
      >= case.spawns

\* dispatchBatchComplete reads on from the first attempt; the end of a child neither
\* ends nor interrupts the batch.
\* Mutant: neither does a test.
InterruptsUnlessTest(kind) == kind \notin {"agent_spawn", "agent_complete", "test"}

Interrupts(kind) == kind \notin {"agent_spawn", "agent_complete"}

Batch ==
    LET spawned(from, to) ==
          {events[i].path : i \in {k \in Successes("agent_spawn") : k \in from..to}}
            \ {NoName}
        uninterrupted(from, to) == \A i \in from..to : ~Interrupts(events[i].kind) IN
      \/ case.spawns = 0
      \/ /\ Of("agent_spawn") # {}
         /\ LET from == FirstOf(Of("agent_spawn")) IN
              \E to \in from..Len(events) :
                /\ uninterrupted(from, to)
                /\ Cardinality(spawned(from, to)) >= case.spawns

\* orchestrationSpawnBounds.  maxSpawns is {} where attempts have no bound.
SpawnCount ==
    /\ Cardinality(Spawned) >= case.spawns
    /\ \A bound \in case.maxSpawns : Cardinality(Of("agent_spawn")) <= bound

DispatchContract == SpawnCount /\ SpawnsBeforeWait /\ Batch /\ Matching

DelegationRequired == case.delegation \/ case.mode = "inline"

Bounded == case.mode # "output_only" \/ answer.bounded

-----------------------------------------------------------------------------
(* evaluateCase *)

\* caseOracle, run only on intact fixtures where the kind protects them.
Green == ~case.oracle \/ answer.green

\* requiresSkillContract
ContractRequired ==
    case.kind \in {"prose", "orchestration", "workflow"} /\ case.skills # << >>

\* The switch on the kind: the artifact, the workflow, and the task.
KindArtifact ==
    CASE case.kind = "prose" -> answer.facts /\ (case.noop => answer.unchanged)
      [] case.kind = "code_quality" -> Green /\ answer.quality
      [] case.kind = "tdd" -> answer.intact /\ Green
      [] case.kind = "autonomy_status" -> answer.facts
      [] case.kind = "orchestration" -> answer.facts /\ Bounded
      [] case.kind = "safe_effects" -> answer.intact /\ Green
      [] case.kind = "workflow" -> /\ answer.facts
                                   /\ case.plan => answer.plan
                                   /\ case.protected => answer.intact
                                   /\ (case.protected => answer.intact) => Green

KindWorkflow ==
    CASE case.kind \in {"prose", "code_quality", "autonomy_status"} -> TRUE
      [] case.kind = "tdd" -> answer.testFirst /\ answer.redFirst
      [] case.kind = "orchestration" ->
           CompleteTrace /\ (DelegationRequired => DispatchContract)
      [] case.kind = "safe_effects" -> ForbiddenEvents = {} /\ CompleteTrace
      [] case.kind = "workflow" ->
           ForbiddenEvents = {} /\ RequiredEvents /\ CompleteTrace

KindPass ==
    CASE case.kind = "prose" -> answer.facts /\ (case.noop => answer.unchanged)
      [] case.kind = "code_quality" -> Green /\ answer.quality
      [] case.kind = "tdd" -> KindArtifact /\ KindWorkflow
      [] case.kind = "autonomy_status" -> answer.facts
      [] case.kind = "orchestration" ->
           /\ answer.facts
           /\ Bounded
           /\ CompleteTrace
           /\ DelegationRequired => DispatchContract
      [] case.kind = "safe_effects" ->
           ForbiddenEvents = {} /\ Green /\ answer.intact /\ CompleteTrace
      [] case.kind = "workflow" ->
           /\ answer.facts
           /\ case.plan => answer.plan
           /\ ForbiddenEvents = {}
           /\ RequiredEvents
           /\ CompleteTrace
           /\ case.protected => answer.intact
           /\ (case.protected => answer.intact) => Green

\* What every kind is held to.
ArtifactSuccess ==
    /\ KindArtifact
    /\ case.words => answer.words
    /\ case.protected => answer.intact

WorkflowSuccess ==
    /\ KindWorkflow
    /\ case.order # << >> => EventOrder
    /\ RequiredAttempts
    /\ ForbiddenSkills = {}
    /\ ForbiddenEvents = {}

\* Mutant: the words of a response are counted and nothing comes of it.
OutcomeAtAnyLength ==
    /\ KindPass
    /\ case.order # << >> => EventOrder
    /\ RequiredAttempts
    /\ ForbiddenSkills = {}
    /\ ForbiddenEvents = {}
    /\ case.protected => answer.intact

OutcomeSuccess ==
    /\ KindPass
    /\ case.words => answer.words
    /\ case.order # << >> => EventOrder
    /\ RequiredAttempts
    /\ ForbiddenSkills = {}
    /\ ForbiddenEvents = {}
    /\ case.protected => answer.intact

\* Mutant: the contract binds the kinds that report it.
TaskSuccessAnyArm(arm) == OutcomeSuccess /\ (ContractRequired => SkillContract)

TaskSuccess(arm) ==
    OutcomeSuccess /\ (arm = "treatment" /\ ContractRequired => SkillContract)

-----------------------------------------------------------------------------
(* The actor *)

\* What a response and a project are judged by.
Gates ==
    {"facts", "unchanged", "words", "bounded", "plan", "intact", "green", "quality",
     "testFirst", "redFirst"}
Passing == [gate \in Gates |-> TRUE]

\* The gates the case may fail; whatever it does not look at passes.
Judged ==
    {gate \in Gates :
       CASE gate = "facts" -> case.kind \notin {"code_quality", "tdd", "safe_effects"}
         [] gate = "unchanged" -> case.noop
         [] gate = "words" -> case.words
         [] gate = "bounded" -> case.mode = "output_only"
         [] gate = "plan" -> case.plan
         [] gate = "intact" -> case.protected
         [] gate = "green" -> case.oracle
         [] gate = "quality" -> case.kind = "code_quality"
         [] gate \in {"testFirst", "redFirst"} -> case.kind = "tdd"}

CaseInit ==
    /\ case \in Cases
    /\ children = [c \in Children |-> "none"]
    /\ events = << >>
    /\ answer = Passing
    /\ graded = FALSE

Record(event) ==
    /\ ~graded
    /\ Len(events) < MaxEvents(case)
    /\ events' = Append(events, event)
    /\ UNCHANGED <<case, answer, graded>>

\* A child runs before the call that started it returns.
StartChild(c) ==
    /\ ~graded
    /\ children[c] = "none"
    /\ case.kind = "orchestration"
    /\ children' = [children EXCEPT ![c] = "starting"]
    /\ UNCHANGED <<case, events, answer, graded>>

SpawnReturns(c) ==
    /\ children[c] \in {"starting", "early"}
    /\ children' = [children EXCEPT ![c] = IF @ = "early" THEN "done" ELSE "running"]
    /\ Record(Happened("agent_spawn", c, TRUE))

SpawnFails ==
    /\ case.kind = "orchestration"
    /\ Record(Happened("agent_spawn", NoName, FALSE))
    /\ UNCHANGED children

ChildEnds(c) ==
    /\ children[c] \in {"starting", "running"}
    /\ children' = [children EXCEPT ![c] = IF @ = "starting" THEN "early" ELSE "done"]
    /\ \E ok \in BOOLEAN : Record(Happened("agent_complete", c, ok))

\* Its notice comes once more.
NoticeAgain(c) ==
    /\ children[c] \in {"early", "done"}
    /\ Record(Happened("agent_complete", c, TRUE))
    /\ UNCHANGED children

Work ==
    /\ \/ \E kind \in {"test", "git_commit", "external_write"}, ok \in BOOLEAN :
            /\ case.kind # "orchestration"
            /\ kind \in case.events \cup case.attempts \cup case.noEvents
                          \cup ToSet(case.order)
            /\ Record(Happened(kind, NoName, ok))
       \/ case.kind = "orchestration" /\ Record(Happened("agent_wait", NoName, TRUE))
       \/ case.kind = "orchestration" /\ Record(Happened("test", NoName, TRUE))
    /\ UNCHANGED children

Select ==
    /\ ToSet(case.skills) \cup case.noSkills # {}
    /\ \E skill \in ToSet(case.skills) \cup case.noSkills \cup {Foreign}, ok \in BOOLEAN :
         Record(Happened("skill_selected", skill, ok))
    /\ UNCHANGED children

\* Mutant: the marker closes a trace that goes on.
MarkThenGrade ==
    /\ ~graded
    /\ events' = Append(events, Happened("trace_complete", NoName, TRUE))
    /\ graded' \in BOOLEAN
    /\ UNCHANGED <<case, children, answer>>

\* The actor is over and its response, trace and project are graded.  The trace is closed
\* by its marker, or it is incomplete.
Grade ==
    /\ ~graded
    /\ \/ events' = Append(events, Happened("trace_complete", NoName, TRUE))
       \/ UNCHANGED events
    /\ \E failed \in SUBSET Judged :
         /\ Cardinality(failed) <= 1
         /\ answer' = [g \in Gates |-> g \notin failed]
    /\ graded' = TRUE
    /\ UNCHANGED <<case, children>>

CaseNext ==
    \/ \E c \in Children : StartChild(c) \/ SpawnReturns(c) \/ ChildEnds(c) \/ NoticeAgain(c)
    \/ SpawnFails
    \/ Work
    \/ Select
    \/ Grade

CaseSpec == CaseInit /\ [][CaseNext]_caseVars

-----------------------------------------------------------------------------
(* Properties *)

\* Every variable stays in its set, and only a graded trace has its marker.
CaseTypeOK ==
    /\ case \in Cases
    /\ children \in [Children -> {"none", "starting", "early", "running", "done"}]
    /\ events \in Seq(Event)
    /\ Len(events) <= MaxEvents(case) + 1
    /\ answer \in [Gates -> BOOLEAN]
    /\ Of("trace_complete") # {} => graded

\* matching_agent_completions of orchestrationEvidence: children whose notices match have
\* all ended, however late or often the notices came.
MatchingMeansEnded == Matching => \A c \in Spawned : children[c] = "done"

\* A delegation that passes was dispatched as one batch: nothing the actor itself did, and
\* no wait, lies between its first attempt and the last spawn it was asked for.
BatchBeforeWork ==
    graded /\ case.mode = "fanout" /\ DelegationRequired /\ TaskSuccess("control") =>
      \A i \in Of("agent_spawn"), j \in DOMAIN events :
        events[j].kind \in {"agent_wait", "test"} /\ i < j =>
          Cardinality({events[k].path : k \in {s \in Successes("agent_spawn") : s < j}})
            >= case.spawns

\* outcome_success is kept apart from artifact_success and workflow_success throughout
\* evaluateCase, and is still their conjunction for every case and trace.
OutcomeIsBothParts == graded => (OutcomeSuccess <=> ArtifactSuccess /\ WorkflowSuccess)

\* The skill contract judges the treatment arm alone, and only takes away: on the same
\* evidence the control arm passes whenever the outcome does, the treatment arm only if
\* the control arm would.
ContractOnlyTakesAway ==
    graded =>
      /\ TaskSuccess("treatment") => TaskSuccess("control")
      /\ TaskSuccess("control") <=> OutcomeSuccess

\* required_event_order: a declined attempt does not count, so a later kind of the order
\* never succeeds before an earlier one that succeeds at all (eventOrderEvidence).
NothingSucceedsEarly ==
    case.order # << >> /\ EventOrder =>
      \A i, j \in DOMAIN case.order :
        i < j /\ Successes(case.order[i]) # {} =>
          \A s \in Successes(case.order[j]) : FirstOf(Successes(case.order[i])) < s

\* skill_order is a finer diagnostic than skill_membership: it never credits an arm that
\* did not read every required skill, or read one out of turn (skillReadOrderEvidence).
OrderCreditsReads ==
    graded /\ ReadOrder =>
      /\ Membership
      /\ \A i, j \in DOMAIN case.skills, r, s \in RequiredReads :
           events[r].path = case.skills[i] /\ events[s].path = case.skills[j] /\ i < j
             => r < s
==============================================================================
