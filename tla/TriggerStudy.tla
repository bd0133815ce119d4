----------------------------- MODULE TriggerStudy -----------------------------
(***************************************************************************)
(* The trigger-recall study: evals/studies/trigger-recall/run.go from      *)
(* main to the publish bundle.                                             *)
(*                                                                         *)
(* Every probe is run at most twice, each time with the broker staged      *)
(* again from its path; a probe that fails twice ends the study without a  *)
(* publish.  Studies follow one another into the same --out, and a study   *)
(* may be killed at any point.                                             *)
(***************************************************************************)
EXTENDS Integers, Sequences, FiniteSets, FiniteSetsExt, SequencesExt

CONSTANTS
    Shipped,        \* the names in the skill catalog
    NoSkill,        \* expected: "" and an event without a path
    Explicit,       \* the skills whose policy wants an explicit request
    Configurations, \* the corpora and gates a study may be given
    MinRecallProbes, MinNoSkillProbes,  \* 3 and 10 in the code
    Reps,           \* --reps
    NoAnswer,
    Answers,        \* what an actor may do: its selections, its final and its catalog
    PinnedBroker, OtherBroker,
    PluginBytes,    \* the contents the checkout's plugin may have
    MaxStudies, MaxOutside

\* --reps is at least 1, and a corpus is a list.
ASSUME TriggerConstants ==
    /\ Reps \in Nat \ {0}
    /\ MaxStudies \in Nat /\ MaxOutside \in Nat
    /\ \A c \in Configurations : c.cases \in Seq(ToSet(c.cases))

VARIABLES
    triggerStudy, \* the number of this study
    triggerAt, \* where it is
    config,    \* its corpus, its gates, and the cases --filter selects
    attempt,   \* of the current probe
    probed,    \* the rows so far
    tried,     \* the attempts so far
    retries,   \* those of them that were run again
    rendered,  \* manifest.CatalogRendered is set
    staged,    \* the plugin bytes under verified-plugin
    status,    \* the exit code
    kept,      \* the probes under failures/, with their study
    bundle,    \* publish/: the study and the rows of each file
    triggerBroker, plugin,  \* at their paths
    outside    \* the edits to those

triggerVars ==
    <<triggerStudy, triggerAt, config, attempt, probed, tried, retries, rendered, staged,
      status, kept, bundle, triggerBroker, plugin, outside>>

-----------------------------------------------------------------------------
(* The corpus and the gates *)

\* loadUserInvokedOnlySkills and validateCases, validateConfiguration: the recall probes of
\* a skill are those that do not name it.
RecallProbes(cases, skill) ==
    {i \in DOMAIN cases : cases[i].expected = skill /\ cases[i].kind # "explicit"}

ValidCases(cases) ==
    /\ cases # << >>
    /\ \A i, j \in DOMAIN cases : cases[i].id = cases[j].id => i = j
    /\ \A i \in DOMAIN cases :
         LET c == cases[i] IN
           /\ c.expected \in Shipped \cup {NoSkill}
           /\ c.kind = "no-skill" => c.expected = NoSkill
           /\ c.kind = "explicit" => c.expected # NoSkill
           /\ c.allowed \subseteq Shipped \ {c.expected}

ValidConfiguration(cases, gates) ==
    /\ ValidCases(cases)
    /\ \A skill \in Explicit : RecallProbes(cases, skill) = {}
    /\ \A skill \in Shipped \ Explicit :
         Cardinality(RecallProbes(cases, skill)) >= MinRecallProbes
    /\ Cardinality({i \in DOMAIN cases : cases[i].kind = "no-skill"}) >= MinNoSkillProbes
    /\ gates.minimumReps >= 1
    /\ gates.minRecall \in 0..100 /\ gates.maxFalse \in 0..100
    /\ DOMAIN gates.perSkill \subseteq Shipped
    /\ DOMAIN gates.perCase \subseteq
         {cases[i].id : i \in {j \in DOMAIN cases : cases[j].expected = NoSkill}}
    /\ \A skill \in DOMAIN gates.perSkill : gates.perSkill[skill] \in 0..100
    /\ \A id \in DOMAIN gates.perCase : gates.perCase[id] \in 0..100

\* filterCases keeps the order: the one increasing enumeration of the cases that match.
Filtered(cases, filter) ==
    LET matching == {i \in DOMAIN cases : cases[i].id \in filter} IN
      {[k \in DOMAIN place |-> cases[place[k]]] :
         place \in {f \in [1..Cardinality(matching) -> matching] :
                      \A j, k \in DOMAIN f : j < k => f[j] < f[k]}}

-----------------------------------------------------------------------------
(* One probe *)

\* evaluateProbe.  The expected skill counts when its selection succeeded, an unexpected
\* shipped one as soon as it is tried.
\* Mutant: a selection that failed is recall too.
PassesTried(c, events) ==
    /\ ~ \E i \in DOMAIN events :
           events[i].path \in Shipped \ (c.allowed \cup {c.expected})
    /\ c.expected # NoSkill => \E i \in DOMAIN events : events[i].path = c.expected

Passes(c, events) ==
    /\ ~ \E i \in DOMAIN events :
           events[i].path \in Shipped \ (c.allowed \cup {c.expected})
    /\ c.expected # NoSkill =>
         \E i \in DOMAIN events : events[i].path = c.expected /\ events[i].rc = 0

\* What Run and its context may say of an attempt: "error" has every failure of the
\* broker, its response and its attestation in it.
Ended(from) ==
    {[end |-> end, answer |-> NoAnswer, by |-> from, plugin |-> staged] :
       end \in {"timeout", "error", "rc"}}
    \cup {[end |-> "ok", answer |-> answer, by |-> from, plugin |-> staged] : answer \in Answers}

\* catalogMissing
Succeeded(a) == a.end = "ok" /\ a.answer.catalog # "missing"

Probes == Len(config.selected) * Reps
Case(n) == config.selected[((n - 1) \div Reps) + 1]
Rep(n) == ((n - 1) % Reps) + 1
Probe == Len(probed) + 1

RowFor(a) ==
    [id |-> Case(Probe).id, rep |-> Rep(Probe), verdict |-> Passes(Case(Probe), a.answer.events),
     from |-> a]

-----------------------------------------------------------------------------
(* assessGates *)

Tally(rows, c) ==
    LET of == {i \in DOMAIN rows : rows[i].id = c.id} IN
      [total |-> Cardinality(of), pass |-> Cardinality({i \in of : rows[i].verdict})]

\* median, twice over: of two middle values it is the mean.
Median2(values) ==
    LET sorted == SortSeq(values, <)
        middle == Len(sorted) \div 2 IN
      IF Len(sorted) % 2 = 1 THEN 2 * sorted[middle + 1]
      ELSE sorted[middle] + sorted[middle + 1]

\* The rows of the cases whose finals' length counts.
Precision(rows, cases) ==
    LET short == {cases[i].id : i \in {j \in DOMAIN cases :
                    cases[j].kind \in {"no-skill", "near-miss"}}} IN
      SelectSeq(rows, LAMBDA row : row.id \in short)

\* Mutant: the recall of a skill is held to the default.
DefaultRecall(gates, c) == gates.minRecall

MinRecall(gates, c) ==
    IF c.expected \in DOMAIN gates.perSkill THEN gates.perSkill[c.expected] ELSE gates.minRecall

MaxFalse(gates, c) ==
    IF c.id \in DOMAIN gates.perCase THEN gates.perCase[c.id] ELSE gates.maxFalse

CaseViolates(rows, gates, c) ==
    LET tally == Tally(rows, c) IN
      IF c.expected # NoSkill
      THEN tally.pass * 100 < MinRecall(gates, c) * tally.total
      ELSE (tally.total - tally.pass) * 100 > MaxFalse(gates, c) * tally.total

\* Mutant: a case is held to the default even where the gates override it.
HeldToDefault(rows, cases, gates) ==
    {c.id : c \in {d \in ToSet(cases) : CaseViolates(rows, [gates EXCEPT !.perCase = << >>], d)}}

Violations(rows, cases, gates) ==
    LET words == [i \in DOMAIN Precision(rows, cases) |->
                    Precision(rows, cases)[i].from.answer.words]
        dashed == {i \in DOMAIN rows : rows[i].from.answer.dash} IN
      {c.id : c \in {d \in ToSet(cases) : CaseViolates(rows, gates, d)}}
      \cup (IF Reps < gates.minimumReps THEN {"minimum_reps"} ELSE {})
      \cup (IF words # << >> /\ Median2(words) > 2 * gates.maxWords
            THEN {"final_words"} ELSE {})
      \cup (IF Cardinality(dashed) * 100 > gates.maxDash * Len(rows)
            THEN {"em_dash_rate"} ELSE {})

-----------------------------------------------------------------------------
(* main and executeStudy *)

NoBundle == [results |-> [study |-> 0, rows |-> 0],
             manifest |-> [study |-> 0, retries |-> 0, rendered |-> FALSE]]

TriggerInit ==
    /\ triggerStudy = 0 /\ triggerAt = "idle" /\ status = "none"
    /\ config = [selected |-> << >>, gates |-> << >>, enforced |-> FALSE]
    /\ attempt = 1 /\ probed = << >> /\ tried = 0 /\ retries = 0 /\ rendered = FALSE
    /\ staged = NoSkill
    /\ kept = {} /\ bundle = NoBundle
    /\ triggerBroker = PinnedBroker /\ plugin \in PluginBytes
    /\ outside = 0

\* Every check main makes before it creates anything.
Admissible(c) ==
    /\ ValidConfiguration(c.cases, c.gates)
    /\ triggerBroker = PinnedBroker
    /\ \E i \in DOMAIN c.cases : c.cases[i].id \in c.filter

\* A process starts with none of this.
Forget == attempt' = 1 /\ probed' = << >> /\ tried' = 0 /\ retries' = 0 /\ rendered' = FALSE

Begin(c) ==
    /\ triggerStudy' = triggerStudy + 1
    /\ \E selected \in Filtered(c.cases, c.filter) :
         config' = [selected |-> selected, gates |-> c.gates, enforced |-> c.enforced]
    /\ Forget

StartStudy ==
    /\ triggerAt = "idle" /\ triggerStudy < MaxStudies
    /\ \E c \in Configurations :
         /\ Begin(c)
         /\ IF Admissible(c) THEN triggerAt' = "stage" /\ status' = "none"
            ELSE triggerAt' = "idle" /\ status' = "failed"
    /\ UNCHANGED <<staged, kept, bundle, triggerBroker, plugin, outside>>

\* stagePluginTree
StagePlugin ==
    /\ triggerAt = "stage"
    /\ staged' = plugin
    /\ triggerAt' = "probe"
    /\ UNCHANGED <<triggerStudy, config, attempt, probed, tried, retries, rendered, status, kept,
                   bundle, triggerBroker, plugin, outside>>

\* brokerActor.Run stages the broker and starts it only when its bytes are the pinned ones.
Outcomes == IF triggerBroker = PinnedBroker THEN Ended(triggerBroker)
            ELSE {a \in Ended(triggerBroker) : a.end = "error"}

Attempt(a) == triggerAt = "probe" /\ Probe <= Probes /\ a \in Outcomes /\ tried' = tried + 1

GradeProbe ==
    /\ \E a \in Outcomes :
         /\ Attempt(a) /\ Succeeded(a)
         /\ probed' = Append(probed, RowFor(a))
         /\ rendered' = (rendered \/ a.answer.catalog = "rendered")
    /\ attempt' = 1
    /\ UNCHANGED <<triggerStudy, triggerAt, config, retries, staged, status, kept, bundle,
                   triggerBroker, plugin, outside>>

\* Mutant: any attempt may be run again.
RetryAny ==
    /\ \E a \in Outcomes : Attempt(a) /\ ~ Succeeded(a)
    /\ attempt' = attempt + 1
    /\ retries' = retries + 1
    /\ UNCHANGED <<triggerStudy, triggerAt, config, probed, rendered, staged, status, kept, bundle,
                   triggerBroker, plugin, outside>>

Retry ==
    /\ attempt = 1
    /\ \E a \in Outcomes : Attempt(a) /\ ~ Succeeded(a)
    /\ attempt' = 2
    /\ retries' = retries + 1
    /\ UNCHANGED <<triggerStudy, triggerAt, config, probed, rendered, staged, status, kept, bundle,
                   triggerBroker, plugin, outside>>

FailTwice ==
    /\ attempt = 2
    /\ \E a \in Outcomes : Attempt(a) /\ ~ Succeeded(a)
    /\ triggerAt' = "evidence"
    /\ UNCHANGED <<triggerStudy, config, attempt, probed, retries, rendered, staged, status,
                   kept, bundle, triggerBroker, plugin, outside>>

\* writeFailureEvidence: the file of a probe replaces the one an earlier study left.
KeepEvidence ==
    /\ triggerAt = "evidence"
    /\ kept' = {e \in kept : e.id # Case(Probe).id \/ e.rep # Rep(Probe)}
                   \cup {[id |-> Case(Probe).id, rep |-> Rep(Probe), study |-> triggerStudy]}
    /\ triggerAt' = "idle" /\ status' = "failed"
    /\ Forget
    /\ UNCHANGED <<triggerStudy, config, staged, bundle, triggerBroker, plugin, outside>>

\* Mutant: the rows are published as they come.
PublishEarly ==
    /\ triggerAt = "probe"
    /\ bundle' = [bundle EXCEPT !.results = [study |-> triggerStudy, rows |-> Len(probed)]]
    /\ triggerAt' = IF Probe > Probes THEN "manifest" ELSE "probe"
    /\ UNCHANGED <<triggerStudy, config, attempt, probed, tried, retries, rendered, staged, status,
                   kept, triggerBroker, plugin, outside>>

\* writePublish: two files, each replaced whole.
PublishResults ==
    /\ triggerAt = "probe" /\ Probe > Probes
    /\ bundle' = [bundle EXCEPT !.results = [study |-> triggerStudy, rows |-> Len(probed)]]
    /\ triggerAt' = "manifest"
    /\ UNCHANGED <<triggerStudy, config, attempt, probed, tried, retries, rendered, staged, status,
                   kept, triggerBroker, plugin, outside>>

PublishManifest ==
    /\ triggerAt = "manifest"
    /\ bundle' = [bundle EXCEPT !.manifest =
                    [study |-> triggerStudy, retries |-> retries, rendered |-> rendered]]
    /\ triggerAt' = "enforce"
    /\ UNCHANGED <<triggerStudy, config, attempt, probed, tried, retries, rendered, staged, status,
                   kept, triggerBroker, plugin, outside>>

\* enforcementApplies
Enforce ==
    /\ triggerAt = "enforce"
    /\ triggerAt' = "idle"
    /\ status' = IF config.enforced /\ Violations(probed, config.selected, config.gates) # {}
                 THEN "failed" ELSE "passed"
    /\ UNCHANGED <<triggerStudy, config, attempt, probed, tried, retries, rendered, staged, kept,
                   bundle, triggerBroker, plugin, outside>>

\* A write that fails and a signal leave the same: the rows go with the process.
EndEarly ==
    /\ triggerAt # "idle"
    /\ triggerAt' = "idle" /\ status' = "failed"
    /\ Forget
    /\ UNCHANGED <<triggerStudy, config, staged, kept, bundle, triggerBroker, plugin, outside>>

EditOutside ==
    /\ outside < MaxOutside
    /\ triggerBroker' \in {PinnedBroker, OtherBroker} /\ plugin' \in PluginBytes
    /\ <<triggerBroker', plugin'>> # <<triggerBroker, plugin>>
    /\ outside' = outside + 1
    /\ UNCHANGED <<triggerStudy, triggerAt, config, attempt, probed, tried, retries, rendered,
                   staged, status, kept, bundle>>

TriggerNext ==
    \/ StartStudy \/ StagePlugin \/ GradeProbe \/ Retry \/ FailTwice \/ KeepEvidence
    \/ PublishResults \/ PublishManifest \/ Enforce \/ EndEarly \/ EditOutside

TriggerSpec == TriggerInit /\ [][TriggerNext]_triggerVars

-----------------------------------------------------------------------------
(* Properties *)

\* The places, counts and files a study may be at: at most one retry a probe, and no more
\* rows than probes.
TriggerTypeOK ==
    /\ triggerAt \in {"idle", "stage", "probe", "evidence", "manifest", "enforce"}
    /\ status \in {"none", "passed", "failed"}
    /\ triggerStudy \in 0..MaxStudies /\ outside \in 0..MaxOutside
    /\ attempt \in 1..2
    /\ Len(probed) <= Probes
    /\ retries \in 0..Len(probed) + 1 /\ tried \in 0..2 * Probes
    /\ rendered \in BOOLEAN
    /\ triggerBroker \in {PinnedBroker, OtherBroker}
    /\ plugin \in PluginBytes /\ staged \in PluginBytes \cup {NoSkill}
    /\ \A e \in kept : e.study \in 1..triggerStudy /\ e.rep \in 1..Reps
    /\ bundle.results.study \in 0..triggerStudy /\ bundle.manifest.study \in 0..triggerStudy

\* After a study that exits 0 the bundle is that study's: both files are its own, every
\* selected case has each of its repetitions once, each row is of an attempt the pinned
\* broker ended well and whose actor was shown the staged plugin's catalog, and the retries
\* the manifest owns up to are all the attempts without a row.
PublishedIsWhole ==
    status = "passed" =>
      /\ bundle.results = [study |-> triggerStudy, rows |-> Len(probed)]
      /\ bundle.manifest.study = triggerStudy
      /\ bundle.manifest.retries + bundle.results.rows = tried
      /\ \A c \in ToSet(config.selected), rep \in 1..Reps :
           Cardinality({i \in DOMAIN probed : probed[i].id = c.id /\ probed[i].rep = rep}) = 1
      /\ \A i \in DOMAIN probed :
           /\ probed[i].from.end = "ok" /\ probed[i].from.answer.catalog # "missing"
           /\ probed[i].from.by = PinnedBroker /\ probed[i].from.plugin = staged

\* A study under enforcement exits 0 only when every recall case was answered by a selection
\* of its skill that succeeded, and every precision case kept from the shipped skills it may
\* not use, as often as its own gate wants, whatever the cases, the filter and the overrides.
EnforcedMeansMet ==
    status = "passed" /\ config.enforced =>
      \A i \in DOMAIN config.selected :
        LET c == config.selected[i]
            mine == {n \in DOMAIN probed : probed[n].id = c.id}
            \* Its selections, and those of them that failed.
            Paths(n, rcs) == {probed[n].from.answer.events[k].path :
                                k \in {l \in DOMAIN probed[n].from.answer.events :
                                         probed[n].from.answer.events[l].rc \in rcs}}
            clean == {n \in mine : (Paths(n, {0, 1}) \cap Shipped)
                                     \subseteq c.allowed \cup {c.expected}}
            met == {n \in clean : c.expected \in Paths(n, {0})}
            \* Its own gate, where it has one.
            Gate(own, key, common) == IF key \in DOMAIN own THEN own[key] ELSE common IN
          IF c.expected # NoSkill
          THEN Cardinality(met) * 100
                 >= Gate(config.gates.perSkill, c.expected, config.gates.minRecall)
                      * Cardinality(mine)
          ELSE (Cardinality(mine) - Cardinality(clean)) * 100
                 <= Gate(config.gates.perCase, c.id, config.gates.maxFalse) * Cardinality(mine)

\* The rows under publish/ change only once every probe of a study has one: a study that is
\* refused, fails a probe twice or is killed before leaves the earlier bundle as it was.
LeavesBundle == bundle'.results # bundle.results => Len(probed) = Probes /\ Probes > 0

=============================================================================
