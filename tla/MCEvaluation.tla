----------------------------- MODULE MCEvaluation -----------------------------
(* Evaluation with a few requests, cases, rows and answers, for TLC. *)
EXTENDS Evaluation, TLC

(* BrokerRun: every harness and arm, and each with one thing wrong *)

Control == [plain |-> TRUE, harness |-> "claude", arm |-> "control", followups |-> 0,
            home |-> "home", homeEmpty |-> TRUE, plugin |-> "none", reads |-> <<"project">>,
            writes |-> <<"project">>, oracle |-> "command"]
Treatment == [Control EXCEPT !.arm = "treatment", !.plugin = "plugin",
                             !.reads = <<"plugin", "project">>]
Proper == {[r EXCEPT !.harness = h] : r \in {Control, Treatment}, h \in {"claude", "codex"}}
            \cup {[Treatment EXCEPT !.followups = MaxFollowups]}
Improper ==
    UNION {{[r EXCEPT !.plain = FALSE], [r EXCEPT !.followups = MaxFollowups + 1],
            [r EXCEPT !.home = "inside"], [r EXCEPT !.homeEmpty = FALSE],
            [r EXCEPT !.plugin = IF r.plugin = "none" THEN "plugin" ELSE "inside"],
            [r EXCEPT !.reads = <<"project", "project">>],
            [r EXCEPT !.writes = <<"project", "plugin">>],
            [r EXCEPT !.oracle = "invalid"]} : r \in {Control, Treatment}}
MCRequests == Proper \cup Improper \cup {[Treatment EXCEPT !.oracle = "none"]}
MCCredentials ==
    {[mode |-> m, stored |-> st, launched |-> l] :
       <<m, st, l>> \in {<<"", "login", FALSE>>, <<"", "placeholder", FALSE>>,
                         <<"subscription", "expired", FALSE>>,
                         <<"subswapper", "placeholder", TRUE>>, <<"subswapper", "login", FALSE>>,
                         <<"api-key", "key", FALSE>>, <<"api-key", "login", FALSE>>,
                         <<"other", "key", FALSE>>}}

MCTrackers == {[dir |-> TRUE, files |-> {"issue", "pull_request"}, made |-> FALSE],
               [dir |-> TRUE, files |-> {"issue"}, made |-> FALSE],
               [dir |-> FALSE, files |-> {}, made |-> FALSE]}

(* StudyInputs: one catalog, a plugin of two possible files *)

MCCatalogs == <<"cases">>
MCPluginOrder == <<"p1", "p2">>

(* CaseEvidence: one case of each kind of contract in the catalog *)

Plain == [kind |-> "prose", mode |-> "", spawns |-> 0, maxSpawns |-> {}, delegation |-> FALSE,
          skills |-> << >>, noSkills |-> {}, events |-> {}, attempts |-> {}, order |-> << >>,
          noEvents |-> {}, protected |-> FALSE, oracle |-> FALSE, noop |-> FALSE, words |-> FALSE,
          plan |-> FALSE]
MCCases ==
    {[Plain EXCEPT !.noop = TRUE, !.words = TRUE, !.skills = <<"s1">>, !.noSkills = {"s3"}],
     [Plain EXCEPT !.kind = "code_quality", !.oracle = TRUE, !.noSkills = {"s3"}],
     [Plain EXCEPT !.kind = "tdd", !.oracle = TRUE, !.protected = TRUE],
     [Plain EXCEPT !.kind = "autonomy_status"],
     [Plain EXCEPT !.kind = "orchestration", !.mode = "fanout", !.spawns = 2, !.delegation = TRUE],
     [Plain EXCEPT !.kind = "orchestration", !.mode = "output_only", !.spawns = 1,
                   !.maxSpawns = {1}, !.skills = <<"s1">>],
     [Plain EXCEPT !.kind = "orchestration", !.mode = "inline", !.maxSpawns = {0}],
     [Plain EXCEPT !.kind = "safe_effects", !.oracle = TRUE, !.protected = TRUE,
                   !.noEvents = {"external_write"}, !.order = <<"test", "git_commit">>],
     [Plain EXCEPT !.kind = "workflow", !.skills = <<"s1", "s2">>, !.plan = TRUE, !.words = TRUE],
     [Plain EXCEPT !.kind = "workflow", !.skills = <<"s1">>, !.events = {"test"},
                   !.attempts = {"git_commit"}, !.noEvents = {"external_write"},
                   !.order = <<"test", "git_commit">>, !.protected = TRUE, !.oracle = TRUE]}
MCMaxEvents(c) ==
    CASE c.mode = "fanout" -> 5
      [] c.kind = "safe_effects" -> 4
      [] c.kind \in {"tdd", "autonomy_status"} -> 1
      [] OTHER -> 3

(* StudyAcceptance *)

MCCatalog == <<"k1", "k2", "k3">>

(* TriggerStudy: corpora with and without enough probes, one of them with an id twice *)

Recall == [id |-> "k1", kind |-> "implicit", expected |-> "s1", allowed |-> {"s2"}]
Quiet == [id |-> "k2", kind |-> "no-skill", expected |-> "", allowed |-> {}]
Near == [id |-> "k3", kind |-> "explicit", expected |-> "s2", allowed |-> {}]
LaxGates == [minimumReps |-> 1, minRecall |-> 50, maxFalse |-> 50, maxWords |-> 1, maxDash |-> 50,
             perSkill |-> ("s1" :> 100), perCase |-> << >>]
Strict == [LaxGates EXCEPT !.perCase = ("k2" :> 0), !.maxWords = 3, !.maxDash = 100]
EveryCase == {"k1", "k2", "k3"}
MCConfigurations ==
    {[cases |-> <<Recall, Quiet>>, gates |-> LaxGates, filter |-> EveryCase, enforced |-> TRUE],
     [cases |-> <<Recall, Quiet>>, gates |-> Strict, filter |-> {"k2"}, enforced |-> TRUE],
     [cases |-> <<Recall, Near, Quiet>>, gates |-> Strict, filter |-> {"k3"}, enforced |-> TRUE],
     [cases |-> <<Recall, [Quiet EXCEPT !.id = "k1"]>>, gates |-> LaxGates, filter |-> EveryCase,
      enforced |-> FALSE]}
Selection(path, rc) == [path |-> path, rc |-> rc]
AnswerOf(events_, words, catalog) ==
    [events |-> events_, words |-> words, dash |-> words > 1, catalog |-> catalog]
MCAnswers ==
    {AnswerOf(<< >>, 1, "unavailable"), AnswerOf(<<Selection("s1", 0)>>, 1, "rendered"),
     AnswerOf(<<Selection("s1", 1), Selection("s2", 0)>>, 3, "rendered"),
     AnswerOf(<<Selection("s1", 0)>>, 1, "missing")}

(* Scoring: rows that pair, and rows that differ from those in one thing *)

ScoredRow(number, ofCase, block, arm, plugin_, success, verdict_) ==
    [class |-> "behavioral", study |-> "installed-ab", case |-> ofCase, run |-> number,
     block |-> block, arm |-> arm, provenance |-> "here", plugin |-> plugin_,
     status |-> "completed", rc |-> 0, verdict |-> verdict_, outcome |-> success, metrics |-> "m", reportOnly |-> FALSE,
     timed |-> TRUE, bounded |-> TRUE]
VerdictOf(success) == IF success THEN "pass" ELSE "fail"
T(number, block, success) ==
    ScoredRow(number, "k1", block, "treatment", "plugin", success, VerdictOf(success))
C(number, block, success) ==
    ScoredRow(number, "k1", block, "control", "empty", success, VerdictOf(success))
ProbeRow(number, ofCase) ==
    [ScoredRow(number, ofCase, 1, "treatment", "plugin", TRUE, "pass")
       EXCEPT !.class = "activation", !.study = "trigger-recall"]
MCLines ==
    {T(1, 1, TRUE), T(1, 1, FALSE), C(2, 1, TRUE), C(2, 1, FALSE), T(3, 2, TRUE), C(4, 2, FALSE),
     T(11, 1, TRUE), C(12, 2, FALSE),
     [T(3, 2, TRUE) EXCEPT !.plugin = "plugin2"], [T(3, 2, TRUE) EXCEPT !.timed = FALSE],
     [C(4, 2, FALSE) EXCEPT !.metrics = "n"], [C(4, 2, TRUE) EXCEPT !.provenance = "there"],
     [T(1, 1, TRUE) EXCEPT !.verdict = "fail"],
     [T(5, 2, TRUE) EXCEPT !.case = "k2", !.reportOnly = TRUE],
     [C(6, 2, TRUE) EXCEPT !.case = "k2", !.reportOnly = TRUE],
     [T(3, 2, FALSE) EXCEPT !.study = "trigger-recall"],
     ProbeRow(7, "k1"), ProbeRow(8, "k2"), [ProbeRow(8, "k1") EXCEPT !.plugin = "plugin2"],
     [T(10, 1, TRUE) EXCEPT !.class = "regression", !.arm = "regression",
                               !.study = "trigger-recall"]}

(* TraceEvents: tests alone, after a cd, masked, not reached, unseen, and not run *)

Segment(op, does) == [op |-> op, does |-> does]
MCCommands ==
    {<<Segment("", "test")>>, <<Segment("", "test"), Segment("|", "cat")>>,
     <<Segment("", "false"), Segment("&&", "test")>>,
     <<Segment("", "cd"), Segment("||", "script")>>, <<Segment("", "hidden")>>,
     <<Segment("", "reused")>>, <<Segment("", "read")>>,
     <<Segment("", "test"), Segment("&&", "commit")>>}

(* ResumeProof: a path listed twice, one alone, and one that is none *)

Repetition(path) == [path |-> path, rep |-> 1]
MCSchedules ==
    {<<Repetition("fresh"), Repetition("fresh")>>, <<Repetition("compact")>>,
     <<Repetition("other"), Repetition("fresh")>>}
===============================================================================
