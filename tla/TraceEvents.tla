------------------------------ MODULE TraceEvents ------------------------------
(***************************************************************************)
(* What the sandbox broker makes of an actor's tools: normalizeObject,     *)
(* normalizeClaudeToolResults, commandEvents and bindExecutionReceipts of  *)
(* evals/tools/sandbox-broker/main.go.                                     *)
(*                                                                         *)
(* The actor's tools really run, and the wrapped tests among them leave    *)
(* receipts; the trace tells of both in its own order and words.  Whether  *)
(* its turns are complete is ClaudeTrace's.                                *)
(***************************************************************************)
EXTENDS Naturals, Sequences, FiniteSets, SequencesExt

CONSTANTS
    Calls,      \* tool calls, by id
    Commands,   \* shapes of shell commands: sequences of [op, does]
    MaxRepeats, \* bound: lines of the trace that come twice
    MaxOpen     \* bound: calls whose results are awaited

\* Bound: a command has at most one test, so that a call leaves at most one receipt.
ASSUME TraceConstants ==
    /\ MaxRepeats \in Nat
    /\ \A command \in Commands :
         /\ command \in Seq(ToSet(command))
         /\ \A i, j \in DOMAIN command :
              {command[i].does, command[j].does} \subseteq {"test", "script", "hidden", "reused"}
                => i = j

VARIABLES
    harness,   \* "claude" or "codex"
    lifecycle, \* Claude tells of its agents in task_started and task_notification
    collected, \* the broker collects receipts
    tool,      \* what each call runs
    callStage, \* of each call: unused, asked, running, ran, told
    outcome,   \* of each call that ran: its exit code, what of it ran, its test's code
    receipts,  \* execution receipts, in the order they were finished
    truth,     \* the calls that ran, in the order they ended
    together,  \* a call started before another's result was told
    awaited,   \* Claude's tool_use blocks without a result
    told,      \* what the trace has told
    repeats,   \* lines that came twice
    valid,     \* nothing in the trace contradicted it
    ended,
    evidence   \* the normalized events, once the trace has ended

traceVars == <<harness, lifecycle, collected, tool, callStage, outcome, receipts, truth, together,
               awaited, told, repeats, valid, ended, evidence>>

Tools == [kind : {"command"}, command : Commands]
           \cup [kind : {"write", "spawn"}, command : {<< >>}]
NoTool == [kind |-> "none", command |-> << >>]

ToolEvent(kind, call, rc) == [kind |-> kind, call |-> call, rc |-> rc]

\* What list has at the places of kept, in its order.
Picked(list, kept) ==
    [k \in 1..Cardinality(kept) |->
       list[CHOOSE i \in kept : Cardinality({j \in kept : j <= i}) = k]]

-----------------------------------------------------------------------------
(* commandEvents: what a command's text shows *)

\* isTestCommand and runReceiptTests: a bare test; one that run-receipt wraps, whose
\* status --shell may mask; one that run-receipt --reuse answers without running it.
ShowsTest(does) == does \in {"test", "script", "reused"}

\* Mutant: any last test has the command's status.
AttributableLast(command, i) == i = Len(command) /\ ShowsTest(command[i].does)

Attributable(command, i) ==
    /\ i = Len(command) /\ command[i].does \in {"test", "reused"}
    /\ \A j \in 1..i : (j < i => command[j].does = "cd") /\ (j > 1 => command[j].op = "&&")

\* A test has an event of its own where the command's status is its own, and else an
\* anchor; a test that another program runs has neither.
SegmentKind(command, i) ==
    IF command[i].does = "commit" THEN "commit"
    ELSE IF Attributable(command, i) THEN "test" ELSE "anchor"

CommandEvents(call, command, rc) ==
    Picked([i \in DOMAIN command |-> ToolEvent(SegmentKind(command, i), call, rc)],
           {i \in DOMAIN command : ShowsTest(command[i].does) \/ command[i].does = "commit"})

\* A Codex command without an exit code still tells of the effects it was to have.
AttemptEvents(call, command) ==
    Picked([i \in DOMAIN command |-> ToolEvent("commit", call, 1)],
           {i \in DOMAIN command : command[i].does = "commit"})

\* skillReadEvents: Codex loads a skill by a command that prints it.
ReadEvents(call, command, rc) ==
    IF \E i \in DOMAIN command : command[i].does = "read" THEN <<ToolEvent("read", call, rc)>>
    ELSE << >>

ToolEvents(call, rc) ==
    CASE tool[call].kind = "write" -> <<ToolEvent("write", call, rc)>>
      [] tool[call].kind = "spawn" ->
           <<ToolEvent(IF harness = "claude" THEN "spawn tool" ELSE "spawn", call, rc)>>
      [] tool[call].kind = "command" ->
           CommandEvents(call, tool[call].command, rc) \o
             (IF harness = "codex" THEN ReadEvents(call, tool[call].command, rc) ELSE << >>)

-----------------------------------------------------------------------------
(* The end of normalizeTraceTurns *)

IsTest(e) == e.kind \in {"test", "anchor"}
Trusted(r) == r.stable
TestOf(r) == ToolEvent("test", r.call, r.rc)

\* Mutant: an agent that both sources tell of is two.
KeepSpawns(list) == [i \in DOMAIN list |->
    IF list[i].kind = "spawn tool" THEN [list[i] EXCEPT !.kind = "spawn"] ELSE list[i]]

\* reconcileClaudeSpawns: the tools' spawns count only without lifecycle events.
ReconcileSpawns(list) ==
    IF \E i \in DOMAIN list : list[i].kind = "spawn"
    THEN Picked(list, {i \in DOMAIN list : list[i].kind # "spawn tool"})
    ELSE [i \in DOMAIN list |->
            IF list[i].kind = "spawn tool" THEN [list[i] EXCEPT !.kind = "spawn"] ELSE list[i]]

Tests(list) == {i \in DOMAIN list : IsTest(list[i])}

\* What the receipts tell by themselves, after the trace.
Following(list) ==
    LET trusted == Picked(receipts, {i \in DOMAIN receipts : Trusted(receipts[i])}) IN
      Picked(list, DOMAIN list \ Tests(list)) \o [i \in DOMAIN trusted |-> TestOf(trusted[i])]

\* Mutant: the receipts always follow the trace.
BindLast(list) ==
    IF receipts = << >> THEN Picked(list, {i \in DOMAIN list : list[i].kind # "anchor"})
    ELSE Following(list)

\* The receipt of the k-th run that started.
Ordered(k) ==
    CHOOSE r \in ToSet(receipts) :
      Cardinality({s \in ToSet(receipts) : s.start <= r.start}) = k

\* bindExecutionReceipts: where each shown test has a receipt, the k-th that started
\* takes the place of the k-th shown; else the receipts follow the trace.
Bind(list) ==
    LET bound(i) == Ordered(Cardinality({j \in Tests(list) : j <= i})) IN
      IF receipts = << >> THEN Picked(list, {i \in DOMAIN list : list[i].kind # "anchor"})
      ELSE IF Cardinality(Tests(list)) # Len(receipts) THEN Following(list)
      ELSE Picked([i \in DOMAIN list |-> IF i \in Tests(list) THEN TestOf(bound(i)) ELSE list[i]],
                  {i \in DOMAIN list : i \in Tests(list) => Trusted(bound(i))})

\* promoteSkillReads: a skill that was read already is not selected again.
PromoteReads(list) ==
    LET first(i) == list[i].kind = "read" /\ list[i].rc = 0
                      => ~ \E j \in 1..i - 1 : list[j].kind = "read" /\ list[j].rc = 0 IN
      Picked([i \in DOMAIN list |->
                IF list[i].kind = "read" THEN [list[i] EXCEPT !.kind = "selected"] ELSE list[i]],
             {i \in DOMAIN list : first(i)})

Normalized ==
    PromoteReads(Bind(IF harness = "claude" THEN ReconcileSpawns(told) ELSE told))

-----------------------------------------------------------------------------
(* The shell: what really runs *)

RunsOf(op, last) == op = "&&" => last = 0
TestingSegments == {"test", "script", "hidden"}

\* The segments of a command that run, and its exit code, for the codes they end with.
OutcomesOf(command) ==
    {[ran |-> {i \in DOMAIN command : RunsOf(command[i].op, after[i - 1])},
      rc |-> after[Len(command)], codes |-> after] :
       after \in {a \in [0..Len(command) -> {0, 1}] :
         /\ a[0] = 0
         /\ \A i \in DOMAIN command :
              IF ~RunsOf(command[i].op, a[i - 1]) THEN a[i] = a[i - 1]
              ELSE CASE command[i].does = "false" -> a[i] = 1
                     [] command[i].does \in TestingSegments -> a[i] \in {0, 1}
                     [] OTHER -> a[i] = 0}}

TestsRun(call) == {i \in outcome[call].ran : tool[call].command[i].does \in TestingSegments}
RunsTest(call) == TestsRun(call) # {}
TestCode(call) == outcome[call].codes[CHOOSE i \in TestsRun(call) : TRUE]

TraceInit ==
    /\ harness \in {"claude", "codex"}
    /\ lifecycle \in IF harness = "claude" THEN BOOLEAN ELSE {FALSE}
    /\ collected \in BOOLEAN
    /\ tool = [c \in Calls |-> NoTool]
    /\ callStage = [c \in Calls |-> "unused"]
    /\ outcome = [c \in Calls |-> [ran |-> {}, rc |-> 0, codes |-> [i \in {0} |-> 0],
                               start |-> 0, stable |-> TRUE]]
    /\ receipts = << >> /\ truth = << >>
    /\ together = FALSE
    /\ awaited = {} /\ told = << >>
    /\ repeats = 0
    /\ valid = TRUE
    /\ ended = FALSE /\ evidence = << >>

Started == Cardinality({c \in Calls : callStage[c] \notin {"unused", "asked"}})

\* A tool_use block; Codex' item.started is passed over.
Ask(call) ==
    /\ callStage[call] = "unused"
    /\ Cardinality({c \in Calls : callStage[c] \notin {"unused", "told"}}) < MaxOpen
    /\ callStage' = [callStage EXCEPT ![call] = "asked"]
    /\ \E t \in Tools : tool' = [tool EXCEPT ![call] = t]
    /\ awaited' = IF harness = "claude" THEN awaited \cup {call} ELSE awaited
    /\ UNCHANGED <<outcome, receipts, truth, together, told, repeats, valid>>

\* The harness starts it; an agent that starts is told of in a line of its own.
CallBegins(call) ==
    /\ callStage[call] = "asked"
    /\ callStage' = [callStage EXCEPT ![call] = "running"]
    /\ \E o \in OutcomesOf(tool[call].command) :
         outcome' = [outcome EXCEPT ![call] =
                       [ran |-> o.ran, rc |-> o.rc, codes |-> o.codes,
                        start |-> Started + 1, stable |-> TRUE]]
    /\ together' = (together \/ \E c \in Calls : callStage[c] \in {"running", "ran"})
    /\ told' = IF lifecycle /\ tool[call].kind = "spawn"
               THEN Append(told, ToolEvent("spawn", call, 0)) ELSE told
    /\ UNCHANGED <<tool, receipts, truth, awaited, repeats, valid>>

\* It ends.  A write is seen by the tests that are running, and a test has its receipt.
End(call) ==
    /\ callStage[call] = "running"
    /\ callStage' = [callStage EXCEPT ![call] = "ran"]
    /\ truth' = Append(truth, call)
    /\ outcome' = IF tool[call].kind # "write" THEN outcome
                  ELSE [c \in Calls |->
                          IF callStage[c] = "running" THEN [outcome[c] EXCEPT !.stable = FALSE]
                          ELSE outcome[c]]
    /\ receipts' = IF collected /\ RunsTest(call)
                   THEN Append(receipts, [call |-> call, start |-> outcome[call].start,
                                          rc |-> TestCode(call), stable |-> outcome[call].stable])
                   ELSE receipts
    /\ UNCHANGED <<tool, together, awaited, told, repeats, valid>>

\* Its result is told: with its status, or, by Claude, without one and a payload or
\* nothing; by Codex without an exit code, of a command that was declined.
Tell(call) ==
    /\ callStage[call] = "ran"
    /\ callStage' = [callStage EXCEPT ![call] = "told"]
    /\ awaited' = awaited \ {call}
    /\ \/ told' = told \o ToolEvents(call, outcome[call].rc)
       \/ harness = "claude" /\ told' = told
    /\ UNCHANGED <<tool, outcome, receipts, truth, together, repeats, valid>>

Decline(call) ==
    /\ callStage[call] = "asked" /\ harness = "codex" /\ tool[call].kind = "command"
    /\ callStage' = [callStage EXCEPT ![call] = "told"]
    /\ told' = told \o AttemptEvents(call, tool[call].command)
    /\ UNCHANGED <<tool, outcome, receipts, truth, together, awaited, repeats, valid>>

\* Mutant: a result that was told already counts again.
RepeatResultKept(call) ==
    /\ harness = "claude" /\ callStage[call] = "told" /\ repeats < MaxRepeats
    /\ repeats' = repeats + 1
    /\ told' = told \o ToolEvents(call, outcome[call].rc)
    /\ UNCHANGED <<tool, callStage, outcome, receipts, truth, together, awaited, valid>>

\* A tool_result whose call is not pending, or a second tool_use of one id.
RepeatResult(call) ==
    /\ harness = "claude" /\ callStage[call] = "told" /\ repeats < MaxRepeats
    /\ repeats' = repeats + 1
    /\ valid' = FALSE
    /\ UNCHANGED <<tool, callStage, outcome, receipts, truth, together, awaited, told>>

EndTrace ==
    /\ ended' = TRUE /\ evidence' = Normalized
    /\ UNCHANGED <<tool, callStage, outcome, receipts, truth, together, awaited, told, repeats,
                   valid>>

TraceNext ==
    /\ ~ended
    /\ \/ /\ \E call \in Calls :
               \/ Ask(call) \/ CallBegins(call) \/ End(call)
               \/ Tell(call) \/ Decline(call) \/ RepeatResult(call)
          /\ UNCHANGED <<ended, evidence>>
       \/ EndTrace
    /\ UNCHANGED <<harness, lifecycle, collected>>

TraceSpec == TraceInit /\ [][TraceNext]_traceVars

-----------------------------------------------------------------------------
(* Properties *)

EvidenceOf(kind) == {i \in DOMAIN evidence : evidence[i].kind = kind}

\* Every variable stays in its set, and what is provisional is not in the evidence.
TraceTypeOK ==
    /\ harness \in {"claude", "codex"} /\ lifecycle \in BOOLEAN
    /\ callStage \in [Calls -> {"unused", "asked", "running", "ran", "told"}]
    /\ ToSet(truth) \subseteq Calls /\ awaited \subseteq Calls
    /\ repeats \in 0..MaxRepeats
    /\ ended => \A i \in DOMAIN evidence :
                  evidence[i].kind \in {"test", "write", "commit", "spawn", "selected"}

\* With receipts, the tests of the evidence are the trusted runs, each of them once and
\* with the status the run had ("only oracle-matching, state-stable receipts become test
\* events", main.go:5432).
TestsAreTrustedRuns ==
    ended /\ receipts # << >> =>
      /\ {TestOf(r) : r \in {s \in ToSet(receipts) : Trusted(s)}}
           = {evidence[i] : i \in EvidenceOf("test")}
      /\ Cardinality(EvidenceOf("test"))
           = Cardinality({i \in DOMAIN receipts : Trusted(receipts[i])})

\* Without receipts, a test of the evidence ran and ended with the code it is given: not
\* with that of another part of its command (commandEvents, main.go:4519-4525).  A check
\* that run-receipt answered from an earlier run counts as one that passed.
NativeCodesAreTheTests ==
    ended /\ receipts = << >> => \A i \in EvidenceOf("test") :
      \/ RunsTest(evidence[i].call) /\ evidence[i].rc = TestCode(evidence[i].call)
      \/ /\ \E j \in DOMAIN tool[evidence[i].call].command :
              tool[evidence[i].call].command[j].does = "reused"
         /\ evidence[i].rc = 0

\* A test that the trace shows and that ran, as its receipt shows.
Shown(call) ==
    /\ \E i \in DOMAIN told : IsTest(told[i]) /\ told[i].call = call
    /\ RunsTest(call)

AllShown ==
    /\ \A r \in ToSet(receipts) : Shown(r.call)
    /\ \A i \in DOMAIN told : IsTest(told[i]) => Shown(told[i].call)

PlaceInTrace(call) == CHOOSE i \in DOMAIN truth : truth[i] = call

InOrder ==
    \A i, j \in EvidenceOf("test") \cup EvidenceOf("write") :
      i < j => PlaceInTrace(evidence[i].call) <= PlaceInTrace(evidence[j].call)

\* Of an actor that waits for one tool before it starts the next and whose tests all show
\* in the trace and have a receipt, the evidence has tests and writes in the order they
\* ran (bindExecutionReceipts).
TestsKeepTheirPlace == ended /\ ~together /\ AllShown => InOrder

\* "When the trace holds exactly one test anchor per receipt ... test events keep their
\* order relative to commits and writes" (main.go:5433-5435), whatever tests they are.
MatchedCountsKeepOrder ==
    ended /\ Cardinality(Tests(told)) = Len(receipts) =>
      \A i \in EvidenceOf("test"), j \in EvidenceOf("write") :
        i < j <=> PlaceInTrace(evidence[i].call) < PlaceInTrace(evidence[j].call)

\* In a trace nothing contradicts, a call is told of once, an agent as well, and the body
\* of a skill is loaded once (normalizeClaudeToolResults, reconcileClaudeSpawns,
\* promoteSkillReads).
CountedOnce ==
    ended /\ valid =>
      /\ \A kind \in {"write", "spawn"}, i, j \in DOMAIN evidence :
           evidence[i].kind = kind /\ evidence[j].kind = kind =>
             (evidence[i].call = evidence[j].call => i = j)
      /\ \A i, j \in EvidenceOf("selected") : evidence[i].rc = 0 /\ evidence[j].rc = 0 => i = j
================================================================================
