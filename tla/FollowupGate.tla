---------------------------- MODULE FollowupGate ----------------------------
(***************************************************************************)
(* Follow-up tasks in one Claude process: claudeFollowupGate and           *)
(* runClaudeStreamingProcess of evals/tools/sandbox-broker/main.go.        *)
(*                                                                         *)
(* Three processes run concurrently: the broker's goroutine that writes    *)
(* the frames (Writer), the goroutine that copies the CLI's stdout into    *)
(* the gate and the trace (Observe), and the CLI itself, known only by     *)
(* what the broker's fixtures and self-tests show of it (Cli...).          *)
(***************************************************************************)
EXTENDS ClaudeTrace, Sequences

CONSTANTS
    HabitSets, \* what the CLI may do beyond the orderly case, subsets of AllHabits
    PipeMax,   \* bound: objects the CLI is ahead of the copier
    InnerMax   \* bound: origin-less results of forwarded segments

\* "announce": a later turn may start with an init, as the first one does;
\* "background": an agent may outlive the root result of its turn;
\* "late": a forwarded segment may open after the root result of its turn;
\* "inner": a forwarded segment may show an origin-less result of its own, and end
\* before the root result of its turn;
\* "faulty": an error result, a result of unknown origin, a line that is not JSON;
\* "crash": the process dies.
AllHabits == {"announce", "background", "late", "inner", "faulty", "crash"}

ASSUME HabitsAssumption == HabitSets \subseteq SUBSET AllHabits
ASSUME BoundsAssumption == PipeMax \in Nat \ {0} /\ InnerMax \in Nat
ASSUME TasksAssumption == NoTask \notin Tasks

VARIABLES
    gate,     \* the fields of claudeFollowupGate
    ready,    \* the gate's ready channel (capacity 1) holds a token
    writer,   \* where runClaudeStreamingProcess is
    begun,    \* frames begun (beginTurn)
    stdin,    \* frames in the stdin pipe
    eof,      \* stdin is closed
    cli,      \* the CLI
    pipe,     \* objects on stdout that the copier has not read
    trace,    \* normalizeTraceTurns over the captured objects
    rc,       \* the exit code runClaudeStreamingProcess returns
    habits    \* of this CLI

vars == <<gate, ready, writer, begun, stdin, eof, cli, pipe, trace, rc, habits>>

broker == <<gate, ready, writer, begun, trace, rc, habits>>

NoRC == 999

Gate ==
    [segments : 0..1, awaitingRoot : BOOLEAN, rootSeen : BOOLEAN, readySignaled : BOOLEAN,
     failed : BOOLEAN, active : SUBSET Tasks, seen : SUBSET Tasks, perms : Nat, open : Nat]

NewGate ==
    [segments |-> 0, awaitingRoot |-> FALSE, rootSeen |-> FALSE, readySignaled |-> FALSE,
     failed |-> FALSE, active |-> {}, seen |-> {}, perms |-> 0, open |-> 0]

\* turn: frames consumed; working: the root turn has no result yet; chatted: it has
\* shown a message; due: completed agents whose forwarded segment has neither opened
\* nor been dropped.
Cli ==
    [turn : 0..Turns, working : BOOLEAN, chatted : BOOLEAN, active : SUBSET Tasks, started : SUBSET Tasks,
     due : Nat, open : Nat, inner : 0..InnerMax, roots : 0..Turns, sound : BOOLEAN,
     exited : BOOLEAN]

NewCli ==
    [turn |-> 0, working |-> FALSE, chatted |-> FALSE, active |-> {}, started |-> {}, due |-> 0, open |-> 0,
     inner |-> 0, roots |-> 0, sound |-> TRUE, exited |-> FALSE]

TypeOK ==
    /\ gate \in Gate
    /\ ready \in BOOLEAN
    /\ writer \in {"begin", "writing", "waiting", "claiming", "closing", "finished"}
    /\ begun \in 0..Turns
    /\ stdin \in 0..Turns
    /\ eof \in BOOLEAN
    /\ cli \in Cli
    /\ pipe \in Seq(Object) /\ Len(pipe) <= PipeMax
    /\ trace \in Trace
    /\ rc \in {NoRC, 0, 1, 124, 125}
    /\ habits \in HabitSets

Init ==
    /\ gate = NewGate
    /\ ready = FALSE
    /\ writer = "begin"
    /\ begun = 0
    /\ stdin = 0
    /\ eof = FALSE
    /\ cli = NewCli
    /\ pipe = << >>
    /\ trace = NewTrace
    /\ rc = NoRC
    /\ habits \in HabitSets

-----------------------------------------------------------------------------
(* The gate: observeLocked *)

Failed(g) == [g EXCEPT !.failed = TRUE]

\* Mutant: every later init opens a forwarded segment.
ObserveSystemAnyInit(g, o) ==
    CASE o.kind = "init" /\ g.segments = 0 -> [g EXCEPT !.segments = 1]
      [] o.kind = "init" /\ g.segments > 0 -> [g EXCEPT !.open = @ + 1]
      [] o.kind = "started" -> [g EXCEPT !.seen = @ \cup {o.task}, !.active = @ \cup {o.task}]
      [] o.kind = "notified" -> [g EXCEPT !.active = @ \ {o.task}]
      [] OTHER -> g

ObserveSystem(g, o) ==
    CASE o.kind = "init" ->
           IF g.segments = 0 THEN [g EXCEPT !.segments = 1]
           ELSE IF g.perms > 0 THEN [g EXCEPT !.perms = @ - 1, !.open = @ + 1]
           ELSE g
      [] o.kind = "started" ->
           IF o.task \in g.seen THEN Failed(g)
           ELSE [g EXCEPT !.seen = @ \cup {o.task}, !.active = @ \cup {o.task}]
      [] o.kind = "notified" ->
           IF o.task \in g.active
           THEN [g EXCEPT !.active = @ \ {o.task}, !.perms = IF o.ok THEN @ + 1 ELSE @]
           ELSE IF o.task \in g.seen THEN Failed(g) ELSE g
      [] OTHER -> g

\* Only the first well-formed origin-less result after a user frame is its root.
ObserveResult(g, o) ==
    LET wellFormed == g.segments > 0 /\ o.ok IN
    CASE o.kind = "forwarded" ->
           IF wellFormed /\ g.open > 0 THEN [g EXCEPT !.open = @ - 1] ELSE Failed(g)
      [] o.kind = "stray" -> Failed(g)
      [] o.kind = "result" ->
           IF ~wellFormed THEN Failed(g)
           ELSE IF g.awaitingRoot THEN [g EXCEPT !.awaitingRoot = FALSE, !.rootSeen = TRUE]
           ELSE IF ~g.rootSeen /\ g.open = 0 THEN Failed(g)
           ELSE g
      [] OTHER -> g

\* Mutant: a permission counts as outstanding work until an init uses it.
SettledWithoutPermissions(g) == g.rootSeen /\ g.active = {} /\ g.open = 0 /\ g.perms = 0

\* Mutant: the root result alone settles the gate.
SettledByRoot(g) == g.rootSeen

Settled(g) == g.rootSeen /\ g.active = {} /\ g.open = 0

\* What an object makes of the gate before signalReadyLocked.
Observed(g, o) ==
    IF o.kind = "garbage" THEN Failed(g) ELSE ObserveResult(ObserveSystem(g, o), o)

\* The copier hands one object to Write: the capture takes it, the gate observes it
\* unless it has failed, and signalReadyLocked posts a token when the gate settles.
Observe ==
    /\ pipe # << >>
    /\ pipe' = Tail(pipe)
    /\ trace' = TraceStep(trace, Head(pipe))
    /\ IF gate.failed
       THEN UNCHANGED <<gate, ready>>
       ELSE LET g == Observed(gate, Head(pipe)) IN
            IF g.failed
            THEN gate' = g /\ UNCHANGED ready
            ELSE /\ gate' = [g EXCEPT !.readySignaled = Settled(g)]
                 /\ ready' = (ready \/ (Settled(g) /\ ~g.readySignaled))
    /\ UNCHANGED <<writer, begun, stdin, eof, cli, rc, habits>>

-----------------------------------------------------------------------------
(* The writer *)

Return(code) ==
    /\ rc' = code
    /\ writer' = "finished"

\* stop: close stdin and kill the process group; what is on stdout is still drained.
Stop(code) ==
    /\ Return(code)
    /\ eof' = TRUE
    /\ cli' = [cli EXCEPT !.exited = TRUE]
    /\ UNCHANGED <<gate, ready, begun, stdin, pipe, trace, habits>>

\* Mutant: beginTurn does not look at failed.
BeginTurnUnchecked ==
    /\ writer = "begin"
    /\ gate' = [gate EXCEPT !.awaitingRoot = TRUE]
    /\ begun' = begun + 1
    /\ writer' = "writing"
    /\ UNCHANGED <<ready, stdin, eof, cli, pipe, trace, rc, habits>>

BeginTurn ==
    /\ writer = "begin"
    /\ ~(gate.failed \/ gate.awaitingRoot \/ gate.rootSeen)
    /\ gate' = [gate EXCEPT !.awaitingRoot = TRUE]
    /\ begun' = begun + 1
    /\ writer' = "writing"
    /\ UNCHANGED <<ready, stdin, eof, cli, pipe, trace, rc, habits>>

BeginRefused ==
    /\ writer = "begin"
    /\ gate.failed \/ gate.awaitingRoot \/ gate.rootSeen
    /\ Stop(125)

\* Mutant: the last frame is waited for like the others.
WriteFrameOneMore ==
    /\ writer = "writing"
    /\ ~cli.exited
    /\ stdin' = stdin + 1
    /\ writer' = IF begun <= Turns THEN "waiting" ELSE "closing"
    /\ eof' = (begun > Turns)
    /\ UNCHANGED <<gate, ready, begun, cli, pipe, trace, rc, habits>>

\* The goroutine writes the frame and the writer learns of it.
WriteFrame ==
    /\ writer = "writing"
    /\ ~cli.exited
    /\ stdin' = stdin + 1
    /\ writer' = IF begun < Turns THEN "waiting" ELSE "closing"
    /\ eof' = (begun = Turns)
    /\ UNCHANGED <<gate, ready, begun, cli, pipe, trace, rc, habits>>

\* The pipe is broken: the write fails, or the select sees the exit first.
WriteFails ==
    /\ writer = "writing"
    /\ cli.exited
    /\ Stop(125)

\* A token is received before claimReady looks at the gate again.
ReceiveReady ==
    /\ writer = "waiting"
    /\ ready
    /\ ready' = FALSE
    /\ writer' = "claiming"
    /\ UNCHANGED <<gate, begun, stdin, eof, cli, pipe, trace, rc, habits>>

ClaimReady ==
    /\ writer = "claiming"
    /\ IF ~gate.failed /\ Settled(gate)
       THEN /\ gate' = [gate EXCEPT !.rootSeen = FALSE, !.readySignaled = FALSE, !.perms = 0]
            /\ writer' = "begin"
       ELSE /\ UNCHANGED gate
            /\ writer' = "waiting"
    /\ UNCHANGED <<ready, begun, stdin, eof, cli, pipe, trace, rc, habits>>

SeeFailure ==
    /\ writer = "waiting"
    /\ gate.failed
    /\ Stop(125)

\* cmd.Wait returns only after the copier has drained stdout.
SeeExit ==
    /\ writer \in {"waiting", "writing", "closing"}
    /\ cli.exited
    /\ pipe = << >>
    /\ \E code \in IF cli.sound THEN {0} ELSE {0, 1} : Return(code)
    /\ eof' = TRUE
    /\ UNCHANGED <<gate, ready, begun, stdin, cli, pipe, trace, habits>>

Timeout ==
    /\ writer \in {"waiting", "writing", "closing"}
    /\ Stop(124)

-----------------------------------------------------------------------------
(* The CLI *)

Emit(object, state) ==
    /\ ~cli.exited
    /\ Len(pipe) < PipeMax
    /\ pipe' = Append(pipe, object)
    /\ cli' = state
    /\ UNCHANGED <<broker, stdin, eof>>

Quiet(state) ==
    /\ ~cli.exited
    /\ cli' = state
    /\ UNCHANGED <<broker, eof, pipe>>

\* A user frame starts a root turn.
CliConsume ==
    /\ stdin > 0
    /\ ~cli.working
    /\ cli.open = 0
    /\ stdin' = stdin - 1
    /\ \/ /\ cli.turn = 0 \/ "announce" \in habits
          /\ ~cli.exited
          /\ Len(pipe) < PipeMax
          /\ pipe' = Append(pipe, Obj("init"))
          /\ cli' = [cli EXCEPT !.turn = @ + 1, !.working = TRUE, !.chatted = FALSE]
          /\ UNCHANGED <<broker, eof>>
       \/ /\ cli.turn > 0
          /\ Quiet([cli EXCEPT !.turn = @ + 1, !.working = TRUE, !.chatted = FALSE])

\* Assistant messages and tool results, one for all of a turn's.
CliChat ==
    /\ cli.working
    /\ ~cli.chatted
    /\ Emit(Obj("other"), [cli EXCEPT !.chatted = TRUE])

CliStartTask ==
    /\ cli.working
    /\ \E t \in Tasks \ cli.started :
         Emit([kind |-> "started", task |-> t, ok |-> TRUE],
              [cli EXCEPT !.started = @ \cup {t}, !.active = @ \cup {t}])

\* A completed agent may have its output forwarded as a segment.
CliEndTask ==
    \E t \in cli.active, ok \in BOOLEAN :
      Emit([kind |-> "notified", task |-> t, ok |-> ok],
           [cli EXCEPT !.active = @ \ {t},
                       !.due = IF ok /\ (cli.working \/ "late" \in habits) THEN @ + 1 ELSE @])

CliOpenSegment ==
    /\ cli.due > 0
    /\ cli.working \/ "late" \in habits
    /\ Emit(Obj("init"), [cli EXCEPT !.due = @ - 1, !.open = @ + 1])

\* The permission of a completed foreground agent may stay unused.
CliDropSegment ==
    /\ cli.due > 0
    /\ Quiet([cli EXCEPT !.due = @ - 1])
    /\ UNCHANGED stdin

CliInnerResult ==
    /\ cli.open > 0
    /\ cli.inner < InnerMax
    /\ "inner" \in habits
    /\ Emit(Obj("result"), [cli EXCEPT !.inner = @ + 1])

CliRootResult ==
    /\ cli.working
    /\ "background" \in habits \/ cli.active = {}
    /\ "late" \in habits \/ cli.due = 0
    /\ Emit(Obj("result"), [cli EXCEPT !.working = FALSE, !.roots = @ + 1])

\* A batched fan-out flushes the results of its segments after the root result.
CliCloseSegment ==
    /\ cli.open > 0
    /\ ~cli.working \/ "inner" \in habits
    /\ Emit(Obj("forwarded"), [cli EXCEPT !.open = @ - 1])

CliFault ==
    /\ "faulty" \in habits
    /\ cli.sound
    /\ \E o \in {[Obj("result") EXCEPT !.ok = FALSE], Obj("stray"), Obj("garbage")} :
         Emit(o, [cli EXCEPT !.sound = FALSE])

CliExit ==
    /\ eof
    /\ stdin = 0
    /\ ~cli.working
    /\ cli.turn > 0
    /\ cli.active = {}
    /\ cli.due = 0
    /\ cli.open = 0
    /\ Quiet([cli EXCEPT !.exited = TRUE])
    /\ UNCHANGED stdin

CliCrash ==
    /\ "crash" \in habits
    /\ Quiet([cli EXCEPT !.exited = TRUE, !.sound = FALSE])
    /\ UNCHANGED stdin

Finished ==
    /\ writer = "finished"
    /\ pipe = << >>
    /\ UNCHANGED vars

Writer ==
    \/ BeginTurn \/ BeginRefused \/ WriteFrame \/ WriteFails
    \/ ReceiveReady \/ ClaimReady \/ SeeFailure \/ SeeExit

CliWork ==
    \/ CliConsume \/ CliOpenSegment \/ CliDropSegment
    \/ CliRootResult \/ CliCloseSegment \/ CliEndTask \/ CliExit

Next ==
    \/ Observe
    \/ Writer
    \/ Timeout
    \/ CliWork
    \/ CliChat \/ CliStartTask \/ CliInnerResult \/ CliFault \/ CliCrash
    \/ Finished

Spec == Init /\ [][Next]_vars

\* What the CLI owes: it finishes what it has begun.
CliDue ==
    \/ CliConsume \/ CliDropSegment \/ CliExit
    \/ CliRootResult \/ CliCloseSegment \/ CliEndTask

\* Goroutines run; the CLI does what it owes.  The timeout is not fair: what must happen has
\* to happen without it.
Fairness == WF_vars(Observe) /\ WF_vars(Writer) /\ WF_vars(CliDue)

FairSpec == Spec /\ Fairness

-----------------------------------------------------------------------------
(* Properties *)

\* A CLI whose agents and segments end within the turn that started them, and one whose
\* segments do and answer with nothing of their own.
InTurn == habits \cap {"background", "late", "inner"} = {}
SegmentsInTurn == habits \cap {"late", "inner"} = {}

\* A run always ends without its timeout: however the token of the ready channel,
\* the copier's observations and the writer's claims interleave, no settling of the
\* gate is missed while the writer waits (signalReadyLocked, claimReady).
Terminates == <>(writer = "finished")

\* No frame is begun once the captured stream is one the normalizer rejects, also
\* when the offending object arrives between the token, claimReady and beginTurn.
FrameOnValidTrace == [][InTurn /\ begun' # begun => trace.valid]_vars

\* A follow-up frame is begun only when the CLI has answered every frame before it
\* and none of its agents or forwarded segments is unfinished, whatever is still in
\* the pipe and however old the token is.
FrameAfterDrain ==
    [][SegmentsInTurn /\ begun' = begun + 1 /\ begun > 0
         => cli.roots = begun /\ cli.active = {} /\ cli.open = 0]_vars

\* No frame is begun on a stream that is broken or before the turn is drained.
FramesAreDue == FrameOnValidTrace /\ FrameAfterDrain

\* The gate and the normalizer are two readings of one stream: while neither has
\* rejected it they agree on the running agents and on the open forwarded segments.
GateAgreesWithTrace ==
    InTurn /\ ~gate.failed /\ trace.valid
      => /\ gate.active = trace.agents
         /\ gate.seen = trace.seen
         /\ gate.open = trace.open

\* A run the gate let through to a clean exit is complete for the normalizer: it
\* does not reject a stream whose follow-ups the broker itself released.
AcceptedIsComplete ==
    (writer = "finished" /\ rc = 0 /\ cli.sound /\ ~gate.failed /\ pipe = << >>)
      => TraceComplete(trace, rc)

\* Whose agents and segments end in their turn, that is.
AcceptedInTurn == InTurn => AcceptedIsComplete

\* A trace is judged complete only if the CLI answered every frame, ended every
\* forwarded segment and emitted nothing malformed.
CompleteMeansAnswered ==
    (InTurn /\ writer = "finished" /\ pipe = << >> /\ TraceComplete(trace, rc))
      => cli.roots = Turns /\ cli.open = 0 /\ ~gate.failed

\* Gate, trace and CLI tell the same story of one run: what the gate let through is
\* complete for the normalizer, and what is complete was answered by the CLI.
JudgedAlike ==
    TypeOK /\ GateAgreesWithTrace /\ AcceptedInTurn /\ CompleteMeansAnswered
=============================================================================
