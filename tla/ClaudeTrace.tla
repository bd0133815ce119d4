---------------------------- MODULE ClaudeTrace ----------------------------
(***************************************************************************)
(* How the sandbox broker judges the stream of one Claude process:         *)
(* normalizeTraceTurns of evals/tools/sandbox-broker/main.go as a fold of  *)
(* TraceStep over the observed objects, from NewTrace.                     *)
(***************************************************************************)
EXTENDS Naturals, FiniteSets

CONSTANTS
    Tasks,   \* local agent task ids
    Turns    \* root turns of the request: the task and its follow-ups

ASSUME TurnsAssumption == Turns \in Nat \ {0}

-----------------------------------------------------------------------------
(* Objects of the stream *)

\* "result" has no origin, "forwarded" has origin.kind task-notification, "stray"
\* has another origin.  ok: a string result with is_error false, or the status
\* "completed" of a notification.  task: the task_id, where there is one.
Kinds == {"init", "started", "notified", "result", "forwarded", "stray", "other", "garbage"}

NoTask == "none"

Object == [kind : Kinds, task : Tasks \cup {NoTask}, ok : BOOLEAN]

Obj(kind) == [kind |-> kind, task |-> NoTask, ok |-> TRUE]

ResultKinds == {"result", "forwarded", "stray"}

-----------------------------------------------------------------------------
(* The normalizer's state *)

Trace ==
    [segments : Nat, awaiting : BOOLEAN, roots : Nat, open : Nat, perms : Nat,
     agents : SUBSET Tasks, seen : SUBSET Tasks, terminal : BOOLEAN, valid : BOOLEAN]

NewTrace ==
    [segments |-> 0, awaiting |-> FALSE, roots |-> 0, open |-> 0, perms |-> 0,
     agents |-> {}, seen |-> {}, terminal |-> FALSE, valid |-> TRUE]

Invalid(t) == [t EXCEPT !.valid = FALSE]

\* normalizeClaudeTaskLifecycle, and the permission a completed agent gives.
TraceTask(t, o) ==
    CASE o.kind = "started" ->
           IF o.task \in t.seen THEN Invalid(t)
           ELSE [t EXCEPT !.seen = @ \cup {o.task}, !.agents = @ \cup {o.task}]
      [] o.kind = "notified" ->
           IF o.task \in t.agents
           THEN [t EXCEPT !.agents = @ \ {o.task}, !.perms = IF o.ok THEN @ + 1 ELSE @]
           ELSE IF o.task \in t.seen THEN Invalid(t) ELSE t
      [] OTHER -> t

\* Mutant: every later init is a forwarded one.
TraceInitForwarded(t, o, continuation) ==
    IF o.kind # "init" THEN t
    ELSE IF t.segments = 0
         THEN [t EXCEPT !.segments = 1, !.awaiting = TRUE, !.terminal = FALSE]
         ELSE [t EXCEPT !.segments = @ + 1,
                        !.valid = @ /\ t.perms > 0,
                        !.perms = IF @ > 0 THEN @ - 1 ELSE 0,
                        !.open = @ + 1,
                        !.terminal = FALSE]

\* An init opens the first segment, a forwarded one that a permission authorizes,
\* or the next root turn.
TraceInit(t, o, continuation) ==
    IF o.kind # "init" THEN t
    ELSE IF continuation THEN [t EXCEPT !.terminal = FALSE]
    ELSE IF t.segments = 0
         THEN [t EXCEPT !.segments = 1, !.awaiting = TRUE, !.terminal = FALSE]
         ELSE [t EXCEPT !.segments = @ + 1,
                        !.valid = @ /\ t.perms > 0,
                        !.perms = IF @ > 0 THEN @ - 1 ELSE 0,
                        !.open = @ + 1,
                        !.terminal = FALSE]

\* Mutant: a forwarded result is accepted whether or not a segment is open.
TraceResultUnmatched(t, o) ==
    CASE o.kind \notin ResultKinds -> t
      [] o.kind = "forwarded" -> [t EXCEPT !.open = IF @ > 0 THEN @ - 1 ELSE 0, !.terminal = TRUE]
      [] o.kind = "stray" -> [Invalid(t) EXCEPT !.terminal = FALSE]
      [] o.kind = "result" /\ t.awaiting /\ o.ok ->
           [t EXCEPT !.awaiting = FALSE, !.roots = @ + 1, !.terminal = TRUE]
      [] OTHER -> [t EXCEPT !.terminal = FALSE]

TraceResult(t, o) ==
    LET wellFormed == t.segments > 0 /\ o.ok
        broken == [Invalid(t) EXCEPT !.terminal = FALSE] IN
    CASE o.kind \notin ResultKinds -> t
      [] o.kind = "forwarded" ->
           IF ~wellFormed \/ t.open = 0 THEN broken
           ELSE [t EXCEPT !.open = @ - 1, !.terminal = TRUE]
      [] o.kind = "stray" -> broken
      [] o.kind = "result" /\ t.awaiting ->
           IF ~wellFormed THEN broken
           ELSE [t EXCEPT !.awaiting = FALSE, !.roots = @ + 1, !.terminal = TRUE]
      [] o.kind = "result" /\ ~t.awaiting ->
           IF t.segments > 1 THEN [t EXCEPT !.terminal = FALSE] ELSE broken

\* One object of the stream.  An object after a terminal result starts the next
\* root turn, or is a permitted init or the result of an open segment, or makes
\* the trace invalid.
TraceStep(t, o) ==
    LET continuation == t.terminal /\ t.roots < Turns /\ t.open = 0
        u == IF continuation THEN [t EXCEPT !.terminal = FALSE, !.awaiting = TRUE] ELSE t
        v == IF u.segments = 0 /\ o.kind # "init" THEN Invalid(u) ELSE u
        late == /\ v.terminal
                /\ ~(o.kind = "init" /\ v.perms > 0)
                /\ ~(o.kind = "forwarded" /\ v.open > 0)
    IN IF o.kind = "garbage" THEN Invalid(t)
       ELSE IF late THEN Invalid(v)
       ELSE TraceResult(TraceInit(TraceTask(v, o), o, continuation), o)

\* The broker's trace_complete: the process exited 0, the last object was terminal,
\* every root turn has its result and no forwarded segment is open.
TraceComplete(t, rc) ==
    /\ t.valid
    /\ t.terminal
    /\ rc = 0
    /\ t.segments > 0
    /\ t.roots = Turns
    /\ t.open = 0
=============================================================================
