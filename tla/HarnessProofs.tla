---------------------------- MODULE HarnessProofs ----------------------------
(***************************************************************************)
(* What the two ways of driving a harness and the tunnel to a provider     *)
(* guarantee, for every value of their constants: the gate's invariant is  *)
(* here, the invariants of the Codex client and of the tunnel, which have  *)
(* modules of their own, are lifted to the composition of MCHarness.       *)
(*                                                                         *)
(* The gate and the normalizer stand where the copier is, the CLI is ahead *)
(* of them by the pipe.  The invariant follows the stream from one to the  *)
(* other: a view is what a reader of the stream knows at one place of it,  *)
(* the first view is the gate's and the normalizer's, each object of the   *)
(* pipe leads from its view to the next, and the last view is the CLI's.   *)
(***************************************************************************)
EXTENDS MCHarness, TLAPS

-----------------------------------------------------------------------------
(* Frames, turns and types *)

PipeOK == \A i \in 1..Len(pipe) : pipe[i].kind \in {"started", "notified"} => pipe[i].task \in Tasks

\* Where the frames are: not begun, being written, in stdin, or consumed.
Frames ==
    /\ cli.turn = cli.roots + (IF cli.working THEN 1 ELSE 0)
    /\ stdin + cli.turn <= begun
    /\ writer \notin {"finished", "writing"} => stdin + cli.turn = begun
    /\ writer = "writing" => stdin + cli.turn + 1 = begun
    /\ writer \in {"begin", "waiting", "claiming"} => begun < Turns
    /\ writer = "closing" => begun = Turns
    /\ eof => writer \in {"closing", "finished"}

\* A CLI that has ended in order had nothing left to do.
Ended ==
    /\ cli.turn = Turns /\ ~cli.working
    /\ cli.active = {} /\ cli.open = 0

Exits ==
    /\ writer # "finished" => rc = NoRC
    /\ rc = 0 => cli.exited
    /\ cli.exited /\ cli.sound /\ (writer # "finished" \/ rc = 0) => Ended

TInv == TypeOK /\ PipeOK /\ Frames /\ Exits

-----------------------------------------------------------------------------
(* Views of the stream *)

\* inited: an init has been seen; quiet: the last object was a result that ends something.
View ==
    [inited : BOOLEAN, active : SUBSET Tasks, seen : SUBSET Tasks, perms : Nat, open : Nat,
     roots : Nat, quiet : BOOLEAN]

Fault(o) == o.kind \in {"garbage", "stray"} \/ (o.kind = "result" /\ ~o.ok)

ViewStep(v, o) ==
    CASE o.kind = "init" /\ ~v.inited -> [v EXCEPT !.inited = TRUE, !.quiet = FALSE]
      [] o.kind = "init" /\ v.inited /\ v.perms > 0 ->
           [v EXCEPT !.perms = @ - 1, !.open = @ + 1, !.quiet = FALSE]
      [] o.kind = "started" ->
           [v EXCEPT !.seen = @ \cup {o.task}, !.active = @ \cup {o.task}, !.quiet = FALSE]
      [] o.kind = "notified" ->
           [v EXCEPT !.active = @ \ {o.task}, !.perms = IF o.ok THEN @ + 1 ELSE @, !.quiet = FALSE]
      [] o.kind = "result" /\ o.ok -> [v EXCEPT !.roots = @ + 1, !.quiet = TRUE]
      [] o.kind = "forwarded" -> [v EXCEPT !.open = @ - 1, !.quiet = TRUE]
      [] Fault(o) -> v
      [] OTHER -> [v EXCEPT !.quiet = FALSE]

\* What the CLI may say next when n frames have been begun; strictly: and its agents do not
\* outlive their turns.
Legal(v, o, n, strictly) ==
    \/ Fault(o)
    \/ /\ o.kind = "init"
       /\ v.roots < n
       /\ \/ ~v.inited
          \/ v.inited /\ v.perms > 0 /\ (strictly => ~v.quiet)
          \/ v.inited /\ v.perms = 0 /\ (strictly => v.quiet /\ v.open = 0)
    \/ o.kind = "started" /\ v.inited /\ o.task \notin v.seen /\ v.roots < n
    \/ o.kind = "notified" /\ v.inited /\ o.task \in v.active /\ (strictly => v.roots < n)
    \/ o.kind = "other" /\ v.inited /\ v.roots < n
    \/ o.kind = "result" /\ o.ok /\ v.inited /\ v.roots < n
    \/ o.kind = "forwarded" /\ o.ok /\ v.inited /\ v.open > 0 /\ v.roots = n

ViewOK(v, n, strictly) ==
    /\ v.roots <= n /\ n <= v.roots + 1
    /\ v.active \subseteq v.seen
    /\ ~v.inited => v.seen = {} /\ v.perms = 0 /\ v.open = 0 /\ v.roots = 0 /\ ~v.quiet
    /\ strictly /\ v.inited /\ v.roots = n => v.quiet
    /\ strictly /\ v.quiet /\ v.roots < n => v.open = 0 /\ v.perms = 0

\* The turn is over: the CLI owes nothing until the next frame.
Drained(v, n) == v.roots = n /\ v.active = {} /\ v.open = 0

\* From view to view along the pipe p; nothing but faults follows a drained view.
Path(vs, p, n, strictly) ==
    /\ vs \in [1..Len(p) + 1 -> View]
    /\ \A i \in 1..Len(p) + 1 : ViewOK(vs[i], n, strictly)
    /\ \A i \in 1..Len(p) : Legal(vs[i], p[i], n, strictly) /\ vs[i + 1] = ViewStep(vs[i], p[i])
    /\ \A i, j \in 1..Len(p) + 1 : i <= j /\ Drained(vs[i], n) => vs[j] = vs[i]

\* A gate and a normalizer whose fields are those of a view.
GateReads(g, v) ==
    /\ g.segments = (IF v.inited THEN 1 ELSE 0)
    /\ g.active = v.active /\ g.seen = v.seen
    /\ g.perms = v.perms /\ g.open = v.open

\* After beginTurn of frame n the gate awaits the root result until it has seen it.
GateAwaits(g, v, n) == (g.awaitingRoot <=> v.roots < n) /\ (g.rootSeen <=> v.roots = n)

TraceReads(t, v) ==
    /\ t.segments > 0 <=> v.inited
    /\ t.agents = v.active /\ t.seen = v.seen
    /\ t.open = v.open /\ t.roots = v.roots
    /\ t.perms >= v.perms
    /\ t.terminal <=> v.quiet
    /\ t.awaiting <=> v.inited /\ ~v.quiet

\* The gate is where the copier is; between claimReady and beginTurn nothing is unfinished.
GateAt(v) ==
    /\ GateReads(gate, v)
    /\ writer # "begin" => GateAwaits(gate, v, begun)
    /\ writer = "begin" => /\ ~gate.awaitingRoot /\ ~gate.rootSeen
                           /\ Drained(v, begun) /\ v.perms = 0

\* A CLI that knows what a view shows when n frames have been begun.
CliReads(c, v, n, strictly) ==
    /\ v.inited <=> c.turn > 0
    /\ v.active = c.active /\ v.seen = c.started
    /\ v.open = c.open /\ v.roots = c.roots
    /\ c.due <= v.perms
    /\ ~c.working => c.due = 0
    /\ ~c.working /\ v.roots < n => v.perms = 0 /\ v.open = 0 /\ v.active = {}
    /\ strictly => /\ ~c.working => c.active = {}
                   /\ ~c.working /\ c.turn > 0 => v.quiet
                   /\ c.due > 0 => ~v.quiet

StreamOK(vs) ==
    /\ Path(vs, pipe, begun, InTurn)
    /\ GateAt(vs[1])
    /\ InTurn => TraceReads(trace, vs[1])
    /\ CliReads(cli, vs[Len(pipe) + 1], begun, InTurn)

Stream == SegmentsInTurn /\ ~gate.failed => \E vs \in [1..Len(pipe) + 1 -> View] : StreamOK(vs)

\* What the gate fails on makes the trace invalid, and nothing else does.
FailedAlike == InTurn => (gate.failed <=> ~trace.valid)

GateInv == TInv /\ Stream /\ FailedAlike

-----------------------------------------------------------------------------
(* Types *)

\* An object that starts or ends a task names it.
Named(o) == o.kind \in {"started", "notified"} => o.task \in Tasks

\* Fields of a trace and of a gate may be replaced.
LEMMA TraceFields ==
    /\ \A t \in Trace : Invalid(t) \in Trace /\ ~Invalid(t).valid
    /\ \A t \in Trace, b \in BOOLEAN : [t EXCEPT !.terminal = b] \in Trace
    /\ \A t \in Trace, b, c \in BOOLEAN : [t EXCEPT !.terminal = b, !.awaiting = c] \in Trace
    /\ \A t \in Trace, s, a \in SUBSET Tasks : [t EXCEPT !.seen = s, !.agents = a] \in Trace
    /\ \A t \in Trace, a \in SUBSET Tasks, n \in Nat : [t EXCEPT !.agents = a, !.perms = n] \in Trace
    /\ \A t \in Trace, n \in Nat :
         [t EXCEPT !.segments = n, !.awaiting = TRUE, !.terminal = FALSE] \in Trace
    /\ \A t \in Trace, b \in BOOLEAN, i, j, k \in Nat :
         [t EXCEPT !.segments = i, !.valid = b, !.perms = j, !.open = k, !.terminal = FALSE] \in Trace
    /\ \A t \in Trace, n \in Nat, b \in BOOLEAN : [t EXCEPT !.open = n, !.terminal = b] \in Trace
    /\ \A t \in Trace, n \in Nat :
         [t EXCEPT !.awaiting = FALSE, !.roots = n, !.terminal = TRUE] \in Trace
  BY DEF Trace, Invalid

LEMMA GateFields ==
    /\ \A g \in Gate : Failed(g) \in Gate
    /\ \A g \in Gate, n \in 0..1 : [g EXCEPT !.segments = n] \in Gate
    /\ \A g \in Gate, i, j \in Nat : [g EXCEPT !.perms = i, !.open = j] \in Gate
    /\ \A g \in Gate, s, a \in SUBSET Tasks : [g EXCEPT !.seen = s, !.active = a] \in Gate
    /\ \A g \in Gate, a \in SUBSET Tasks, n \in Nat : [g EXCEPT !.active = a, !.perms = n] \in Gate
    /\ \A g \in Gate, n \in Nat : [g EXCEPT !.open = n] \in Gate
    /\ \A g \in Gate, b, c \in BOOLEAN : [g EXCEPT !.awaitingRoot = b, !.rootSeen = c] \in Gate
    /\ \A g \in Gate, b \in BOOLEAN : [g EXCEPT !.readySignaled = b] \in Gate
    /\ \A g \in Gate, b \in BOOLEAN : [g EXCEPT !.awaitingRoot = b] \in Gate
    /\ \A g \in Gate, b, c \in BOOLEAN, n \in Nat :
         [g EXCEPT !.rootSeen = b, !.readySignaled = c, !.perms = n] \in Gate
  BY DEF Gate, Failed

\* The normalizer's state keeps its type, and what the normalizer has rejected stays rejected.
LEMMA TraceTaskType ==
    ASSUME NEW t \in Trace, NEW o \in Object, Named(o)
    PROVE  TraceTask(t, o) \in Trace /\ (~t.valid => ~TraceTask(t, o).valid)
  <1>1. CASE o.kind = "started"
    <2> DEFINE begins == [t EXCEPT !.seen = @ \cup {o.task}, !.agents = @ \cup {o.task}]
    <2>1. TraceTask(t, o) = (IF o.task \in t.seen THEN Invalid(t) ELSE begins)
      BY <1>1 DEF TraceTask
    <2>2. t.seen \cup {o.task} \in SUBSET Tasks /\ t.agents \cup {o.task} \in SUBSET Tasks
      BY <1>1 DEF Trace, Named
    <2>3. begins \in Trace
      BY <2>2, TraceFields
    <2>4. begins.valid = t.valid
      BY DEF Trace
    <2>5. Invalid(t) \in Trace /\ ~Invalid(t).valid
      BY TraceFields
    <2> HIDE DEF begins
    <2> QED BY <2>1, <2>3, <2>4, <2>5
  <1>2. CASE o.kind = "notified"
    <2> DEFINE n == IF o.ok THEN t.perms + 1 ELSE t.perms
    <2> DEFINE ends == [t EXCEPT !.agents = @ \ {o.task}, !.perms = n]
    <2>1. \/ TraceTask(t, o) = ends
          \/ TraceTask(t, o) = Invalid(t)
          \/ TraceTask(t, o) = t
      BY <1>2 DEF TraceTask
    <2>2. t.agents \ {o.task} \in SUBSET Tasks /\ n \in Nat
      BY DEF Trace
    <2> HIDE DEF n
    <2>3. ends \in Trace
      BY <2>2, TraceFields
    <2>4. ends.valid = t.valid
      BY DEF Trace
    <2>5. Invalid(t) \in Trace /\ ~Invalid(t).valid
      BY TraceFields
    <2> HIDE DEF ends
    <2> QED BY <2>1, <2>3, <2>4, <2>5
  <1>3. CASE o.kind \notin {"started", "notified"}
    BY <1>3 DEF TraceTask
  <1> QED BY <1>1, <1>2, <1>3

LEMMA TraceInitType ==
    ASSUME NEW t \in Trace, NEW o \in Object, NEW c \in BOOLEAN
    PROVE  TraceInit(t, o, c) \in Trace /\ (~t.valid => ~TraceInit(t, o, c).valid)
  <1> DEFINE b == t.valid /\ t.perms > 0
             i == t.segments + 1
             j == IF t.perms > 0 THEN t.perms - 1 ELSE 0
             k == t.open + 1
             first == [t EXCEPT !.segments = 1, !.awaiting = TRUE, !.terminal = FALSE]
             forwarded == [t EXCEPT !.segments = i, !.valid = b, !.perms = j, !.open = k,
                                    !.terminal = FALSE]
  <1>1. b \in BOOLEAN /\ i \in Nat /\ j \in Nat /\ k \in Nat
    BY DEF Trace
  <1>2. TraceInit(t, o, c) \in {t, [t EXCEPT !.terminal = FALSE], first, forwarded}
    BY DEF TraceInit
  <1>3. ~t.valid => ~b
    OBVIOUS
  <1> HIDE DEF b, i, j, k
  <1>4. first \in Trace /\ forwarded \in Trace /\ [t EXCEPT !.terminal = FALSE] \in Trace
    BY <1>1, TraceFields
  <1>5. first.valid = t.valid /\ forwarded.valid = b /\ [t EXCEPT !.terminal = FALSE].valid = t.valid
    BY DEF Trace
  <1> HIDE DEF first, forwarded
  <1> QED BY <1>2, <1>3, <1>4, <1>5

LEMMA TraceResultType ==
    ASSUME NEW t \in Trace, NEW o \in Object
    PROVE  TraceResult(t, o) \in Trace /\ (~t.valid => ~TraceResult(t, o).valid)
  <1> DEFINE broken == [Invalid(t) EXCEPT !.terminal = FALSE]
             m == t.open - 1
             n == t.roots + 1
             closes == [t EXCEPT !.open = m, !.terminal = TRUE]
             root == [t EXCEPT !.awaiting = FALSE, !.roots = n, !.terminal = TRUE]
  <1>1. (t.open > 0 => m \in Nat) /\ n \in Nat
    BY DEF Trace
  <1>2. \/ TraceResult(t, o) \in {t, broken, root, [t EXCEPT !.terminal = FALSE]}
        \/ t.open > 0 /\ TraceResult(t, o) = closes
    BY DEF TraceResult, ResultKinds, Object, Kinds, Trace
  <1> HIDE DEF m, n
  <1>3. broken \in Trace /\ root \in Trace /\ [t EXCEPT !.terminal = FALSE] \in Trace
    BY <1>1, TraceFields
  <1>4. t.open > 0 => closes \in Trace
    BY <1>1, TraceFields
  <1>5. ~broken.valid /\ root.valid = t.valid /\ closes.valid = t.valid
        /\ [t EXCEPT !.terminal = FALSE].valid = t.valid
    BY DEF Trace, Invalid
  <1> HIDE DEF broken, root, closes
  <1> QED BY <1>2, <1>3, <1>4, <1>5

LEMMA TraceStepType ==
    ASSUME NEW t \in Trace, NEW o \in Object, Named(o)
    PROVE  TraceStep(t, o) \in Trace /\ (~t.valid => ~TraceStep(t, o).valid)
  <1> DEFINE continuation == t.terminal /\ t.roots < Turns /\ t.open = 0
             u == IF continuation THEN [t EXCEPT !.terminal = FALSE, !.awaiting = TRUE] ELSE t
             v == IF u.segments = 0 /\ o.kind # "init" THEN Invalid(u) ELSE u
             past == /\ v.terminal
                     /\ ~(o.kind = "init" /\ v.perms > 0)
                     /\ ~(o.kind = "forwarded" /\ v.open > 0)
             rest == TraceResult(TraceInit(TraceTask(v, o), o, continuation), o)
  <1>1. u \in Trace /\ (~t.valid => ~u.valid)
    <2>1. [t EXCEPT !.terminal = FALSE, !.awaiting = TRUE] \in Trace
      BY TraceFields
    <2>2. [t EXCEPT !.terminal = FALSE, !.awaiting = TRUE].valid = t.valid
      BY DEF Trace
    <2> QED BY <2>1, <2>2
  <1> HIDE DEF u
  <1>2. v \in Trace /\ (~t.valid => ~v.valid)
    BY <1>1, TraceFields
  <1> HIDE DEF v
  <1>3. TraceTask(v, o) \in Trace /\ (~t.valid => ~TraceTask(v, o).valid)
    BY <1>2, TraceTaskType
  <1>4. continuation \in BOOLEAN
    BY DEF Trace
  <1> HIDE DEF continuation
  <1>5. rest \in Trace /\ (~t.valid => ~rest.valid)
    BY <1>3, <1>4, TraceInitType, TraceResultType
  <1>6. TraceStep(t, o) = (IF o.kind = "garbage" THEN Invalid(t) ELSE IF past THEN Invalid(v) ELSE rest)
    BY DEF TraceStep, continuation, u, v
  <1> HIDE DEF past, rest
  <1> QED BY <1>2, <1>5, <1>6, TraceFields

\* What an object makes of the gate is a gate.
LEMMA ObservedType ==
    ASSUME NEW g \in Gate, NEW o \in Object, Named(o)
    PROVE  Observed(g, o) \in Gate
  <1>1. ObserveSystem(g, o) \in Gate
    <2>1. CASE o.kind = "init"
      <3> DEFINE i == g.perms - 1
                 j == g.open + 1
      <3>1. (g.perms > 0 => i \in Nat) /\ j \in Nat /\ 1 \in 0..1
        BY DEF Gate
      <3>2. \/ ObserveSystem(g, o) \in {g, [g EXCEPT !.segments = 1]}
            \/ g.perms > 0 /\ ObserveSystem(g, o) = [g EXCEPT !.perms = i, !.open = j]
        BY <2>1 DEF ObserveSystem
      <3> HIDE DEF i, j
      <3>3. [g EXCEPT !.segments = 1] \in Gate
        BY <3>1, GateFields
      <3>4. g.perms > 0 => [g EXCEPT !.perms = i, !.open = j] \in Gate
        BY <3>1, GateFields
      <3> QED BY <3>2, <3>3, <3>4
    <2>2. CASE o.kind = "started"
      <3>1. ObserveSystem(g, o) =
              (IF o.task \in g.seen THEN Failed(g)
               ELSE [g EXCEPT !.seen = @ \cup {o.task}, !.active = @ \cup {o.task}])
        BY <2>2 DEF ObserveSystem
      <3>2. g.seen \cup {o.task} \in SUBSET Tasks /\ g.active \cup {o.task} \in SUBSET Tasks
        BY <2>2 DEF Gate, Named
      <3>3. [g EXCEPT !.seen = @ \cup {o.task}, !.active = @ \cup {o.task}] \in Gate
        BY <3>2, GateFields
      <3>4. Failed(g) \in Gate
        BY GateFields
      <3> QED BY <3>1, <3>3, <3>4
    <2>3. CASE o.kind = "notified"
      <3> DEFINE n == IF o.ok THEN g.perms + 1 ELSE g.perms
      <3>1. \/ ObserveSystem(g, o) = [g EXCEPT !.active = @ \ {o.task}, !.perms = n]
            \/ ObserveSystem(g, o) = Failed(g)
            \/ ObserveSystem(g, o) = g
        BY <2>3 DEF ObserveSystem
      <3>2. g.active \ {o.task} \in SUBSET Tasks /\ n \in Nat
        BY DEF Gate
      <3> HIDE DEF n
      <3>3. [g EXCEPT !.active = @ \ {o.task}, !.perms = n] \in Gate
        BY <3>2, GateFields
      <3>4. Failed(g) \in Gate
        BY GateFields
      <3> QED BY <3>1, <3>3, <3>4
    <2>4. CASE o.kind \notin {"init", "started", "notified"}
      BY <2>4 DEF ObserveSystem
    <2> QED BY <2>1, <2>2, <2>3, <2>4
  <1>2. \A w \in Gate : ObserveResult(w, o) \in Gate
    <2> SUFFICES ASSUME NEW w \in Gate PROVE ObserveResult(w, o) \in Gate
      OBVIOUS
    <2> DEFINE n == w.open - 1
    <2>1. \/ ObserveResult(w, o) \in {w, Failed(w), [w EXCEPT !.awaitingRoot = FALSE, !.rootSeen = TRUE]}
          \/ w.open > 0 /\ ObserveResult(w, o) = [w EXCEPT !.open = n]
      BY DEF ObserveResult
    <2>2. w.open > 0 => n \in Nat
      BY DEF Gate
    <2> HIDE DEF n
    <2>3. [w EXCEPT !.awaitingRoot = FALSE, !.rootSeen = TRUE] \in Gate /\ Failed(w) \in Gate
      BY GateFields
    <2>4. w.open > 0 => [w EXCEPT !.open = n] \in Gate
      BY <2>2, GateFields
    <2> QED BY <2>1, <2>3, <2>4
  <1> QED BY <1>1, <1>2, GateFields DEF Observed

-----------------------------------------------------------------------------
(* Frames and turns, step by step *)

LEMMA InitTInv == Init => TInv
  <1> USE TurnsAssumption, BoundsAssumption
  <1>1. ASSUME Init PROVE gate \in Gate /\ trace \in Trace /\ cli \in Cli
    BY <1>1 DEF Init, Gate, NewGate, Trace, NewTrace, Cli, NewCli
  <1>2. ASSUME Init PROVE pipe \in Seq(Object) /\ Len(pipe) = 0
    BY <1>2 DEF Init
  <1>3. ASSUME Init PROVE TypeOK /\ PipeOK
    <2>1. PipeOK
      BY <1>2, <1>3 DEF PipeOK
    <2>2. begun \in 0..Turns /\ stdin \in 0..Turns /\ Len(pipe) <= PipeMax
      BY <1>2, <1>3 DEF Init
    <2>3. ready \in BOOLEAN /\ eof \in BOOLEAN
      BY <1>3 DEF Init
    <2>4. rc \in {NoRC, 0, 1, 124, 125} /\ habits \in HabitSets
      BY <1>3 DEF Init
    <2>5. writer \in {"begin", "writing", "waiting", "claiming", "closing", "finished"}
      BY <1>3 DEF Init
    <2> QED BY <1>1, <1>2, <1>3, <2>1, <2>2, <2>3, <2>4, <2>5 DEF TypeOK
  <1>4. ASSUME Init PROVE Frames /\ Exits
    BY <1>4 DEF Init, Frames, Exits, NewCli, NoRC
  <1> QED BY <1>3, <1>4 DEF TInv

\* The copier leaves the frames where they are.
LEMMA ObserveTInv == TInv /\ Observe => TInv'
  <1> SUFFICES ASSUME TInv, Observe PROVE TInv'
    OBVIOUS
  <1> DEFINE o == Head(pipe)
             g == Observed(gate, o)
             settled == Settled(g)
  <1>1. o \in Object /\ Named(o) /\ o = pipe[1] /\ Len(pipe) > 0
    BY DEF TInv, TypeOK, PipeOK, Observe, Named
  <1>2. trace' \in Trace
    BY <1>1, TraceStepType DEF TInv, TypeOK, Observe
  <1>3. gate' \in Gate /\ ready' \in BOOLEAN
    <2>1. g \in Gate
      BY <1>1, ObservedType DEF TInv, TypeOK
    <2>2. settled \in BOOLEAN /\ [g EXCEPT !.readySignaled = settled] \in Gate
      <3>1. settled \in BOOLEAN
        BY <2>1 DEF Settled, Gate
      <3> HIDE DEF settled
      <3> QED BY <2>1, <3>1, GateFields
    <2>3. \/ gate' = gate \/ gate' = g \/ gate' = [g EXCEPT !.readySignaled = settled]
      BY DEF Observe
    <2>4. ready' \in BOOLEAN
      BY <2>1, <2>2 DEF Observe, TInv, TypeOK, Gate
    <2> HIDE DEF g, settled
    <2> QED BY <2>1, <2>2, <2>3, <2>4 DEF TInv, TypeOK
  <1>4. pipe' \in Seq(Object) /\ Len(pipe') <= PipeMax /\ PipeOK'
    <2>1. pipe' \in Seq(Object) /\ Len(pipe') = Len(pipe) - 1
      BY <1>1 DEF TInv, TypeOK, Observe
    <2>2. \A i \in 1..Len(pipe') : i + 1 \in 1..Len(pipe) /\ pipe'[i] = pipe[i + 1]
      BY <1>1, <2>1 DEF TInv, TypeOK, Observe
    <2>3. Len(pipe') <= PipeMax
      BY <2>1, BoundsAssumption DEF TInv, TypeOK
    <2>4. PipeOK'
      BY <2>2 DEF TInv, PipeOK
    <2> QED BY <2>1, <2>3, <2>4
  <1>5. UNCHANGED <<writer, begun, stdin, eof, cli, rc, habits>>
    BY DEF Observe
  <1> HIDE DEF g, o, settled
  <1>6. TypeOK'
    BY <1>2, <1>3, <1>4, <1>5 DEF TInv, TypeOK
  <1> QED BY <1>4, <1>5, <1>6 DEF TInv, Frames, Exits, Ended

\* The writer's steps that stop the process.
LEMMA StopTInv ==
    ASSUME TInv, NEW code \in {124, 125}, Stop(code)
    PROVE  TInv'
  <1>1. [cli EXCEPT !.exited = TRUE] \in Cli
    BY DEF TInv, TypeOK, Cli
  <1>2. TypeOK' /\ PipeOK'
    BY <1>1 DEF TInv, TypeOK, PipeOK, Stop, Return
  <1>3. Frames' /\ Exits'
    BY DEF TInv, TypeOK, Cli, Frames, Exits, Stop, Return, NoRC
  <1> QED BY <1>2, <1>3 DEF TInv

LEMMA WriterTInv ==
    TInv /\ (Writer \/ Timeout) => TInv'
  <1> SUFFICES ASSUME TInv, Writer \/ Timeout PROVE TInv'
    OBVIOUS
  <1> USE TurnsAssumption
  <1>1. CASE BeginTurn
    <2>1. [gate EXCEPT !.awaitingRoot = TRUE] \in Gate
      BY GateFields DEF TInv, TypeOK
    <2>2. TypeOK' /\ PipeOK'
      BY <1>1, <2>1 DEF TInv, TypeOK, PipeOK, BeginTurn, Frames
    <2>3. Frames' /\ Exits'
      BY <1>1 DEF TInv, TypeOK, Cli, Frames, Exits, Ended, BeginTurn
    <2> QED BY <2>2, <2>3 DEF TInv
  <1>2. CASE BeginRefused
    BY <1>2, StopTInv DEF BeginRefused
  <1>3. CASE WriteFrame
    <2>1. TypeOK' /\ PipeOK'
      BY <1>3 DEF TInv, TypeOK, Cli, PipeOK, WriteFrame, Frames
    <2>2. Frames' /\ Exits'
      BY <1>3 DEF TInv, TypeOK, Cli, Frames, Exits, Ended, WriteFrame
    <2> QED BY <2>1, <2>2 DEF TInv
  <1>4. CASE WriteFails
    BY <1>4, StopTInv DEF WriteFails
  <1>5. CASE ReceiveReady
    <2>1. TypeOK' /\ PipeOK'
      BY <1>5 DEF TInv, TypeOK, PipeOK, ReceiveReady
    <2>2. Frames' /\ Exits'
      BY <1>5 DEF TInv, Frames, Exits, Ended, ReceiveReady
    <2> QED BY <2>1, <2>2 DEF TInv
  <1>6. CASE ClaimReady
    <2>1. gate' \in Gate
      <3>1. [gate EXCEPT !.rootSeen = FALSE, !.readySignaled = FALSE, !.perms = 0] \in Gate
        BY GateFields DEF TInv, TypeOK
      <3> QED BY <1>6, <3>1 DEF ClaimReady, TInv, TypeOK
    <2>2. TypeOK' /\ PipeOK'
      BY <1>6, <2>1 DEF TInv, TypeOK, PipeOK, ClaimReady
    <2>3. Frames' /\ Exits'
      BY <1>6 DEF TInv, Frames, Exits, Ended, ClaimReady
    <2> QED BY <2>2, <2>3 DEF TInv
  <1>7. CASE SeeFailure
    BY <1>7, StopTInv DEF SeeFailure
  <1>8. CASE SeeExit
    <2>1. rc' \in {0, 1} /\ writer' = "finished"
      BY <1>8 DEF SeeExit, Return
    <2>2. TypeOK' /\ PipeOK'
      BY <1>8, <2>1 DEF TInv, TypeOK, PipeOK, SeeExit
    <2>3. Frames' /\ Exits'
      BY <1>8, <2>1 DEF TInv, TypeOK, Cli, Frames, Exits, Ended, SeeExit
    <2> QED BY <2>2, <2>3 DEF TInv
  <1>9. CASE Timeout
    BY <1>9, StopTInv DEF Timeout
  <1> QED BY <1>1, <1>2, <1>3, <1>4, <1>5, <1>6, <1>7, <1>8, <1>9 DEF Writer

\* The CLI's steps.  What it says, and what it may turn into.
LEMMA PipeGrows ==
    ASSUME TInv, NEW o \in Object, Named(o), Len(pipe) < PipeMax, pipe' = Append(pipe, o)
    PROVE  /\ pipe' \in Seq(Object) /\ Len(pipe') <= PipeMax /\ PipeOK'
           /\ Len(pipe') = Len(pipe) + 1
           /\ \A i \in 1..Len(pipe') : pipe'[i] = IF i <= Len(pipe) THEN pipe[i] ELSE o
  <1>1. pipe' \in Seq(Object) /\ Len(pipe') = Len(pipe) + 1 /\ Len(pipe') <= PipeMax
    BY BoundsAssumption DEF TInv, TypeOK
  <1>2. \A i \in 1..Len(pipe') : pipe'[i] = IF i <= Len(pipe) THEN pipe[i] ELSE o
    BY <1>1 DEF TInv, TypeOK
  <1>3. PipeOK'
    <2> SUFFICES ASSUME NEW i \in 1..Len(pipe'), pipe'[i].kind \in {"started", "notified"}
                 PROVE  pipe'[i].task \in Tasks
      BY DEF PipeOK
    <2>1. CASE i <= Len(pipe)
      BY <2>1, <1>1, <1>2 DEF TInv, TypeOK, PipeOK
    <2>2. CASE i > Len(pipe)
      BY <2>2, <1>1, <1>2 DEF TInv, TypeOK, Named
    <2> QED BY <2>1, <2>2, <1>1 DEF TInv, TypeOK
  <1> QED BY <1>1, <1>2, <1>3

\* A CLI that lives on, with the frames where its turns say.
LEMMA CliKeepsTInv ==
    ASSUME TInv, UNCHANGED <<broker, eof>>, cli' \in Cli, stdin' \in 0..Turns,
           pipe' \in Seq(Object), Len(pipe') <= PipeMax, PipeOK',
           stdin' + cli'.turn = stdin + cli.turn,
           cli'.turn = cli'.roots + (IF cli'.working THEN 1 ELSE 0),
           cli'.exited => cli.exited
    PROVE  ~cli.exited => TInv'
  <1>1. TypeOK'
    BY DEF TInv, TypeOK, broker
  <1>2. Frames'
    BY DEF TInv, TypeOK, Frames, broker
  <1>3. ~cli.exited => Exits'
    BY DEF TInv, Exits, Ended, broker
  <1> QED BY <1>1, <1>2, <1>3 DEF TInv

\* Fields of the CLI may be replaced.
LEMMA CliFields ==
    /\ \A c \in Cli, n \in 0..Turns :
         [c EXCEPT !.turn = n, !.working = TRUE, !.chatted = FALSE] \in Cli
    /\ \A c \in Cli : [c EXCEPT !.chatted = TRUE] \in Cli
    /\ \A c \in Cli, s, a \in SUBSET Tasks : [c EXCEPT !.started = s, !.active = a] \in Cli
    /\ \A c \in Cli, a \in SUBSET Tasks, n \in Nat : [c EXCEPT !.active = a, !.due = n] \in Cli
    /\ \A c \in Cli, i, j \in Nat : [c EXCEPT !.due = i, !.open = j] \in Cli
    /\ \A c \in Cli, n \in Nat : [c EXCEPT !.due = n] \in Cli
    /\ \A c \in Cli, n \in 0..InnerMax : [c EXCEPT !.inner = n] \in Cli
    /\ \A c \in Cli, n \in 0..Turns : [c EXCEPT !.working = FALSE, !.roots = n] \in Cli
    /\ \A c \in Cli, n \in Nat : [c EXCEPT !.open = n] \in Cli
    /\ \A c \in Cli : [c EXCEPT !.sound = FALSE] \in Cli
    /\ \A c \in Cli : [c EXCEPT !.exited = TRUE] \in Cli
    /\ \A c \in Cli : [c EXCEPT !.exited = TRUE, !.sound = FALSE] \in Cli
  BY DEF Cli

LEMMA ObjectTypes ==
    /\ \A k \in Kinds \ {"started", "notified"} : Obj(k) \in Object /\ Named(Obj(k))
    /\ \A t \in Tasks, b \in BOOLEAN, k \in {"started", "notified"} :
         [kind |-> k, task |-> t, ok |-> b] \in Object /\ Named([kind |-> k, task |-> t, ok |-> b])
    /\ [Obj("result") EXCEPT !.ok = FALSE] \in Object
    /\ Named([Obj("result") EXCEPT !.ok = FALSE])
  BY DEF Obj, Object, Kinds, Named

LEMMA ConsumeTInv == TInv /\ CliConsume => TInv'
  <1> SUFFICES ASSUME TInv, CliConsume PROVE TInv'
    OBVIOUS
  <1> USE TurnsAssumption
  <1> DEFINE n == cli.turn + 1
  <1>1. /\ n \in 0..Turns /\ stdin' \in 0..Turns /\ stdin' = stdin - 1
        /\ cli.turn \in Nat /\ cli.roots \in Nat /\ stdin \in Nat
        /\ ~cli.working /\ ~cli.exited /\ UNCHANGED <<broker, eof>>
    BY DEF TInv, TypeOK, Cli, Frames, CliConsume, Quiet
  <1>2. cli' = [cli EXCEPT !.turn = n, !.working = TRUE, !.chatted = FALSE]
    BY DEF CliConsume, Quiet
  <1>3. cli' \in Cli
    BY <1>1, <1>2, CliFields DEF TInv, TypeOK
  <1>4. cli'.turn = n /\ cli'.working /\ cli'.roots = cli.roots /\ cli'.exited = cli.exited
    BY <1>2 DEF TInv, TypeOK, Cli
  <1>5. pipe' \in Seq(Object) /\ Len(pipe') <= PipeMax /\ PipeOK'
    <2>1. CASE pipe' = Append(pipe, Obj("init")) /\ Len(pipe) < PipeMax
      BY <2>1, PipeGrows, ObjectTypes DEF Kinds
    <2>2. CASE UNCHANGED pipe
      BY <2>2 DEF TInv, TypeOK, PipeOK
    <2> QED BY <2>1, <2>2 DEF CliConsume, Quiet
  <1>6. stdin' + cli'.turn = stdin + cli.turn
    BY <1>1, <1>4
  <1>7. cli'.turn = cli'.roots + (IF cli'.working THEN 1 ELSE 0)
    BY <1>1, <1>4 DEF TInv, Frames
  <1> QED BY <1>1, <1>3, <1>4, <1>5, <1>6, <1>7, CliKeepsTInv

\* A step that says something and leaves the turns alone.
LEMMA EmitTInv ==
    ASSUME TInv, NEW o \in Object, Named(o), NEW c \in Cli, Emit(o, c), UNCHANGED stdin,
           c.turn = cli.turn, c.exited = cli.exited,
           c.turn = c.roots + (IF c.working THEN 1 ELSE 0)
    PROVE  TInv'
  <1>1. pipe' \in Seq(Object) /\ Len(pipe') <= PipeMax /\ PipeOK'
    BY PipeGrows DEF Emit
  <1>2. ~cli.exited /\ cli' = c /\ UNCHANGED <<broker, eof>> /\ stdin' \in 0..Turns
    BY DEF Emit, TInv, TypeOK
  <1> QED BY <1>1, <1>2, CliKeepsTInv

LEMMA EmitsTInv ==
    TInv /\ (CliChat \/ CliStartTask \/ CliEndTask \/ CliOpenSegment \/ CliInnerResult
               \/ CliRootResult \/ CliCloseSegment \/ CliFault)
      => TInv'
  <1> SUFFICES ASSUME TInv, CliChat \/ CliStartTask \/ CliEndTask \/ CliOpenSegment
                            \/ CliInnerResult \/ CliRootResult \/ CliCloseSegment \/ CliFault
               PROVE  TInv'
    OBVIOUS
  <1> USE TurnsAssumption
  <1>0. /\ cli \in Cli /\ cli.turn \in 0..Turns /\ cli.roots \in 0..Turns
        /\ cli.turn = cli.roots + (IF cli.working THEN 1 ELSE 0)
        /\ cli.active \in SUBSET Tasks /\ cli.started \in SUBSET Tasks
        /\ cli.due \in Nat /\ cli.open \in Nat /\ cli.inner \in 0..InnerMax
    BY DEF TInv, TypeOK, Cli, Frames
  <1> DEFINE Keeps(c) == c.turn = cli.turn /\ c.exited = cli.exited
                         /\ c.turn = c.roots + (IF c.working THEN 1 ELSE 0)
  <1>1. CASE CliChat
    <2> DEFINE c == [cli EXCEPT !.chatted = TRUE]
    <2>1. c \in Cli
      BY <1>0, CliFields
    <2>2. Keeps(c)
      BY <1>0 DEF Cli
    <2>3. Emit(Obj("other"), c) /\ UNCHANGED stdin
      BY <1>1 DEF CliChat, Emit
    <2> HIDE DEF c
    <2> QED BY <2>1, <2>2, <2>3, ObjectTypes, EmitTInv DEF Kinds
  <1>2. CASE CliStartTask
    <2>1. PICK t \in Tasks \ cli.started :
            Emit([kind |-> "started", task |-> t, ok |-> TRUE],
                 [cli EXCEPT !.started = @ \cup {t}, !.active = @ \cup {t}])
      BY <1>2 DEF CliStartTask
    <2> DEFINE c == [cli EXCEPT !.started = @ \cup {t}, !.active = @ \cup {t}]
               o == [kind |-> "started", task |-> t, ok |-> TRUE]
    <2>2. cli.started \cup {t} \in SUBSET Tasks /\ cli.active \cup {t} \in SUBSET Tasks
      BY <1>0
    <2>3. c \in Cli
      BY <1>0, <2>2, CliFields
    <2>4. Keeps(c)
      BY <1>0 DEF Cli
    <2>5. o \in Object /\ Named(o)
      BY ObjectTypes
    <2>6. Emit(o, c) /\ UNCHANGED stdin
      BY <2>1 DEF Emit
    <2> HIDE DEF c, o
    <2> QED BY <2>3, <2>4, <2>5, <2>6, EmitTInv
  <1>3. CASE CliEndTask
    <2>1. PICK t \in cli.active, ok \in BOOLEAN :
            Emit([kind |-> "notified", task |-> t, ok |-> ok],
                 [cli EXCEPT !.active = @ \ {t},
                             !.due = IF ok /\ (cli.working \/ "late" \in habits) THEN @ + 1 ELSE @])
      BY <1>3 DEF CliEndTask
    <2> DEFINE n == IF ok /\ (cli.working \/ "late" \in habits) THEN cli.due + 1 ELSE cli.due
               c == [cli EXCEPT !.active = @ \ {t}, !.due = n]
               o == [kind |-> "notified", task |-> t, ok |-> ok]
    <2>2. cli.active \ {t} \in SUBSET Tasks /\ n \in Nat /\ t \in Tasks
      BY <1>0
    <2>6. Emit(o, c) /\ UNCHANGED stdin
      BY <2>1 DEF Emit
    <2> HIDE DEF n
    <2>3. c \in Cli
      BY <1>0, <2>2, CliFields
    <2>4. Keeps(c)
      BY <1>0 DEF Cli
    <2>5. o \in Object /\ Named(o)
      BY <2>2, ObjectTypes
    <2> HIDE DEF c, o
    <2> QED BY <2>3, <2>4, <2>5, <2>6, EmitTInv
  <1>4. CASE CliOpenSegment
    <2> DEFINE i == cli.due - 1
               j == cli.open + 1
               c == [cli EXCEPT !.due = i, !.open = j]
    <2>1. i \in Nat /\ j \in Nat
      BY <1>0, <1>4 DEF CliOpenSegment
    <2>2. Emit(Obj("init"), c) /\ UNCHANGED stdin
      BY <1>4 DEF CliOpenSegment, Emit
    <2> HIDE DEF i, j
    <2>3. c \in Cli
      BY <1>0, <2>1, CliFields
    <2>4. Keeps(c)
      BY <1>0 DEF Cli
    <2> HIDE DEF c
    <2> QED BY <2>2, <2>3, <2>4, ObjectTypes, EmitTInv DEF Kinds
  <1>5. CASE CliInnerResult
    <2> DEFINE n == cli.inner + 1
               c == [cli EXCEPT !.inner = n]
    <2>1. n \in 0..InnerMax
      BY <1>0, <1>5, BoundsAssumption DEF CliInnerResult
    <2>2. Emit(Obj("result"), c) /\ UNCHANGED stdin
      BY <1>5 DEF CliInnerResult, Emit
    <2> HIDE DEF n
    <2>3. c \in Cli
      BY <1>0, <2>1, CliFields
    <2>4. Keeps(c)
      BY <1>0 DEF Cli
    <2> HIDE DEF c
    <2> QED BY <2>2, <2>3, <2>4, ObjectTypes, EmitTInv DEF Kinds
  <1>6. CASE CliRootResult
    <2> DEFINE n == cli.roots + 1
               c == [cli EXCEPT !.working = FALSE, !.roots = n]
    <2>1. n \in 0..Turns /\ cli.turn = n
      BY <1>0, <1>6 DEF CliRootResult
    <2>2. Emit(Obj("result"), c) /\ UNCHANGED stdin
      BY <1>6 DEF CliRootResult, Emit
    <2> HIDE DEF n
    <2>3. c \in Cli
      BY <1>0, <2>1, CliFields
    <2>4. Keeps(c)
      BY <1>0, <2>1 DEF Cli
    <2> HIDE DEF c
    <2> QED BY <2>2, <2>3, <2>4, ObjectTypes, EmitTInv DEF Kinds
  <1>7. CASE CliCloseSegment
    <2> DEFINE n == cli.open - 1
               c == [cli EXCEPT !.open = n]
    <2>1. n \in Nat
      BY <1>0, <1>7 DEF CliCloseSegment
    <2>2. Emit(Obj("forwarded"), c) /\ UNCHANGED stdin
      BY <1>7 DEF CliCloseSegment, Emit
    <2> HIDE DEF n
    <2>3. c \in Cli
      BY <1>0, <2>1, CliFields
    <2>4. Keeps(c)
      BY <1>0 DEF Cli
    <2> HIDE DEF c
    <2> QED BY <2>2, <2>3, <2>4, ObjectTypes, EmitTInv DEF Kinds
  <1>8. CASE CliFault
    <2> DEFINE c == [cli EXCEPT !.sound = FALSE]
    <2>1. PICK o \in {[Obj("result") EXCEPT !.ok = FALSE], Obj("stray"), Obj("garbage")} : Emit(o, c)
      BY <1>8 DEF CliFault
    <2>2. c \in Cli
      BY <1>0, CliFields
    <2>3. Keeps(c)
      BY <1>0 DEF Cli
    <2>4. o \in Object /\ Named(o)
      BY ObjectTypes DEF Kinds
    <2>5. UNCHANGED stdin
      BY <2>1 DEF Emit
    <2> HIDE DEF c
    <2> QED BY <2>1, <2>2, <2>3, <2>4, <2>5, EmitTInv
  <1> QED BY <1>1, <1>2, <1>3, <1>4, <1>5, <1>6, <1>7, <1>8

LEMMA QuietTInv ==
    TInv /\ (CliDropSegment \/ CliExit \/ CliCrash) => TInv'
  <1> SUFFICES ASSUME TInv, CliDropSegment \/ CliExit \/ CliCrash PROVE TInv'
    OBVIOUS
  <1>0. /\ cli \in Cli /\ UNCHANGED <<broker, stdin, eof, pipe>> /\ ~cli.exited
        /\ pipe' \in Seq(Object) /\ Len(pipe') <= PipeMax /\ PipeOK'
    BY DEF TInv, TypeOK, PipeOK, CliDropSegment, CliExit, CliCrash, Quiet
  <1>1. CASE CliDropSegment
    <2> DEFINE n == cli.due - 1
    <2>1. n \in Nat
      BY <1>0, <1>1 DEF CliDropSegment, Cli
    <2>2. cli' = [cli EXCEPT !.due = n]
      BY <1>1 DEF CliDropSegment, Quiet
    <2> HIDE DEF n
    <2>3. cli' \in Cli
      BY <1>0, <2>1, <2>2, CliFields
    <2>4. /\ cli'.turn = cli.turn /\ cli'.roots = cli.roots /\ cli'.working = cli.working
          /\ cli'.exited = cli.exited
      BY <1>0, <2>2 DEF Cli
    <2>5. cli'.turn = cli'.roots + (IF cli'.working THEN 1 ELSE 0) /\ stdin' \in 0..Turns
      BY <1>0, <2>4 DEF TInv, TypeOK, Frames
    <2> QED BY <1>0, <2>3, <2>4, <2>5, CliKeepsTInv
  <1>2. CASE CliExit
    <2>1. cli' = [cli EXCEPT !.exited = TRUE]
      BY <1>2 DEF CliExit, Quiet
    <2>2. cli' \in Cli
      BY <1>0, <2>1, CliFields
    <2>3. /\ cli'.turn = cli.turn /\ cli'.roots = cli.roots /\ cli'.working = cli.working
          /\ cli'.active = cli.active /\ cli'.open = cli.open
      BY <1>0, <2>1 DEF Cli
    <2>4. TypeOK'
      BY <1>0, <2>2 DEF TInv, TypeOK, broker
    <2>5. Frames'
      BY <1>0, <2>3 DEF TInv, Frames, broker
    <2>6. Exits'
      <3>1. rc # 0
        BY <1>0 DEF TInv, Exits
      <3>2. writer # "finished" => cli.turn = Turns
        BY <1>2 DEF TInv, TypeOK, Cli, Frames, CliExit
      <3> QED BY <1>0, <1>2, <2>1, <2>3, <3>1, <3>2 DEF TInv, Exits, Ended, CliExit, broker
    <2> QED BY <1>0, <2>4, <2>5, <2>6 DEF TInv
  <1>3. CASE CliCrash
    <2>1. cli' = [cli EXCEPT !.exited = TRUE, !.sound = FALSE]
      BY <1>3 DEF CliCrash, Quiet
    <2>2. cli' \in Cli
      BY <1>0, <2>1, CliFields
    <2>3. /\ cli'.turn = cli.turn /\ cli'.roots = cli.roots /\ cli'.working = cli.working
          /\ ~cli'.sound /\ cli'.exited
      BY <1>0, <2>1 DEF Cli
    <2>4. TypeOK'
      BY <1>0, <2>2 DEF TInv, TypeOK, broker
    <2>5. Frames'
      BY <1>0, <2>3 DEF TInv, Frames, broker
    <2>6. Exits'
      BY <1>0, <2>3 DEF TInv, Exits, broker
    <2> QED BY <1>0, <2>4, <2>5, <2>6 DEF TInv
  <1> QED BY <1>1, <1>2, <1>3

LEMMA NextTInv == TInv /\ [Next]_vars => TInv'
  <1>1. TInv /\ UNCHANGED vars => TInv'
    BY DEF vars, TInv, TypeOK, PipeOK, Frames, Exits, Ended
  <1>2. Finished => UNCHANGED vars
    BY DEF Finished
  <1> QED
    BY <1>1, <1>2, ObserveTInv, WriterTInv, ConsumeTInv, EmitsTInv, QuietTInv DEF Next, CliWork

\* Every history keeps its types and its frames where they belong.
THEOREM TypesHold == Spec => []TInv
  BY InitTInv, NextTInv, PTL DEF Spec

-----------------------------------------------------------------------------
(* Views *)

LEMMA ViewFields ==
    /\ \A v \in View : [v EXCEPT !.inited = TRUE, !.quiet = FALSE] \in View
    /\ \A v \in View, i, j \in Nat : [v EXCEPT !.perms = i, !.open = j, !.quiet = FALSE] \in View
    /\ \A v \in View, s, a \in SUBSET Tasks :
         [v EXCEPT !.seen = s, !.active = a, !.quiet = FALSE] \in View
    /\ \A v \in View, a \in SUBSET Tasks, n \in Nat :
         [v EXCEPT !.active = a, !.perms = n, !.quiet = FALSE] \in View
    /\ \A v \in View, n \in Nat : [v EXCEPT !.roots = n, !.quiet = TRUE] \in View
    /\ \A v \in View, n \in Nat : [v EXCEPT !.open = n, !.quiet = TRUE] \in View
    /\ \A v \in View : [v EXCEPT !.quiet = FALSE] \in View
    /\ \A v \in View : [v EXCEPT !.perms = 0] \in View
  BY DEF View

\* The cases of a legal object, and the view after it field by field.
Follows(v, o, w) ==
    \/ Fault(o) /\ w = v
    \/ /\ o.kind = "init" /\ ~v.inited
       /\ w.inited /\ w.active = v.active /\ w.seen = v.seen /\ w.perms = v.perms
       /\ w.open = v.open /\ w.roots = v.roots /\ ~w.quiet
    \/ /\ o.kind = "init" /\ v.inited /\ v.perms > 0
       /\ w.inited /\ w.active = v.active /\ w.seen = v.seen /\ w.perms = v.perms - 1
       /\ w.open = v.open + 1 /\ w.roots = v.roots /\ ~w.quiet
    \/ /\ o.kind = "init" /\ v.inited /\ v.perms = 0
       /\ w.inited /\ w.active = v.active /\ w.seen = v.seen /\ w.perms = v.perms
       /\ w.open = v.open /\ w.roots = v.roots /\ ~w.quiet
    \/ /\ o.kind = "started"
       /\ w.inited = v.inited /\ w.active = v.active \cup {o.task}
       /\ w.seen = v.seen \cup {o.task} /\ w.perms = v.perms
       /\ w.open = v.open /\ w.roots = v.roots /\ ~w.quiet
    \/ /\ o.kind = "notified"
       /\ w.inited = v.inited /\ w.active = v.active \ {o.task} /\ w.seen = v.seen
       /\ w.perms = (IF o.ok THEN v.perms + 1 ELSE v.perms)
       /\ w.open = v.open /\ w.roots = v.roots /\ ~w.quiet
    \/ /\ o.kind = "other"
       /\ w.inited = v.inited /\ w.active = v.active /\ w.seen = v.seen /\ w.perms = v.perms
       /\ w.open = v.open /\ w.roots = v.roots /\ ~w.quiet
    \/ /\ o.kind = "result" /\ o.ok
       /\ w.inited = v.inited /\ w.active = v.active /\ w.seen = v.seen /\ w.perms = v.perms
       /\ w.open = v.open /\ w.roots = v.roots + 1 /\ w.quiet
    \/ /\ o.kind = "forwarded" /\ o.ok
       /\ w.inited = v.inited /\ w.active = v.active /\ w.seen = v.seen /\ w.perms = v.perms
       /\ w.open = v.open - 1 /\ w.roots = v.roots /\ w.quiet

LEMMA StepFollows ==
    ASSUME NEW v \in View, NEW o \in Object, Named(o), NEW n \in Nat, NEW strictly \in BOOLEAN,
           Legal(v, o, n, strictly)
    PROVE  ViewStep(v, o) \in View /\ Follows(v, o, ViewStep(v, o))
  <1> DEFINE w == ViewStep(v, o)
  <1>0. /\ v.inited \in BOOLEAN /\ v.active \in SUBSET Tasks /\ v.seen \in SUBSET Tasks
        /\ v.perms \in Nat /\ v.open \in Nat /\ v.roots \in Nat /\ v.quiet \in BOOLEAN
    BY DEF View
  <1>1. CASE Fault(o)
    <2>1. w = v
      BY <1>1 DEF Fault, ViewStep
    <2> QED BY <1>1, <2>1 DEF Follows
  <1>2. CASE o.kind = "init" /\ ~v.inited
    <2>1. w = [v EXCEPT !.inited = TRUE, !.quiet = FALSE]
      BY <1>2 DEF ViewStep, Fault
    <2>2. w \in View
      BY <2>1, ViewFields
    <2> QED BY <1>2, <2>1, <2>2 DEF Follows, View
  <1>3. CASE o.kind = "init" /\ v.inited /\ v.perms > 0
    <2> DEFINE i == v.perms - 1
               j == v.open + 1
    <2>1. w = [v EXCEPT !.perms = i, !.open = j, !.quiet = FALSE]
      BY <1>3 DEF ViewStep, Fault
    <2>2. i \in Nat /\ j \in Nat
      BY <1>0, <1>3
    <2> HIDE DEF i, j
    <2> HIDE DEF w
    <2>5. [v EXCEPT !.perms = i, !.open = j, !.quiet = FALSE] \in View
      BY <2>2, ViewFields
    <2>3. w \in View
      BY <2>1, <2>5
    <2>4. /\ w.inited = v.inited /\ w.active = v.active /\ w.seen = v.seen /\ w.perms = i
          /\ w.open = j /\ w.roots = v.roots /\ ~w.quiet
      BY <2>1 DEF View
    <2>6. Follows(v, o, w)
      BY <1>3, <2>4 DEF Follows, i, j
    <2> QED BY <2>3, <2>6 DEF w
  <1>4. CASE o.kind = "init" /\ v.inited /\ ~(v.perms > 0)
    <2>1. w = [v EXCEPT !.quiet = FALSE] /\ v.perms = 0
      BY <1>0, <1>4 DEF ViewStep, Fault
    <2>3. [v EXCEPT !.quiet = FALSE] \in View
      BY ViewFields
    <2>2. w \in View
      BY <2>1, <2>3
    <2> QED BY <1>4, <2>1, <2>2 DEF Follows, View
  <1>5. CASE o.kind = "started"
    <2> DEFINE s == v.seen \cup {o.task}
               a == v.active \cup {o.task}
    <2>1. w = [v EXCEPT !.seen = s, !.active = a, !.quiet = FALSE]
      BY <1>5 DEF ViewStep, Fault
    <2>2. s \in SUBSET Tasks /\ a \in SUBSET Tasks
      BY <1>0, <1>5 DEF Named
    <2> HIDE DEF s, a, w
    <2>5. [v EXCEPT !.seen = s, !.active = a, !.quiet = FALSE] \in View
      BY <2>2, ViewFields
    <2>3. w \in View
      BY <2>1, <2>5
    <2>4. /\ w.inited = v.inited /\ w.active = a /\ w.seen = s /\ w.perms = v.perms
          /\ w.open = v.open /\ w.roots = v.roots /\ ~w.quiet
      BY <2>1 DEF View
    <2>6. Follows(v, o, w)
      BY <1>5, <2>4 DEF Follows, s, a
    <2> QED BY <2>3, <2>6 DEF w
  <1>6. CASE o.kind = "notified"
    <2> DEFINE a == v.active \ {o.task}
               i == IF o.ok THEN v.perms + 1 ELSE v.perms
    <2>1. w = [v EXCEPT !.active = a, !.perms = i, !.quiet = FALSE]
      BY <1>6 DEF ViewStep, Fault
    <2>2. a \in SUBSET Tasks /\ i \in Nat
      BY <1>0
    <2> HIDE DEF a, i
    <2>3. w \in View
      <3>1. [v EXCEPT !.active = a, !.perms = i, !.quiet = FALSE] \in View
        BY <2>2, ViewFields
      <3> QED BY <2>1, <3>1
    <2>4. /\ w.inited = v.inited /\ w.active = a /\ w.seen = v.seen /\ w.perms = i
          /\ w.open = v.open /\ w.roots = v.roots /\ ~w.quiet
      BY <2>1 DEF View
    <2> QED BY <1>6, <2>3, <2>4 DEF Follows, a, i
  <1>7. CASE o.kind = "other"
    <2>1. w = [v EXCEPT !.quiet = FALSE]
      BY <1>7 DEF ViewStep, Fault
    <2>2. w \in View
      BY <2>1, ViewFields
    <2> QED BY <1>7, <2>1, <2>2 DEF Follows, View
  <1>8. CASE o.kind = "result" /\ o.ok
    <2> DEFINE i == v.roots + 1
    <2>1. w = [v EXCEPT !.roots = i, !.quiet = TRUE]
      BY <1>8 DEF ViewStep, Fault
    <2>2. i \in Nat
      BY <1>0
    <2> HIDE DEF i
    <2>3. w \in View
      BY <2>1, <2>2, ViewFields
    <2>4. /\ w.inited = v.inited /\ w.active = v.active /\ w.seen = v.seen /\ w.perms = v.perms
          /\ w.open = v.open /\ w.roots = i /\ w.quiet
      BY <2>1 DEF View
    <2> QED BY <1>8, <2>3, <2>4 DEF Follows, i
  <1>9. CASE o.kind = "forwarded" /\ o.ok /\ v.open > 0
    <2> DEFINE i == v.open - 1
    <2>1. w = [v EXCEPT !.open = i, !.quiet = TRUE]
      BY <1>9 DEF ViewStep, Fault
    <2>2. i \in Nat
      BY <1>0, <1>9
    <2> HIDE DEF i
    <2>3. w \in View
      BY <2>1, <2>2, ViewFields
    <2>4. /\ w.inited = v.inited /\ w.active = v.active /\ w.seen = v.seen /\ w.perms = v.perms
          /\ w.open = i /\ w.roots = v.roots /\ w.quiet
      BY <2>1 DEF View
    <2> QED BY <1>9, <2>3, <2>4 DEF Follows, i
  <1> QED BY <1>1, <1>2, <1>3, <1>4, <1>5, <1>6, <1>7, <1>8, <1>9 DEF Legal

\* A legal object leads from a view that is in order to one that is, and after a drained view
\* only a fault is legal.
LEMMA StepOK ==
    ASSUME NEW v \in View, NEW o \in Object, Named(o), NEW n \in Nat, NEW strictly \in BOOLEAN,
           ViewOK(v, n, strictly), Legal(v, o, n, strictly)
    PROVE  /\ ViewOK(ViewStep(v, o), n, strictly)
           /\ Drained(v, n) => Fault(o) /\ ViewStep(v, o) = v
  <1> DEFINE w == ViewStep(v, o)
  <1>0. /\ v.inited \in BOOLEAN /\ v.active \in SUBSET Tasks /\ v.seen \in SUBSET Tasks
        /\ v.perms \in Nat /\ v.open \in Nat /\ v.roots \in Nat /\ v.quiet \in BOOLEAN
    BY DEF View
  <1>1. Follows(v, o, w)
    BY StepFollows
  <1>2. Drained(v, n) => Fault(o)
    BY <1>0 DEF Legal, Drained, Fault
  <1>3. Fault(o) => w = v
    BY DEF ViewStep, Fault
  <1>4. ViewOK(w, n, strictly)
    BY <1>0, <1>1 DEF Follows, ViewOK, Legal, Fault
  <1> QED BY <1>2, <1>3, <1>4

-----------------------------------------------------------------------------
(* Paths *)

Objects(p) == p \in Seq(Object) /\ \A i \in 1..Len(p) : Named(p[i])

\* The copier takes the first object.
LEMMA PathTail ==
    ASSUME NEW p, Objects(p), p # << >>, NEW n \in Nat, NEW strictly \in BOOLEAN,
           NEW vs, Path(vs, p, n, strictly)
    PROVE  Path([i \in 1..Len(Tail(p)) + 1 |-> vs[i + 1]], Tail(p), n, strictly)
  <1> DEFINE q == Tail(p)
             ws == [i \in 1..Len(q) + 1 |-> vs[i + 1]]
  <1>1. Len(q) = Len(p) - 1 /\ Len(p) \in Nat /\ Len(p) > 0
    BY DEF Objects
  <1>2. \A i \in 1..Len(q) : q[i] = p[i + 1] /\ i + 1 \in 1..Len(p)
    BY <1>1 DEF Objects
  <1>3. \A i \in 1..Len(q) + 1 : i + 1 \in 1..Len(p) + 1
    BY <1>1
  <1>4. ws \in [1..Len(q) + 1 -> View] /\ \A i \in 1..Len(q) + 1 : ws[i] = vs[i + 1]
    BY <1>3 DEF Path
  <1> HIDE DEF q, ws
  <1>5. \A i \in 1..Len(q) + 1 : ViewOK(ws[i], n, strictly)
    BY <1>3, <1>4 DEF Path
  <1>6. ASSUME NEW i \in 1..Len(q)
        PROVE  Legal(ws[i], q[i], n, strictly) /\ ws[i + 1] = ViewStep(ws[i], q[i])
    <2>1. i \in 1..Len(q) + 1 /\ i + 1 \in 1..Len(q) + 1 /\ i + 1 \in 1..Len(p)
      BY <1>1
    <2> QED BY <2>1, <1>2, <1>4 DEF Path
  <1>7. ASSUME NEW i \in 1..Len(q) + 1, NEW j \in 1..Len(q) + 1, i <= j, Drained(ws[i], n)
        PROVE  ws[j] = ws[i]
    <2>1. i + 1 \in 1..Len(p) + 1 /\ j + 1 \in 1..Len(p) + 1 /\ i + 1 <= j + 1
      BY <1>1, <1>3, <1>7
    <2> QED BY <2>1, <1>4, <1>7 DEF Path
  <1>8. Path(ws, q, n, strictly)
    BY <1>4, <1>5, <1>6, <1>7 DEF Path
  <1> QED BY <1>8 DEF q, ws

\* The CLI says something legal.
LEMMA PathAppend ==
    ASSUME NEW p, Objects(p), NEW n \in Nat, NEW strictly \in BOOLEAN, NEW vs,
           Path(vs, p, n, strictly), NEW o \in Object, Named(o),
           Legal(vs[Len(p) + 1], o, n, strictly)
    PROVE  Path([i \in 1..Len(Append(p, o)) + 1 |->
                   IF i <= Len(p) + 1 THEN vs[i] ELSE ViewStep(vs[Len(p) + 1], o)],
                Append(p, o), n, strictly)
  <1> DEFINE q == Append(p, o)
             last == vs[Len(p) + 1]
             new == ViewStep(last, o)
             ws == [i \in 1..Len(q) + 1 |-> IF i <= Len(p) + 1 THEN vs[i] ELSE new]
  <1>1. Len(q) = Len(p) + 1 /\ Len(p) \in Nat
    BY DEF Objects
  <1>2. (\A i \in 1..Len(p) : q[i] = p[i]) /\ q[Len(p) + 1] = o
    BY <1>1 DEF Objects
  <1>3. last \in View /\ ViewOK(last, n, strictly)
    BY <1>1 DEF Path
  <1>4. new \in View /\ ViewOK(new, n, strictly) /\ (Drained(last, n) => new = last)
    BY <1>3, StepFollows, StepOK
  <1> HIDE DEF q, new
  <1>5. /\ \A i \in 1..Len(p) + 1 : ws[i] = vs[i] /\ vs[i] \in View /\ ViewOK(vs[i], n, strictly)
        /\ ws[Len(p) + 2] = new
    <2>1. \A i \in 1..Len(p) + 1 : i \in 1..Len(q) + 1 /\ i <= Len(p) + 1
      BY <1>1
    <2>2. Len(p) + 2 \in 1..Len(q) + 1 /\ ~(Len(p) + 2 <= Len(p) + 1)
      BY <1>1
    <2>3. \A i \in 1..Len(p) + 1 : vs[i] \in View /\ ViewOK(vs[i], n, strictly)
      BY DEF Path
    <2> QED BY <2>1, <2>2, <2>3
  <1>6. ws \in [1..Len(q) + 1 -> View]
    BY <1>1, <1>4 DEF Path
  <1> HIDE DEF ws, last
  <1>7. ASSUME NEW i \in 1..Len(q) + 1
        PROVE  (i \in 1..Len(p) + 1 /\ ws[i] = vs[i]) \/ (i = Len(p) + 2 /\ ws[i] = new)
    BY <1>1, <1>5
  <1>8. \A i \in 1..Len(q) + 1 : ViewOK(ws[i], n, strictly)
    BY <1>4, <1>5, <1>7
  <1>9. ASSUME NEW i \in 1..Len(q)
        PROVE  Legal(ws[i], q[i], n, strictly) /\ ws[i + 1] = ViewStep(ws[i], q[i])
    <2>1. CASE i \in 1..Len(p)
      <3>1. i \in 1..Len(p) + 1 /\ i + 1 \in 1..Len(p) + 1
        BY <1>1, <2>1
      <3> QED BY <2>1, <3>1, <1>2, <1>5 DEF Path
    <2>2. CASE i = Len(p) + 1
      <3>1. i \in 1..Len(p) + 1 /\ i + 1 = Len(p) + 2
        BY <1>1, <2>2
      <3>2. ws[i] = last /\ q[i] = o /\ ws[i + 1] = new
        BY <2>2, <3>1, <1>2, <1>5 DEF last
      <3> QED BY <3>2 DEF last, new
    <2> QED BY <2>1, <2>2, <1>1
  <1>10. ASSUME NEW i \in 1..Len(q) + 1, NEW j \in 1..Len(q) + 1, i <= j, Drained(ws[i], n)
         PROVE  ws[j] = ws[i]
    <2>1. CASE i \in 1..Len(p) + 1 /\ j \in 1..Len(p) + 1
      BY <2>1, <1>5, <1>10 DEF Path
    <2>2. CASE i \in 1..Len(p) + 1 /\ j = Len(p) + 2
      <3>1. Len(p) + 1 \in 1..Len(p) + 1 /\ i <= Len(p) + 1
        BY <1>1, <2>2
      <3>2. last = vs[i]
        BY <2>2, <3>1, <1>5, <1>10 DEF Path, last
      <3> QED BY <2>2, <3>2, <1>4, <1>5, <1>10
    <2>3. CASE i = Len(p) + 2
      BY <2>3, <1>1, <1>10
    <2> QED BY <2>1, <2>2, <2>3, <1>7
  <1>11. Path(ws, q, n, strictly)
    BY <1>6, <1>8, <1>9, <1>10 DEF Path
  <1> QED BY <1>11 DEF q, ws, new, last

\* The writer begins a frame on a stream that is drained.
LEMMA PathBegin ==
    ASSUME NEW p, Objects(p), NEW n \in Nat, NEW strictly \in BOOLEAN, NEW vs,
           Path(vs, p, n, strictly), Drained(vs[1], n), vs[1].perms = 0
    PROVE  Path(vs, p, n + 1, strictly)
  <1>1. Len(p) \in Nat
    BY DEF Objects
  <1>2. vs \in [1..Len(p) + 1 -> View] /\ \A i \in 1..Len(p) + 1 : vs[i] = vs[1]
    BY <1>1 DEF Path
  <1>3. vs[1] \in View /\ ViewOK(vs[1], n, strictly)
    BY <1>1 DEF Path
  <1>4. ViewOK(vs[1], n + 1, strictly)
    BY <1>3 DEF ViewOK, Drained, View
  <1>5. ~Drained(vs[1], n + 1)
    BY DEF Drained
  <1>6. ASSUME NEW i \in 1..Len(p) PROVE Fault(p[i])
    <2>1. i \in 1..Len(p) + 1
      BY <1>1
    <2>2. Legal(vs[1], p[i], n, strictly) /\ p[i] \in Object /\ Named(p[i])
      BY <2>1, <1>2 DEF Path, Objects
    <2> QED BY <1>3, <2>2, StepOK
  <1>7. \A i \in 1..Len(p) : Legal(vs[i], p[i], n + 1, strictly) /\ vs[i + 1] = ViewStep(vs[i], p[i])
    BY <1>6 DEF Path, Legal
  <1> QED BY <1>2, <1>4, <1>5, <1>7 DEF Path

\* claimReady resets the permissions.
LEMMA PathReset ==
    ASSUME NEW p, Objects(p), NEW n \in Nat, NEW strictly \in BOOLEAN, NEW vs,
           Path(vs, p, n, strictly), Drained(vs[1], n)
    PROVE  Path([i \in 1..Len(p) + 1 |-> [vs[1] EXCEPT !.perms = 0]], p, n, strictly)
  <1> DEFINE w == [vs[1] EXCEPT !.perms = 0]
             ws == [i \in 1..Len(p) + 1 |-> w]
  <1>1. Len(p) \in Nat
    BY DEF Objects
  <1>2. vs \in [1..Len(p) + 1 -> View] /\ \A i \in 1..Len(p) + 1 : vs[i] = vs[1]
    BY <1>1 DEF Path
  <1>3. vs[1] \in View /\ ViewOK(vs[1], n, strictly)
    BY <1>1 DEF Path
  <1>4. w \in View
    BY <1>3, ViewFields
  <1>5. ViewOK(w, n, strictly) /\ Drained(w, n)
    BY <1>3 DEF ViewOK, Drained, View
  <1> HIDE DEF w
  <1>6. ASSUME NEW i \in 1..Len(p) PROVE Fault(p[i])
    <2>1. i \in 1..Len(p) + 1
      BY <1>1
    <2>2. Legal(vs[1], p[i], n, strictly) /\ p[i] \in Object /\ Named(p[i])
      BY <2>1, <1>2 DEF Path, Objects
    <2> QED BY <1>3, <2>2, StepOK
  <1>7. \A i \in 1..Len(p) : ViewStep(w, p[i]) = w /\ Legal(w, p[i], n, strictly)
    BY <1>6 DEF Legal, ViewStep, Fault
  <1>8. \A i \in 1..Len(p) + 1 : ws[i] = w
    OBVIOUS
  <1>9. \A i \in 1..Len(p) : i \in 1..Len(p) + 1 /\ i + 1 \in 1..Len(p) + 1
    BY <1>1
  <1>10. ws \in [1..Len(p) + 1 -> View]
    BY <1>4
  <1> HIDE DEF ws
  <1>11. Path(ws, p, n, strictly)
    BY <1>5, <1>7, <1>8, <1>9, <1>10 DEF Path
  <1> QED BY <1>11 DEF ws, w

-----------------------------------------------------------------------------
(* The gate and the normalizer read the stream as a view does *)

LEMMA FaultFails ==
    ASSUME NEW g \in Gate, NEW o \in Object, Fault(o)
    PROVE  Observed(g, o).failed
  <1>1. CASE o.kind = "garbage"
    <2>1. Observed(g, o) = Failed(g)
      BY <1>1 DEF Observed
    <2> QED BY <2>1 DEF Failed, Gate
  <1>2. CASE o.kind = "stray" \/ (o.kind = "result" /\ ~o.ok)
    <2>1. ObserveSystem(g, o) = g
      BY <1>2 DEF ObserveSystem
    <2>2. Observed(g, o) = Failed(g)
      BY <1>2, <2>1 DEF Observed, ObserveResult
    <2> QED BY <2>2 DEF Failed, Gate
  <1> QED BY <1>1, <1>2 DEF Fault

\* A fault fails the gate, another legal object takes it to the next view.
LEMMA GateFollows ==
    ASSUME NEW g \in Gate, ~g.failed, NEW v \in View, NEW o \in Object, Named(o), NEW n \in Nat,
           NEW strictly \in BOOLEAN, ViewOK(v, n, strictly), Legal(v, o, n, strictly),
           GateReads(g, v), GateAwaits(g, v, n)
    PROVE  LET h == Observed(g, o) IN
           /\ h.failed <=> Fault(o)
           /\ ~Fault(o) => GateReads(h, ViewStep(v, o)) /\ GateAwaits(h, ViewStep(v, o), n)
  <1> DEFINE s == ObserveSystem(g, o)
             h == Observed(g, o)
             w == ViewStep(v, o)
  <1>0. /\ v.inited \in BOOLEAN /\ v.active \in SUBSET Tasks /\ v.seen \in SUBSET Tasks
        /\ v.perms \in Nat /\ v.open \in Nat /\ v.roots \in Nat /\ v.quiet \in BOOLEAN
    BY DEF View
  <1>1. Follows(v, o, w)
    BY StepFollows
  <1>2. o.kind # "garbage" => h = ObserveResult(s, o)
    BY DEF Observed
  <1>3. CASE Fault(o)
    BY <1>3, FaultFails
  <1>4. CASE o.kind \notin {"init", "started", "notified"} /\ ~Fault(o)
    <2>1. s = g
      BY <1>4 DEF ObserveSystem
    <2>2. CASE o.kind = "result" /\ o.ok /\ v.inited /\ v.roots < n
      <3>1. h = [g EXCEPT !.awaitingRoot = FALSE, !.rootSeen = TRUE]
        BY <1>2, <2>1, <2>2 DEF ObserveResult, GateReads, GateAwaits
      <3>2. /\ h.segments = g.segments /\ h.active = g.active /\ h.seen = g.seen
            /\ h.perms = g.perms /\ h.open = g.open /\ h.failed = g.failed
            /\ ~h.awaitingRoot /\ h.rootSeen
        BY <3>1 DEF Gate
      <3>3. /\ w.inited = v.inited /\ w.active = v.active /\ w.seen = v.seen /\ w.perms = v.perms
            /\ w.open = v.open /\ w.roots = v.roots + 1
        BY <1>1, <1>4, <2>2 DEF Follows
      <3>4. v.roots + 1 = n
        BY <1>0, <2>2 DEF ViewOK
      <3> QED BY <1>0, <1>4, <2>2, <3>2, <3>3, <3>4 DEF GateReads, GateAwaits
    <2>3. CASE o.kind = "forwarded" /\ o.ok /\ v.inited /\ v.open > 0
      <3> DEFINE i == g.open - 1
      <3>1. h = [g EXCEPT !.open = i]
        BY <1>2, <2>1, <2>3 DEF ObserveResult, GateReads
      <3> HIDE DEF i
      <3>2. /\ h.segments = g.segments /\ h.active = g.active /\ h.seen = g.seen
            /\ h.perms = g.perms /\ h.open = i /\ h.failed = g.failed
            /\ h.awaitingRoot = g.awaitingRoot /\ h.rootSeen = g.rootSeen
        BY <3>1 DEF Gate
      <3>3. /\ w.inited = v.inited /\ w.active = v.active /\ w.seen = v.seen /\ w.perms = v.perms
            /\ w.open = v.open - 1 /\ w.roots = v.roots
        BY <1>1, <1>4, <2>3 DEF Follows
      <3> QED BY <1>4, <3>2, <3>3 DEF GateReads, GateAwaits, i
    <2>4. CASE o.kind = "other"
      <3>1. h = g
        BY <1>2, <2>1, <2>4 DEF ObserveResult
      <3>2. /\ w.inited = v.inited /\ w.active = v.active /\ w.seen = v.seen /\ w.perms = v.perms
            /\ w.open = v.open /\ w.roots = v.roots
        BY <1>1, <1>4, <2>4 DEF Follows
      <3> QED BY <1>4, <3>1, <3>2 DEF GateReads, GateAwaits
    <2> QED BY <1>4, <2>2, <2>3, <2>4 DEF Legal
  <1>5. CASE o.kind \in {"init", "started", "notified"}
    <2>1. h = s /\ ~Fault(o)
      BY <1>2, <1>5 DEF ObserveResult, Fault
    <2>2. CASE o.kind = "init" /\ ~v.inited
      <3>1. s = [g EXCEPT !.segments = 1]
        BY <2>2 DEF ObserveSystem, GateReads
      <3>2. /\ s.segments = 1 /\ s.active = g.active /\ s.seen = g.seen
            /\ s.perms = g.perms /\ s.open = g.open /\ s.failed = g.failed
            /\ s.awaitingRoot = g.awaitingRoot /\ s.rootSeen = g.rootSeen
        BY <3>1 DEF Gate
      <3>3. /\ w.inited /\ w.active = v.active /\ w.seen = v.seen /\ w.perms = v.perms
            /\ w.open = v.open /\ w.roots = v.roots
        BY <1>1, <2>1, <2>2 DEF Follows
      <3> QED BY <2>1, <3>2, <3>3 DEF GateReads, GateAwaits
    <2>3. CASE o.kind = "init" /\ v.inited /\ v.perms > 0
      <3> DEFINE i == g.perms - 1
                 j == g.open + 1
      <3>1. s = [g EXCEPT !.perms = i, !.open = j]
        BY <2>3 DEF ObserveSystem, GateReads
      <3> HIDE DEF i, j
      <3>2. /\ s.segments = g.segments /\ s.active = g.active /\ s.seen = g.seen
            /\ s.perms = i /\ s.open = j /\ s.failed = g.failed
            /\ s.awaitingRoot = g.awaitingRoot /\ s.rootSeen = g.rootSeen
        BY <3>1 DEF Gate
      <3>3. /\ w.inited /\ w.active = v.active /\ w.seen = v.seen /\ w.perms = v.perms - 1
            /\ w.open = v.open + 1 /\ w.roots = v.roots
        BY <1>1, <2>1, <2>3 DEF Follows
      <3> QED BY <2>1, <2>3, <3>2, <3>3 DEF GateReads, GateAwaits, i, j
    <2>4. CASE o.kind = "init" /\ v.inited /\ v.perms = 0
      <3>1. s = g
        BY <2>4 DEF ObserveSystem, GateReads
      <3>2. /\ w.inited /\ w.active = v.active /\ w.seen = v.seen /\ w.perms = v.perms
            /\ w.open = v.open /\ w.roots = v.roots
        BY <1>1, <2>1, <2>4 DEF Follows
      <3> QED BY <2>1, <2>4, <3>1, <3>2 DEF GateReads, GateAwaits
    <2>5. CASE o.kind = "started"
      <3> DEFINE a == g.active \cup {o.task}
                 b == g.seen \cup {o.task}
      <3>1. s = [g EXCEPT !.seen = b, !.active = a]
        BY <2>5 DEF ObserveSystem, GateReads, Legal, Fault
      <3> HIDE DEF a, b
      <3>2. /\ s.segments = g.segments /\ s.active = a /\ s.seen = b
            /\ s.perms = g.perms /\ s.open = g.open /\ s.failed = g.failed
            /\ s.awaitingRoot = g.awaitingRoot /\ s.rootSeen = g.rootSeen
        BY <3>1 DEF Gate
      <3>3. /\ w.inited = v.inited /\ w.active = v.active \cup {o.task}
            /\ w.seen = v.seen \cup {o.task} /\ w.perms = v.perms
            /\ w.open = v.open /\ w.roots = v.roots
        BY <1>1, <2>1, <2>5 DEF Follows
      <3> QED BY <2>1, <3>2, <3>3 DEF GateReads, GateAwaits, a, b
    <2>6. CASE o.kind = "notified"
      <3> DEFINE a == g.active \ {o.task}
                 i == IF o.ok THEN g.perms + 1 ELSE g.perms
      <3>1. s = [g EXCEPT !.active = a, !.perms = i]
        BY <2>6 DEF ObserveSystem, GateReads, Legal, Fault
      <3> HIDE DEF a, i
      <3>2. /\ s.segments = g.segments /\ s.active = a /\ s.seen = g.seen
            /\ s.perms = i /\ s.open = g.open /\ s.failed = g.failed
            /\ s.awaitingRoot = g.awaitingRoot /\ s.rootSeen = g.rootSeen
        BY <3>1 DEF Gate
      <3>3. /\ w.inited = v.inited /\ w.active = v.active \ {o.task} /\ w.seen = v.seen
            /\ w.perms = (IF o.ok THEN v.perms + 1 ELSE v.perms)
            /\ w.open = v.open /\ w.roots = v.roots
        BY <1>1, <2>1, <2>6 DEF Follows
      <3> QED BY <2>1, <3>2, <3>3 DEF GateReads, GateAwaits, a, i
    <2> QED BY <1>0, <1>5, <2>1, <2>2, <2>3, <2>4, <2>5, <2>6
  <1> QED BY <1>3, <1>4, <1>5 DEF Fault

\* A fault makes the trace invalid, another legal object takes it to the next view.
LEMMA TraceFollows ==
    ASSUME NEW t \in Trace, t.valid, NEW v \in View, NEW o \in Object, Named(o), NEW n \in Nat,
           n <= Turns, ViewOK(v, n, TRUE), Legal(v, o, n, TRUE), TraceReads(t, v)
    PROVE  LET u == TraceStep(t, o) IN
           /\ u.valid <=> ~Fault(o)
           /\ ~Fault(o) => TraceReads(u, ViewStep(v, o))
  <1> USE TurnsAssumption
  <1> DEFINE again == t.terminal /\ t.roots < Turns /\ t.open = 0
             x == IF again THEN [t EXCEPT !.terminal = FALSE, !.awaiting = TRUE] ELSE t
             y == IF x.segments = 0 /\ o.kind # "init" THEN Invalid(x) ELSE x
             past == /\ y.terminal
                     /\ ~(o.kind = "init" /\ y.perms > 0)
                     /\ ~(o.kind = "forwarded" /\ y.open > 0)
             z == TraceInit(TraceTask(y, o), o, again)
             u == TraceStep(t, o)
             w == ViewStep(v, o)
  <1>0. /\ v.inited \in BOOLEAN /\ v.active \in SUBSET Tasks /\ v.seen \in SUBSET Tasks
        /\ v.perms \in Nat /\ v.open \in Nat /\ v.roots \in Nat /\ v.quiet \in BOOLEAN
    BY DEF View
  <1>1. Follows(v, o, w)
    BY StepFollows
  <1>2. u = (IF o.kind = "garbage" THEN Invalid(t) ELSE IF past THEN Invalid(y) ELSE TraceResult(z, o))
    BY DEF TraceStep
  <1>3. /\ x \in Trace /\ x.segments = t.segments /\ x.agents = t.agents /\ x.seen = t.seen
        /\ x.open = t.open /\ x.roots = t.roots /\ x.perms = t.perms /\ x.valid = t.valid
        /\ again => ~x.terminal /\ x.awaiting
        /\ ~again => x = t
    BY DEF Trace
  <1>4. \A r \in Trace : Invalid(r) \in Trace /\ ~Invalid(r).valid
    BY TraceFields
  <1>5. o.kind = "init" \/ v.inited => y = x
    BY <1>3 DEF TraceReads, Trace
  <1>6. \A r \in Trace : r.segments \in Nat /\ r.roots \in Nat /\ r.open \in Nat /\ r.perms \in Nat
                         /\ r.awaiting \in BOOLEAN /\ r.terminal \in BOOLEAN
    BY DEF Trace
  <1> HIDE DEF x
  <1>7. y \in Trace /\ (~v.inited /\ o.kind # "init" => ~y.valid)
    BY <1>3, <1>4, <1>6 DEF TraceReads
  <1> HIDE DEF y
  <1>8. CASE Fault(o)
    <2>1. CASE o.kind = "garbage"
      BY <1>2, <1>4, <1>8, <2>1
    <2>2. CASE o.kind # "garbage" /\ past
      BY <1>2, <1>4, <1>7, <1>8, <2>2
    <2>3. CASE o.kind # "garbage" /\ ~past
      <3>1. z = y
        BY <1>8, <2>3 DEF Fault, TraceTask, TraceInit
      <3>2. ~TraceResult(y, o).valid
        <4>1. CASE ~y.valid
          BY <4>1, <1>7, TraceResultType
        <4>2. CASE y.valid
          <5>1. v.inited /\ y = x
            BY <4>2, <1>5, <1>7, <1>8 DEF Fault
          <5>2. ~y.terminal
            BY <1>8, <2>3 DEF Fault
          <5>3. y.awaiting
            BY <5>1, <5>2, <1>3 DEF TraceReads
          <5>4. TraceResult(y, o) = [Invalid(y) EXCEPT !.terminal = FALSE]
            BY <5>3, <1>8, <2>3 DEF TraceResult, ResultKinds, Fault
          <5> QED BY <5>4, <1>7 DEF Invalid, Trace
        <4> QED BY <4>1, <4>2
      <3> QED BY <1>2, <1>8, <2>3, <3>1, <3>2
    <2> QED BY <2>1, <2>2, <2>3
  <1>9. CASE ~Fault(o)
    <2>0. o.kind # "garbage" /\ y = x
      BY <1>5, <1>9 DEF Fault, Legal
    <2>1. /\ again <=> v.quiet /\ v.roots < Turns /\ v.open = 0
          /\ v.quiet /\ v.roots < n => v.open = 0 /\ v.roots < Turns
      BY <1>0 DEF TraceReads, ViewOK
    <2>2. CASE o.kind = "init" /\ ~v.inited
      <3>1. ~again /\ x = t /\ t.segments = 0 /\ ~past
        BY <1>0, <1>3, <1>6, <2>0, <2>1, <2>2 DEF TraceReads, ViewOK
      <3>2. u = [t EXCEPT !.segments = 1, !.awaiting = TRUE, !.terminal = FALSE]
        BY <1>2, <2>0, <2>2, <3>1 DEF TraceResult, ResultKinds, TraceInit, TraceTask
      <3>3. /\ u.segments = 1 /\ u.agents = t.agents /\ u.seen = t.seen /\ u.open = t.open
            /\ u.roots = t.roots /\ u.perms = t.perms /\ u.valid /\ ~u.terminal /\ u.awaiting
        BY <3>2 DEF Trace
      <3>4. /\ w.inited /\ w.active = v.active /\ w.seen = v.seen /\ w.perms = v.perms
            /\ w.open = v.open /\ w.roots = v.roots /\ ~w.quiet
        BY <1>1, <1>9, <2>2 DEF Follows
      <3> QED BY <1>9, <3>3, <3>4 DEF TraceReads
    <2>3. CASE o.kind = "init" /\ v.inited /\ v.perms > 0
      <3> DEFINE i == t.segments + 1
                 j == IF t.perms > 0 THEN t.perms - 1 ELSE 0
                 k == t.open + 1
                 c == t.valid /\ t.perms > 0
      <3>1. ~again /\ x = t /\ t.segments > 0 /\ ~past /\ t.perms > 0 /\ ~v.quiet
        BY <1>0, <1>3, <1>6, <1>9, <2>0, <2>1, <2>3 DEF TraceReads, Legal
      <3>2. u = [t EXCEPT !.segments = i, !.valid = c, !.perms = j, !.open = k, !.terminal = FALSE]
        <4> HIDE DEF again, past
        <4>1. TraceTask(y, o) = t
          BY <2>0, <2>3, <3>1 DEF TraceTask
        <4>2. z = [t EXCEPT !.segments = i, !.valid = c, !.perms = j, !.open = k, !.terminal = FALSE]
          <5>1. o.kind = "init" /\ ~again /\ t.segments # 0
            BY <2>3, <3>1
          <5> QED BY <5>1, <4>1 DEF TraceInit
        <4>3. u = z
          BY <1>2, <2>0, <2>3, <3>1 DEF TraceResult, ResultKinds
        <4> QED BY <4>2, <4>3
      <3>6. c
        BY <3>1
      <3> HIDE DEF i, j, k, c
      <3>3. /\ u.segments = i /\ u.agents = t.agents /\ u.seen = t.seen /\ u.open = k
            /\ u.roots = t.roots /\ u.perms = j /\ u.valid /\ ~u.terminal
            /\ u.awaiting = t.awaiting
        BY <3>2, <3>6 DEF Trace
      <3>4. /\ w.inited /\ w.active = v.active /\ w.seen = v.seen /\ w.perms = v.perms - 1
            /\ w.open = v.open + 1 /\ w.roots = v.roots /\ ~w.quiet
        BY <1>1, <1>9, <2>3 DEF Follows
      <3>5. i > 0 /\ j >= v.perms - 1 /\ k = v.open + 1
        BY <1>0, <1>6 DEF i, j, k, TraceReads
      <3> QED BY <1>9, <2>3, <3>1, <3>3, <3>4, <3>5 DEF TraceReads
    <2>4. CASE o.kind = "init" /\ v.inited /\ v.perms = 0
      <3>1. again /\ ~past /\ ~x.terminal /\ x.awaiting
        BY <1>0, <1>3, <1>9, <2>0, <2>1, <2>4 DEF Legal
      <3>2. u = [x EXCEPT !.terminal = FALSE]
        BY <1>2, <2>0, <2>4, <3>1 DEF TraceResult, ResultKinds, TraceInit, TraceTask
      <3>3. /\ u.segments = x.segments /\ u.agents = x.agents /\ u.seen = x.seen /\ u.open = x.open
            /\ u.roots = x.roots /\ u.perms = x.perms /\ u.valid = x.valid /\ ~u.terminal
            /\ u.awaiting = x.awaiting
        BY <1>3, <3>2 DEF Trace
      <3>4. /\ w.inited /\ w.active = v.active /\ w.seen = v.seen /\ w.perms = v.perms
            /\ w.open = v.open /\ w.roots = v.roots /\ ~w.quiet
        BY <1>1, <1>9, <2>4 DEF Follows
      <3> QED BY <1>3, <1>9, <2>4, <3>1, <3>3, <3>4 DEF TraceReads
    \* Whatever else the CLI says, a turn is on after it, or a result has just been seen.
    <2>5. o.kind # "init" /\ o.kind # "forwarded" => v.inited /\ ~x.terminal /\ x.awaiting /\ ~past
      <3>1. ASSUME o.kind # "init", o.kind # "forwarded" PROVE v.inited /\ v.roots < n
        BY <1>0, <1>9, <3>1 DEF Legal
      <3> QED BY <1>0, <1>3, <2>0, <2>1, <3>1 DEF TraceReads
    <2>6. CASE o.kind = "started"
      <3> DEFINE a == x.agents \cup {o.task}
                 s == x.seen \cup {o.task}
      <3>1. o.task \notin x.seen
        BY <1>3, <1>9, <2>6 DEF TraceReads, Legal
      <3>2. u = [x EXCEPT !.seen = s, !.agents = a]
        BY <1>2, <2>0, <2>5, <2>6, <3>1 DEF TraceResult, ResultKinds, TraceInit, TraceTask
      <3> HIDE DEF a, s
      <3>3. /\ u.segments = x.segments /\ u.agents = a /\ u.seen = s /\ u.open = x.open
            /\ u.roots = x.roots /\ u.perms = x.perms /\ u.valid = x.valid
            /\ u.terminal = x.terminal /\ u.awaiting = x.awaiting
        BY <1>3, <3>2 DEF Trace
      <3>4. /\ w.inited = v.inited /\ w.active = v.active \cup {o.task}
            /\ w.seen = v.seen \cup {o.task} /\ w.perms = v.perms
            /\ w.open = v.open /\ w.roots = v.roots /\ ~w.quiet
        BY <1>1, <1>9, <2>6 DEF Follows
      <3> QED BY <1>3, <1>9, <2>5, <2>6, <3>3, <3>4 DEF TraceReads, a, s
    <2>7. CASE o.kind = "notified"
      <3> DEFINE a == x.agents \ {o.task}
                 i == IF o.ok THEN x.perms + 1 ELSE x.perms
      <3>1. o.task \in x.agents
        BY <1>3, <1>9, <2>7 DEF TraceReads, Legal
      <3>2. u = [x EXCEPT !.agents = a, !.perms = i]
        BY <1>2, <2>0, <2>5, <2>7, <3>1 DEF TraceResult, ResultKinds, TraceInit, TraceTask
      <3>5. i >= (IF o.ok THEN v.perms + 1 ELSE v.perms)
        BY <1>0, <1>3, <1>6 DEF TraceReads
      <3> HIDE DEF a, i
      <3>3. /\ u.segments = x.segments /\ u.agents = a /\ u.seen = x.seen /\ u.open = x.open
            /\ u.roots = x.roots /\ u.perms = i /\ u.valid = x.valid
            /\ u.terminal = x.terminal /\ u.awaiting = x.awaiting
        BY <1>3, <3>2 DEF Trace
      <3>4. /\ w.inited = v.inited /\ w.active = v.active \ {o.task} /\ w.seen = v.seen
            /\ w.perms = (IF o.ok THEN v.perms + 1 ELSE v.perms)
            /\ w.open = v.open /\ w.roots = v.roots /\ ~w.quiet
        BY <1>1, <1>9, <2>7 DEF Follows
      <3> QED BY <1>3, <1>9, <2>5, <2>7, <3>3, <3>4, <3>5 DEF TraceReads, a
    <2>8. CASE o.kind = "other"
      <3>1. u = x
        BY <1>2, <2>0, <2>5, <2>8 DEF TraceResult, ResultKinds, TraceInit, TraceTask
      <3>2. /\ w.inited = v.inited /\ w.active = v.active /\ w.seen = v.seen /\ w.perms = v.perms
            /\ w.open = v.open /\ w.roots = v.roots /\ ~w.quiet
        BY <1>1, <1>9, <2>8 DEF Follows
      <3> QED BY <1>3, <1>9, <2>5, <2>8, <3>1, <3>2 DEF TraceReads
    <2>9. CASE o.kind = "result"
      <3> DEFINE i == x.roots + 1
      <3>1. o.ok /\ x.segments > 0
        BY <1>3, <1>9, <2>5, <2>9 DEF Fault, TraceReads
      <3>2. u = [x EXCEPT !.awaiting = FALSE, !.roots = i, !.terminal = TRUE]
        BY <1>2, <2>0, <2>5, <2>9, <3>1 DEF TraceResult, ResultKinds, TraceInit, TraceTask
      <3> HIDE DEF i
      <3>3. /\ u.segments = x.segments /\ u.agents = x.agents /\ u.seen = x.seen /\ u.open = x.open
            /\ u.roots = i /\ u.perms = x.perms /\ u.valid = x.valid
            /\ u.terminal /\ ~u.awaiting
        BY <1>3, <3>2 DEF Trace
      <3>4. /\ w.inited = v.inited /\ w.active = v.active /\ w.seen = v.seen /\ w.perms = v.perms
            /\ w.open = v.open /\ w.roots = v.roots + 1 /\ w.quiet
        BY <1>1, <1>9, <2>9, <3>1 DEF Follows
      <3> QED BY <1>3, <1>9, <2>5, <2>9, <3>3, <3>4 DEF TraceReads, i
    <2>10. CASE o.kind = "forwarded"
      <3> DEFINE i == x.open - 1
      <3>1. o.ok /\ v.inited /\ v.open > 0 /\ v.roots = n /\ v.quiet
        BY <1>9, <2>10 DEF Legal, ViewOK, Fault
      <3>2. ~again /\ x = t /\ ~past /\ x.segments > 0 /\ x.open > 0
        BY <1>0, <1>3, <2>0, <2>1, <2>10, <3>1 DEF TraceReads
      <3>3. u = [x EXCEPT !.open = i, !.terminal = TRUE]
        BY <1>2, <1>6, <1>3, <2>0, <2>10, <3>1, <3>2
        DEF TraceResult, ResultKinds, TraceInit, TraceTask
      <3> HIDE DEF i
      <3>4. /\ u.segments = x.segments /\ u.agents = x.agents /\ u.seen = x.seen /\ u.open = i
            /\ u.roots = x.roots /\ u.perms = x.perms /\ u.valid = x.valid
            /\ u.terminal /\ u.awaiting = x.awaiting
        BY <1>3, <3>3 DEF Trace
      <3>5. /\ w.inited = v.inited /\ w.active = v.active /\ w.seen = v.seen /\ w.perms = v.perms
            /\ w.open = v.open - 1 /\ w.roots = v.roots /\ w.quiet
        BY <1>1, <1>9, <2>10, <3>1 DEF Follows
      <3> QED BY <1>3, <1>9, <2>10, <3>1, <3>2, <3>4, <3>5 DEF TraceReads, i
    <2> QED BY <1>0, <1>9, <2>2, <2>3, <2>4, <2>6, <2>7, <2>8, <2>9, <2>10 DEF Legal
  <1> QED BY <1>8, <1>9

-----------------------------------------------------------------------------
(* The stream, step by step *)

LEMMA InTurnIsSegmentsInTurn == InTurn => SegmentsInTurn
  BY DEF InTurn, SegmentsInTurn

LEMMA PipeObjects == TInv => Objects(pipe) /\ begun \in Nat /\ begun <= Turns /\ Len(pipe) \in Nat
  <1> SUFFICES ASSUME TInv PROVE Objects(pipe) /\ begun \in Nat /\ begun <= Turns /\ Len(pipe) \in Nat
    OBVIOUS
  <1>1. pipe \in Seq(Object) /\ \A i \in 1..Len(pipe) : Named(pipe[i])
    BY DEF TInv, TypeOK, PipeOK, Named
  <1> QED BY <1>1, TurnsAssumption DEF Objects, TInv, TypeOK

LEMMA StreamNext ==
    ASSUME NEW ws, Path(ws, pipe', begun', InTurn'), GateReads(gate', ws[1]),
           writer' # "begin" => GateAwaits(gate', ws[1], begun'),
           writer' = "begin" => /\ ~gate'.awaitingRoot /\ ~gate'.rootSeen
                                /\ Drained(ws[1], begun') /\ ws[1].perms = 0,
           InTurn' => TraceReads(trace', ws[1]),
           CliReads(cli', ws[Len(pipe') + 1], begun', InTurn')
    PROVE  Stream'
  <1>1. ws \in [1..Len(pipe') + 1 -> View]
    BY DEF Path
  <1> QED BY <1>1 DEF Stream, StreamOK, GateAt

LEMMA InitStream == Init => Stream /\ FailedAlike
  <1> SUFFICES ASSUME Init PROVE Stream /\ FailedAlike
    OBVIOUS
  <1> DEFINE v == [inited |-> FALSE, active |-> {}, seen |-> {}, perms |-> 0, open |-> 0,
                   roots |-> 0, quiet |-> FALSE]
             vs == [i \in 1..Len(pipe) + 1 |-> v]
  <1>1. Len(pipe) = 0 /\ begun = 0 /\ gate = NewGate /\ trace = NewTrace /\ cli = NewCli
        /\ writer = "begin"
    BY DEF Init
  <1>2. v \in View
    BY DEF View
  <1>3. ViewOK(v, 0, InTurn)
    BY DEF ViewOK
  <1>4. GateAt(v) /\ TraceReads(trace, v) /\ CliReads(cli, v, begun, InTurn)
    BY <1>1 DEF GateAt, GateReads, Drained, NewGate, TraceReads, NewTrace, CliReads, NewCli
  <1> HIDE DEF v
  <1>5. vs \in [1..Len(pipe) + 1 -> View] /\ 1 \in 1..Len(pipe) + 1
        /\ \A i \in 1..Len(pipe) + 1 : vs[i] = v
    BY <1>1, <1>2
  <1> HIDE DEF vs
  <1>6. Path(vs, pipe, begun, InTurn)
    BY <1>1, <1>3, <1>5 DEF Path
  <1>7. StreamOK(vs)
    BY <1>1, <1>4, <1>5, <1>6 DEF StreamOK
  <1>8. Stream
    BY <1>5, <1>7 DEF Stream
  <1>9. FailedAlike
    BY <1>1 DEF FailedAlike, NewGate, NewTrace
  <1> QED BY <1>8, <1>9

\* The copier takes the head of the pipe: gate and normalizer go on to the next view, or both
\* give up.
LEMMA ObserveStream == GateInv /\ Observe => Stream' /\ FailedAlike'
  <1> SUFFICES ASSUME GateInv, Observe PROVE Stream' /\ FailedAlike'
    OBVIOUS
  <1> DEFINE o == Head(pipe)
             h == Observed(gate, o)
  <1>0. /\ TInv /\ Objects(pipe) /\ begun \in Nat /\ begun <= Turns /\ Len(pipe) \in Nat
        /\ gate \in Gate /\ trace \in Trace /\ pipe # << >>
    BY PipeObjects DEF GateInv, TInv, TypeOK, Observe
  <1>1. /\ UNCHANGED <<writer, begun, cli, habits>> /\ pipe' = Tail(pipe)
        /\ trace' = TraceStep(trace, o)
    BY DEF Observe
  <1>2. o \in Object /\ Named(o) /\ o = pipe[1] /\ Len(pipe) > 0
    BY <1>0 DEF Objects
  <1>3. InTurn' = InTurn /\ SegmentsInTurn' = SegmentsInTurn /\ InTurn \in BOOLEAN
    BY <1>1 DEF InTurn, SegmentsInTurn
  <1>4. CASE gate.failed
    <2>1. gate'.failed
      BY <1>4 DEF Observe
    <2>2. InTurn => ~trace'.valid
      BY <1>0, <1>1, <1>2, <1>4, TraceStepType DEF GateInv, FailedAlike
    <2> QED BY <1>3, <2>1, <2>2 DEF Stream, FailedAlike
  <1>5. CASE ~gate.failed /\ ~SegmentsInTurn
    BY <1>3, <1>5, InTurnIsSegmentsInTurn DEF Stream, FailedAlike
  <1>6. CASE ~gate.failed /\ SegmentsInTurn
    <2>1. PICK vs \in [1..Len(pipe) + 1 -> View] : StreamOK(vs)
      BY <1>6 DEF GateInv, Stream
    <2> DEFINE v == vs[1]
               w == vs[2]
               ws == [i \in 1..Len(Tail(pipe)) + 1 |-> vs[i + 1]]
    <2>2. /\ v \in View /\ ViewOK(v, begun, InTurn) /\ Legal(v, o, begun, InTurn)
          /\ w = ViewStep(v, o) /\ GateAt(v) /\ (InTurn => TraceReads(trace, v))
          /\ CliReads(cli, vs[Len(pipe) + 1], begun, InTurn)
      <3>1. 1 \in 1..Len(pipe) /\ 1 \in 1..Len(pipe) + 1 /\ 1 + 1 = 2
        BY <1>0, <1>2
      <3>2. Path(vs, pipe, begun, InTurn)
        BY <2>1 DEF StreamOK
      <3> QED BY <1>2, <2>1, <3>1, <3>2 DEF StreamOK, Path
    <2>3. CASE Fault(o)
      <3>1. h.failed
        BY <1>0, <1>2, <2>3, FaultFails
      <3>2. gate'.failed
        BY <1>6, <3>1 DEF Observe
      <3>3. ASSUME InTurn PROVE ~trace'.valid
        <4>1. trace.valid
          BY <1>6, <3>3 DEF GateInv, FailedAlike
        <4>2. ViewOK(v, begun, TRUE) /\ Legal(v, o, begun, TRUE) /\ TraceReads(trace, v)
          BY <2>2, <3>3
        <4> QED BY <1>0, <1>1, <1>2, <2>2, <2>3, <4>1, <4>2, TraceFollows
      <3> QED BY <1>3, <3>2, <3>3 DEF Stream, FailedAlike
    <2>4. CASE ~Fault(o)
      <3>1. writer # "begin"
        BY <1>0, <1>2, <1>3, <2>2, <2>4, StepOK DEF GateAt
      <3>2. GateReads(gate, v) /\ GateAwaits(gate, v, begun)
        BY <2>2, <3>1 DEF GateAt
      <3>3. ~h.failed /\ GateReads(h, w) /\ GateAwaits(h, w, begun)
        BY <1>0, <1>2, <1>3, <1>6, <2>2, <2>4, <3>2, GateFollows
      <3>4. h \in Gate
        BY <1>0, <1>2, ObservedType
      <3>5. ~gate'.failed /\ GateReads(gate', w) /\ GateAwaits(gate', w, begun)
        <4> DEFINE settled == Settled(h)
        <4>1. gate' = [h EXCEPT !.readySignaled = settled]
          BY <1>6, <3>3 DEF Observe
        <4> HIDE DEF settled, h
        <4>2. /\ gate'.segments = h.segments /\ gate'.active = h.active /\ gate'.seen = h.seen
              /\ gate'.perms = h.perms /\ gate'.open = h.open /\ gate'.failed = h.failed
              /\ gate'.awaitingRoot = h.awaitingRoot /\ gate'.rootSeen = h.rootSeen
          BY <3>4, <4>1 DEF Gate
        <4> QED BY <3>3, <4>2 DEF GateReads, GateAwaits
      <3>6. ASSUME InTurn PROVE trace'.valid /\ TraceReads(trace', w)
        <4>1. trace.valid
          BY <1>6, <3>6 DEF GateInv, FailedAlike
        <4>2. ViewOK(v, begun, TRUE) /\ Legal(v, o, begun, TRUE) /\ TraceReads(trace, v)
          BY <2>2, <3>6
        <4> QED BY <1>0, <1>1, <1>2, <2>2, <2>4, <4>1, <4>2, TraceFollows
      <3>7. Path(ws, Tail(pipe), begun, InTurn)
        BY <1>0, <1>3, <2>1, PathTail DEF StreamOK
      <3>8. ws[1] = w /\ ws[Len(Tail(pipe)) + 1] = vs[Len(pipe) + 1]
        <4>1. Len(Tail(pipe)) = Len(pipe) - 1
          BY <1>0 DEF Objects
        <4>2. 1 \in 1..Len(Tail(pipe)) + 1 /\ Len(Tail(pipe)) + 1 \in 1..Len(Tail(pipe)) + 1
              /\ (Len(Tail(pipe)) + 1) + 1 = Len(pipe) + 1
          BY <1>0, <1>2, <4>1
        <4> QED BY <4>2
      <3> HIDE DEF ws, w
      <3>9. /\ GateReads(gate', ws[1]) /\ GateAwaits(gate', ws[1], begun')
            /\ writer' # "begin" /\ (InTurn' => TraceReads(trace', ws[1]))
        BY <1>1, <1>3, <3>1, <3>5, <3>6, <3>8
      <3>10. CliReads(cli', ws[Len(pipe') + 1], begun', InTurn')
        BY <1>1, <1>3, <2>2, <3>8
      <3>11. Stream'
        BY <1>1, <1>3, <3>7, <3>9, <3>10, StreamNext
      <3> QED BY <1>3, <3>5, <3>6, <3>11 DEF FailedAlike
    <2> QED BY <2>3, <2>4
  <1> QED BY <1>4, <1>5, <1>6

\* A step of the writer that neither begins a frame nor claims the gate.
LEMMA WriterKeepsStream ==
    ASSUME GateInv, UNCHANGED <<gate, begun, pipe, trace, habits>>,
           writer # "begin" \/ gate.failed, writer' # "begin",
           cli' = cli \/ cli' = [cli EXCEPT !.exited = TRUE]
    PROVE  Stream' /\ FailedAlike'
  <1>1. InTurn' = InTurn /\ SegmentsInTurn' = SegmentsInTurn
    BY DEF InTurn, SegmentsInTurn
  <1>2. FailedAlike'
    BY <1>1 DEF GateInv, FailedAlike
  <1>3. ASSUME SegmentsInTurn, ~gate.failed PROVE Stream'
    <2>1. PICK vs \in [1..Len(pipe) + 1 -> View] : StreamOK(vs)
      BY <1>3 DEF GateInv, Stream
    <2>2. CliReads(cli', vs[Len(pipe) + 1], begun, InTurn)
      <3>1. /\ cli'.turn = cli.turn /\ cli'.active = cli.active /\ cli'.started = cli.started
            /\ cli'.open = cli.open /\ cli'.roots = cli.roots /\ cli'.due = cli.due
            /\ cli'.working = cli.working
        BY DEF GateInv, TInv, TypeOK, Cli
      <3> QED BY <2>1, <3>1 DEF StreamOK, CliReads
    <2>3. /\ Path(vs, pipe', begun', InTurn') /\ GateReads(gate', vs[1])
          /\ GateAwaits(gate', vs[1], begun') /\ (InTurn' => TraceReads(trace', vs[1]))
      BY <1>1, <1>3, <2>1 DEF StreamOK, GateAt
    <2>4. CliReads(cli', vs[Len(pipe') + 1], begun', InTurn')
      BY <1>1, <2>2
    <2> QED BY <2>3, <2>4, StreamNext
  <1>4. ~SegmentsInTurn \/ gate.failed => Stream'
    BY <1>1 DEF Stream
  <1> QED BY <1>2, <1>3, <1>4

\* The end of the pipe, where the CLI is.
LEMMA LastView ==
    ASSUME TInv, NEW vs, StreamOK(vs)
    PROVE  /\ vs[1] \in View /\ vs[Len(pipe) + 1] \in View
           /\ ViewOK(vs[1], begun, InTurn) /\ ViewOK(vs[Len(pipe) + 1], begun, InTurn)
           /\ Drained(vs[1], begun) => vs[Len(pipe) + 1] = vs[1]
           /\ CliReads(cli, vs[Len(pipe) + 1], begun, InTurn)
  <1>1. 1 \in 1..Len(pipe) + 1 /\ Len(pipe) + 1 \in 1..Len(pipe) + 1 /\ 1 <= Len(pipe) + 1
    BY PipeObjects
  <1>2. Path(vs, pipe, begun, InTurn) /\ CliReads(cli, vs[Len(pipe) + 1], begun, InTurn)
    BY DEF StreamOK
  <1> QED BY <1>1, <1>2 DEF Path

LEMMA BeginStream == GateInv /\ BeginTurn => Stream' /\ FailedAlike'
  <1> SUFFICES ASSUME GateInv, BeginTurn PROVE Stream' /\ FailedAlike'
    OBVIOUS
  <1>0. TInv /\ Objects(pipe) /\ begun \in Nat /\ Len(pipe) \in Nat /\ gate \in Gate
    BY PipeObjects DEF GateInv, TInv, TypeOK
  <1>1. /\ writer = "begin" /\ ~gate.failed /\ begun' = begun + 1 /\ writer' = "writing"
        /\ UNCHANGED <<cli, pipe, trace, habits>>
        /\ gate' = [gate EXCEPT !.awaitingRoot = TRUE]
    BY DEF BeginTurn
  <1>2. /\ gate'.segments = gate.segments /\ gate'.active = gate.active /\ gate'.seen = gate.seen
        /\ gate'.perms = gate.perms /\ gate'.open = gate.open /\ gate'.failed = gate.failed
        /\ gate'.awaitingRoot /\ gate'.rootSeen = gate.rootSeen
    BY <1>0, <1>1 DEF Gate
  <1>3. InTurn' = InTurn /\ SegmentsInTurn' = SegmentsInTurn /\ InTurn \in BOOLEAN
    BY <1>1 DEF InTurn, SegmentsInTurn
  <1>4. FailedAlike'
    BY <1>1, <1>2, <1>3 DEF GateInv, FailedAlike
  <1>5. ASSUME SegmentsInTurn PROVE Stream'
    <2>1. PICK vs \in [1..Len(pipe) + 1 -> View] : StreamOK(vs)
      BY <1>1, <1>5 DEF GateInv, Stream
    <2> DEFINE last == vs[Len(pipe) + 1]
    <2>2. /\ Drained(vs[1], begun) /\ vs[1].perms = 0 /\ GateReads(gate, vs[1])
          /\ ~gate.rootSeen /\ Path(vs, pipe, begun, InTurn)
          /\ InTurn => TraceReads(trace, vs[1])
      BY <1>1, <2>1 DEF StreamOK, GateAt
    <2>3. last = vs[1] /\ CliReads(cli, last, begun, InTurn) /\ last \in View
      BY <1>0, <2>1, <2>2, LastView
    <2>4. Path(vs, pipe, begun + 1, InTurn)
      BY <1>0, <1>3, <2>2, PathBegin
    <2>5. GateReads(gate', vs[1]) /\ GateAwaits(gate', vs[1], begun + 1)
      BY <1>0, <1>2, <2>2 DEF GateReads, GateAwaits, Drained
    <2>6. CliReads(cli, last, begun + 1, InTurn)
      BY <1>0, <2>2, <2>3 DEF CliReads, Drained
    <2> QED BY <1>1, <1>3, <2>2, <2>4, <2>5, <2>6, StreamNext
  <1>6. ~SegmentsInTurn => Stream'
    BY <1>3 DEF Stream
  <1> QED BY <1>4, <1>5, <1>6

LEMMA ClaimStream == GateInv /\ ClaimReady => Stream' /\ FailedAlike'
  <1> SUFFICES ASSUME GateInv, ClaimReady PROVE Stream' /\ FailedAlike'
    OBVIOUS
  <1>0. TInv /\ Objects(pipe) /\ begun \in Nat /\ Len(pipe) \in Nat /\ gate \in Gate
    BY PipeObjects DEF GateInv, TInv, TypeOK
  <1>1. writer = "claiming" /\ UNCHANGED <<begun, cli, pipe, trace, habits>>
    BY DEF ClaimReady
  <1>2. CASE ~(~gate.failed /\ Settled(gate))
    BY <1>1, <1>2, WriterKeepsStream DEF ClaimReady
  <1>3. CASE ~gate.failed /\ Settled(gate)
    <2>0. /\ writer' = "begin"
          /\ gate' = [gate EXCEPT !.rootSeen = FALSE, !.readySignaled = FALSE, !.perms = 0]
      BY <1>3 DEF ClaimReady
    <2>1. /\ gate'.segments = gate.segments /\ gate'.active = gate.active /\ gate'.seen = gate.seen
          /\ gate'.perms = 0 /\ gate'.open = gate.open /\ gate'.failed = gate.failed
          /\ gate'.awaitingRoot = gate.awaitingRoot /\ ~gate'.rootSeen
      BY <1>0, <2>0 DEF Gate
    <2>2. InTurn' = InTurn /\ SegmentsInTurn' = SegmentsInTurn /\ InTurn \in BOOLEAN
      BY <1>1 DEF InTurn, SegmentsInTurn
    <2>3. FailedAlike'
      BY <1>1, <2>1, <2>2 DEF GateInv, FailedAlike
    <2>4. ASSUME SegmentsInTurn PROVE Stream'
      <3>1. PICK vs \in [1..Len(pipe) + 1 -> View] : StreamOK(vs)
        BY <1>3, <2>4 DEF GateInv, Stream
      <3> DEFINE v == vs[1]
                 w == [vs[1] EXCEPT !.perms = 0]
                 ws == [i \in 1..Len(pipe) + 1 |-> w]
      <3>2. /\ GateReads(gate, v) /\ GateAwaits(gate, v, begun)
            /\ Path(vs, pipe, begun, InTurn) /\ (InTurn => TraceReads(trace, v))
        BY <1>1, <3>1 DEF StreamOK, GateAt
      <3>3. v \in View /\ ViewOK(v, begun, InTurn)
        BY <1>0, <3>1, LastView
      <3>4. Drained(v, begun)
        BY <1>3, <3>2 DEF Settled, GateReads, GateAwaits, Drained
      <3>5. CliReads(cli, v, begun, InTurn)
        BY <1>0, <3>1, <3>4, LastView
      <3>6. Path(ws, pipe, begun, InTurn)
        <4>1. /\ Objects(pipe) /\ begun \in Nat /\ InTurn \in BOOLEAN
              /\ Path(vs, pipe, begun, InTurn) /\ Drained(vs[1], begun)
          BY <1>0, <2>2, <3>2, <3>4
        <4> QED BY <4>1, PathReset
      <3>7. ws[1] = w /\ ws[Len(pipe) + 1] = w
        <4>1. 1 \in 1..Len(pipe) + 1 /\ Len(pipe) + 1 \in 1..Len(pipe) + 1
          BY <1>0
        <4> QED BY <4>1
      <3>8. /\ w.inited = v.inited /\ w.active = v.active /\ w.seen = v.seen /\ w.perms = 0
            /\ w.open = v.open /\ w.roots = v.roots /\ w.quiet = v.quiet
        BY <3>3 DEF View
      <3>9. v.perms \in Nat /\ v.roots \in Nat
        BY <3>3 DEF View
      <3> HIDE DEF ws, w
      <3>10. GateReads(gate', w) /\ ~gate'.awaitingRoot /\ Drained(w, begun) /\ w.perms = 0
        BY <2>1, <3>2, <3>4, <3>8, <3>9, <1>0 DEF GateReads, GateAwaits, Drained
      <3>11. InTurn => TraceReads(trace, w)
        <4>1. trace.perms >= 0
          BY DEF GateInv, TInv, TypeOK, Trace
        <4> QED BY <3>2, <3>8, <4>1 DEF TraceReads
      <3>12. CliReads(cli, w, begun, InTurn)
        <4>1. ~cli.working
          BY <1>0, <3>4, <3>5 DEF CliReads, Drained, TInv, TypeOK, Cli, Frames
        <4> QED BY <3>5, <3>8, <4>1 DEF CliReads
      <3> QED BY <1>1, <2>0, <2>1, <2>2, <3>6, <3>7, <3>10, <3>11, <3>12, StreamNext
    <2>5. ~SegmentsInTurn => Stream'
      BY <2>2 DEF Stream
    <2> QED BY <2>3, <2>4, <2>5
  <1> QED BY <1>2, <1>3

LEMMA WriterStream == GateInv /\ (Writer \/ Timeout) => Stream' /\ FailedAlike'
  <1> SUFFICES ASSUME GateInv, Writer \/ Timeout PROVE Stream' /\ FailedAlike'
    OBVIOUS
  <1>1. CASE BeginRefused
    <2>1. CASE gate.failed
      BY <1>1, <2>1, WriterKeepsStream DEF BeginRefused, Stop, Return
    <2>2. CASE ~gate.failed /\ ~SegmentsInTurn
      <3>1. UNCHANGED <<gate, trace, habits>>
        BY <1>1 DEF BeginRefused, Stop
      <3> QED BY <2>2, <3>1, InTurnIsSegmentsInTurn
              DEF GateInv, Stream, FailedAlike, InTurn, SegmentsInTurn
    <2>3. CASE ~gate.failed /\ SegmentsInTurn
      <3>1. PICK vs \in [1..Len(pipe) + 1 -> View] : StreamOK(vs)
        BY <2>3 DEF GateInv, Stream
      <3> QED BY <1>1, <2>3, <3>1 DEF BeginRefused, StreamOK, GateAt
    <2> QED BY <2>1, <2>2, <2>3
  <1>2. CASE WriteFrame
    BY <1>2, WriterKeepsStream DEF WriteFrame
  <1>3. CASE WriteFails
    BY <1>3, WriterKeepsStream DEF WriteFails, Stop, Return
  <1>4. CASE ReceiveReady
    BY <1>4, WriterKeepsStream DEF ReceiveReady
  <1>5. CASE SeeFailure
    BY <1>5, WriterKeepsStream DEF SeeFailure, Stop, Return
  <1>6. CASE SeeExit
    BY <1>6, WriterKeepsStream DEF SeeExit, Return
  <1>7. CASE Timeout
    BY <1>7, WriterKeepsStream DEF Timeout, Stop, Return
  <1> QED BY <1>1, <1>2, <1>3, <1>4, <1>5, <1>6, <1>7, BeginStream, ClaimStream DEF Writer

\* The CLI says something legal and knows what it has said.
LEMMA EmitStream ==
    ASSUME GateInv, UNCHANGED broker, NEW vs, StreamOK(vs), NEW o \in Object, Named(o),
           pipe' = Append(pipe, o), Legal(vs[Len(pipe) + 1], o, begun, InTurn),
           CliReads(cli', ViewStep(vs[Len(pipe) + 1], o), begun, InTurn)
    PROVE  Stream'
  <1> DEFINE q == Append(pipe, o)
             new == ViewStep(vs[Len(pipe) + 1], o)
             ws == [i \in 1..Len(q) + 1 |-> IF i <= Len(pipe) + 1 THEN vs[i] ELSE new]
  <1>0. TInv /\ Objects(pipe) /\ begun \in Nat /\ Len(pipe) \in Nat
    BY PipeObjects DEF GateInv
  <1>1. InTurn' = InTurn /\ InTurn \in BOOLEAN /\ UNCHANGED <<gate, writer, begun, trace, habits>>
    BY DEF InTurn, broker
  <1>2. Path(vs, pipe, begun, InTurn) /\ GateAt(vs[1]) /\ (InTurn => TraceReads(trace, vs[1]))
    BY DEF StreamOK
  <1>3. Path(ws, q, begun, InTurn)
    BY <1>0, <1>1, <1>2, PathAppend
  <1>4. ws[1] = vs[1] /\ ws[Len(q) + 1] = new
    <2>1. Len(q) = Len(pipe) + 1
      BY <1>0 DEF Objects
    <2>2. /\ 1 \in 1..Len(q) + 1 /\ Len(q) + 1 \in 1..Len(q) + 1
          /\ 1 <= Len(pipe) + 1 /\ ~(Len(q) + 1 <= Len(pipe) + 1)
      BY <1>0, <2>1
    <2> HIDE DEF q, new
    <2> QED BY <2>2
  <1> HIDE DEF ws
  <1>5. CliReads(cli', new, begun, InTurn)
    OBVIOUS
  <1> HIDE DEF new
  <1>6. pipe' = q
    OBVIOUS
  <1> HIDE DEF q
  <1> QED BY <1>1, <1>2, <1>3, <1>4, <1>5, <1>6, StreamNext DEF GateAt

\* What the CLI knows, in numbers; it owes a turn only when a frame has been begun.
LEMMA CliFacts ==
    ASSUME TInv, NEW v \in View, ViewOK(v, begun, InTurn), CliReads(cli, v, begun, InTurn)
    PROVE  /\ v.inited \in BOOLEAN /\ v.active \in SUBSET Tasks /\ v.seen \in SUBSET Tasks
           /\ v.perms \in Nat /\ v.open \in Nat /\ v.roots \in Nat /\ v.quiet \in BOOLEAN
           /\ cli \in Cli /\ cli.turn \in Nat /\ cli.due \in Nat /\ cli.open \in Nat
           /\ cli.roots \in Nat /\ cli.working \in BOOLEAN /\ begun \in Nat /\ stdin \in Nat
           /\ cli.turn = cli.roots + (IF cli.working THEN 1 ELSE 0)
           /\ stdin + cli.turn <= begun
           /\ cli.working => v.roots < begun /\ v.inited /\ v.roots + 1 = begun
           /\ InTurn \in BOOLEAN
  <1>1. /\ v.inited \in BOOLEAN /\ v.active \in SUBSET Tasks /\ v.seen \in SUBSET Tasks
        /\ v.perms \in Nat /\ v.open \in Nat /\ v.roots \in Nat /\ v.quiet \in BOOLEAN
    BY DEF View
  <1>2. /\ cli \in Cli /\ cli.turn \in Nat /\ cli.due \in Nat /\ cli.open \in Nat
        /\ cli.roots \in Nat /\ cli.working \in BOOLEAN /\ begun \in Nat /\ stdin \in Nat
        /\ cli.turn = cli.roots + (IF cli.working THEN 1 ELSE 0)
        /\ stdin + cli.turn <= begun
    BY TurnsAssumption DEF TInv, TypeOK, Cli, Frames
  <1>3. cli.working => v.roots < begun /\ v.inited /\ v.roots + 1 = begun
    BY <1>1, <1>2 DEF CliReads, ViewOK
  <1> QED BY <1>1, <1>2, <1>3 DEF InTurn

LEMMA CliStream ==
    ASSUME GateInv, SegmentsInTurn, NEW vs, StreamOK(vs), UNCHANGED broker,
           \/ CliConsume \/ CliChat \/ CliStartTask \/ CliEndTask \/ CliOpenSegment
           \/ CliDropSegment \/ CliInnerResult \/ CliRootResult \/ CliCloseSegment
           \/ CliFault \/ CliExit \/ CliCrash
    PROVE  Stream'
  <1> DEFINE v == vs[Len(pipe) + 1]
  <1>0. TInv /\ v \in View /\ ViewOK(v, begun, InTurn) /\ CliReads(cli, v, begun, InTurn)
    BY LastView DEF GateInv
  <1>1. /\ v.inited \in BOOLEAN /\ v.active \in SUBSET Tasks /\ v.seen \in SUBSET Tasks
        /\ v.perms \in Nat /\ v.open \in Nat /\ v.roots \in Nat /\ v.quiet \in BOOLEAN
        /\ cli \in Cli /\ cli.turn \in Nat /\ cli.due \in Nat /\ cli.open \in Nat
        /\ cli.roots \in Nat /\ cli.working \in BOOLEAN /\ begun \in Nat /\ stdin \in Nat
        /\ cli.turn = cli.roots + (IF cli.working THEN 1 ELSE 0)
        /\ stdin + cli.turn <= begun
        /\ cli.working => v.roots < begun /\ v.inited /\ v.roots + 1 = begun
        /\ InTurn \in BOOLEAN
    BY <1>0, CliFacts
  <1>2. "late" \notin habits /\ "inner" \notin habits /\ (InTurn => "background" \notin habits)
    BY DEF SegmentsInTurn, InTurn
  <1>3. ASSUME UNCHANGED pipe, CliReads(cli', v, begun, InTurn) PROVE Stream'
    <2>1. InTurn' = InTurn /\ UNCHANGED <<gate, writer, begun, trace, habits>>
      BY DEF InTurn, broker
    <2>2. Path(vs, pipe, begun, InTurn) /\ GateAt(vs[1]) /\ (InTurn => TraceReads(trace, vs[1]))
      BY DEF StreamOK
    <2> QED BY <1>3, <2>1, <2>2, StreamNext DEF GateAt
  \* Of an object it remains to show that it is legal and that the CLI knows what follows.
  <1>4. ASSUME NEW o \in Object, Named(o), pipe' = Append(pipe, o), Legal(v, o, begun, InTurn),
               Follows(v, o, ViewStep(v, o)) => CliReads(cli', ViewStep(v, o), begun, InTurn)
        PROVE  Stream'
    <2>1. Follows(v, o, ViewStep(v, o))
      BY <1>0, <1>1, <1>4, StepFollows
    <2> QED BY <1>4, <2>1, EmitStream
  <1> HIDE DEF v
  <1>5. CASE CliConsume
    <2>1. /\ cli'.turn = cli.turn + 1 /\ cli'.working /\ cli'.active = cli.active
          /\ cli'.started = cli.started /\ cli'.due = cli.due /\ cli'.open = cli.open
          /\ cli'.roots = cli.roots
      <3>1. cli' = [cli EXCEPT !.turn = @ + 1, !.working = TRUE, !.chatted = FALSE]
        BY <1>5 DEF CliConsume, Quiet
      <3> QED BY <1>1, <3>1 DEF Cli
    <2>2. ~cli.working /\ stdin > 0 /\ cli.due = 0 /\ v.roots < begun /\ v.perms = 0 /\ v.open = 0
      BY <1>0, <1>1, <1>5 DEF CliConsume, CliReads
    <2>3. CASE UNCHANGED pipe /\ cli.turn > 0
      BY <1>0, <1>1, <1>3, <2>1, <2>2, <2>3 DEF CliReads
    <2>4. CASE pipe' = Append(pipe, Obj("init"))
      <3>1. Obj("init") \in Object /\ Named(Obj("init")) /\ Obj("init").kind = "init"
        BY ObjectTypes DEF Obj, Kinds
      <3>2. Legal(v, Obj("init"), begun, InTurn)
        BY <1>0, <1>1, <2>2, <3>1 DEF Legal, CliReads
      <3>3. ASSUME NEW x, Follows(v, Obj("init"), x) PROVE CliReads(cli', x, begun, InTurn)
        BY <1>0, <1>1, <2>1, <2>2, <3>1, <3>3 DEF Follows, Fault, CliReads
      <3> QED BY <1>4, <2>4, <3>1, <3>2, <3>3
    <2> QED BY <1>5, <2>3, <2>4 DEF CliConsume, Quiet
  <1>6. CASE CliChat
    <2>1. /\ pipe' = Append(pipe, Obj("other")) /\ cli' = [cli EXCEPT !.chatted = TRUE]
          /\ cli.working
      BY <1>6 DEF CliChat, Emit
    <2>2. /\ cli'.turn = cli.turn /\ cli'.working /\ cli'.active = cli.active
          /\ cli'.started = cli.started /\ cli'.due = cli.due /\ cli'.open = cli.open
          /\ cli'.roots = cli.roots
      BY <1>1, <2>1 DEF Cli
    <2>3. Obj("other") \in Object /\ Named(Obj("other")) /\ Obj("other").kind = "other"
      BY ObjectTypes DEF Obj, Kinds
    <2>4. Legal(v, Obj("other"), begun, InTurn)
      BY <1>1, <2>1, <2>3 DEF Legal
    <2>5. ASSUME NEW x, Follows(v, Obj("other"), x) PROVE CliReads(cli', x, begun, InTurn)
      BY <1>0, <1>1, <2>1, <2>2, <2>3, <2>5 DEF Follows, Fault, CliReads
    <2> QED BY <1>4, <2>1, <2>3, <2>4, <2>5
  <1>7. CASE CliStartTask
    <2>1. PICK t \in Tasks \ cli.started :
            Emit([kind |-> "started", task |-> t, ok |-> TRUE],
                 [cli EXCEPT !.started = @ \cup {t}, !.active = @ \cup {t}])
      BY <1>7 DEF CliStartTask
    <2> DEFINE o == [kind |-> "started", task |-> t, ok |-> TRUE]
    <2>2. /\ pipe' = Append(pipe, o) /\ cli.working
          /\ cli' = [cli EXCEPT !.started = @ \cup {t}, !.active = @ \cup {t}]
      BY <1>7, <2>1 DEF CliStartTask, Emit
    <2>3. /\ cli'.turn = cli.turn /\ cli'.working /\ cli'.active = cli.active \cup {t}
          /\ cli'.started = cli.started \cup {t} /\ cli'.due = cli.due /\ cli'.open = cli.open
          /\ cli'.roots = cli.roots
      BY <1>1, <2>2 DEF Cli
    <2>4. o \in Object /\ Named(o)
      BY ObjectTypes
    <2>5. o.kind = "started" /\ o.task = t
      OBVIOUS
    <2> HIDE DEF o
    <2>6. Legal(v, o, begun, InTurn)
      BY <1>0, <1>1, <2>2, <2>5 DEF Legal, CliReads
    <2>7. ASSUME NEW x, Follows(v, o, x) PROVE CliReads(cli', x, begun, InTurn)
      BY <1>0, <1>1, <2>2, <2>3, <2>5, <2>7 DEF Follows, Fault, CliReads
    <2> QED BY <1>4, <2>2, <2>4, <2>6, <2>7
  <1>8. CASE CliEndTask
    <2>1. PICK t \in cli.active, ok \in BOOLEAN :
            Emit([kind |-> "notified", task |-> t, ok |-> ok],
                 [cli EXCEPT !.active = @ \ {t},
                             !.due = IF ok /\ (cli.working \/ "late" \in habits) THEN @ + 1 ELSE @])
      BY <1>8 DEF CliEndTask
    <2> DEFINE o == [kind |-> "notified", task |-> t, ok |-> ok]
               n == IF ok /\ (cli.working \/ "late" \in habits) THEN cli.due + 1 ELSE cli.due
    <2>2. pipe' = Append(pipe, o) /\ cli' = [cli EXCEPT !.active = @ \ {t}, !.due = n]
      BY <2>1 DEF Emit
    <2>8. n = IF ok /\ cli.working THEN cli.due + 1 ELSE cli.due
      BY <1>2
    <2> HIDE DEF n
    <2>3. /\ cli'.turn = cli.turn /\ cli'.working = cli.working /\ cli'.active = cli.active \ {t}
          /\ cli'.started = cli.started /\ cli'.due = n /\ cli'.open = cli.open
          /\ cli'.roots = cli.roots
      BY <1>1, <2>2 DEF Cli
    <2>4. o \in Object /\ Named(o)
      BY <1>0, <1>1, ObjectTypes DEF CliReads
    <2>5. o.kind = "notified" /\ o.task = t /\ o.ok = ok
      OBVIOUS
    <2> HIDE DEF o
    <2>6. Legal(v, o, begun, InTurn)
      <3>1. v.inited
        BY <1>0, <1>1 DEF CliReads, ViewOK
      <3> QED BY <1>0, <1>1, <2>5, <3>1 DEF Legal, CliReads
    <2>7. ASSUME NEW x, Follows(v, o, x) PROVE CliReads(cli', x, begun, InTurn)
      <3>1. /\ x.inited = v.inited /\ x.active = v.active \ {t} /\ x.seen = v.seen
            /\ x.perms = (IF ok THEN v.perms + 1 ELSE v.perms)
            /\ x.open = v.open /\ x.roots = v.roots /\ ~x.quiet
        BY <2>5, <2>7 DEF Follows, Fault
      <3>2. InTurn => cli.working
        BY <1>0 DEF CliReads
      <3>3. ~cli.working => ~(v.roots < begun)
        BY <1>0 DEF CliReads
      <3> QED BY <1>0, <1>1, <2>1, <2>3, <2>8, <3>1, <3>2, <3>3 DEF CliReads
    <2> QED BY <1>4, <2>2, <2>4, <2>6, <2>7
  <1>9. CASE CliOpenSegment
    <2>1. /\ pipe' = Append(pipe, Obj("init")) /\ cli.working /\ cli.due > 0
          /\ cli' = [cli EXCEPT !.due = @ - 1, !.open = @ + 1]
      BY <1>2, <1>9 DEF CliOpenSegment, Emit
    <2>2. /\ cli'.turn = cli.turn /\ cli'.working /\ cli'.active = cli.active
          /\ cli'.started = cli.started /\ cli'.due = cli.due - 1 /\ cli'.open = cli.open + 1
          /\ cli'.roots = cli.roots
      BY <1>1, <2>1 DEF Cli
    <2>3. Obj("init") \in Object /\ Named(Obj("init")) /\ Obj("init").kind = "init"
      BY ObjectTypes DEF Obj, Kinds
    <2>4. Legal(v, Obj("init"), begun, InTurn) /\ v.perms > 0 /\ v.inited
      BY <1>0, <1>1, <2>1, <2>3 DEF Legal, CliReads
    <2>5. ASSUME NEW x, Follows(v, Obj("init"), x) PROVE CliReads(cli', x, begun, InTurn)
      <3>1. /\ x.inited /\ x.active = v.active /\ x.seen = v.seen /\ x.perms = v.perms - 1
            /\ x.open = v.open + 1 /\ x.roots = v.roots /\ ~x.quiet
        <4>1. ~Fault(Obj("init")) /\ v.perms # 0
          BY <1>1, <2>3, <2>4 DEF Fault
        <4> QED BY <2>3, <2>4, <2>5, <4>1 DEF Follows
      <3> QED BY <1>0, <1>1, <2>1, <2>2, <2>4, <3>1 DEF CliReads
    <2> QED BY <1>4, <2>1, <2>3, <2>4, <2>5
  <1>10. CASE CliDropSegment
    <2>1. UNCHANGED pipe /\ cli.due > 0 /\ cli' = [cli EXCEPT !.due = @ - 1]
      BY <1>10 DEF CliDropSegment, Quiet
    <2>2. /\ cli'.turn = cli.turn /\ cli'.working = cli.working /\ cli'.active = cli.active
          /\ cli'.started = cli.started /\ cli'.due = cli.due - 1 /\ cli'.open = cli.open
          /\ cli'.roots = cli.roots
      BY <1>1, <2>1 DEF Cli
    <2> QED BY <1>0, <1>1, <1>3, <2>1, <2>2 DEF CliReads
  <1>11. CASE CliInnerResult
    BY <1>2, <1>11 DEF CliInnerResult
  <1>12. CASE CliRootResult
    <2>1. /\ pipe' = Append(pipe, Obj("result")) /\ cli.working /\ cli.due = 0
          /\ InTurn => cli.active = {}
          /\ cli' = [cli EXCEPT !.working = FALSE, !.roots = @ + 1]
      BY <1>2, <1>12 DEF CliRootResult, Emit
    <2>2. /\ cli'.turn = cli.turn /\ ~cli'.working /\ cli'.active = cli.active
          /\ cli'.started = cli.started /\ cli'.due = cli.due /\ cli'.open = cli.open
          /\ cli'.roots = cli.roots + 1
      BY <1>1, <2>1 DEF Cli
    <2>3. /\ Obj("result") \in Object /\ Named(Obj("result")) /\ Obj("result").kind = "result"
          /\ Obj("result").ok
      BY ObjectTypes DEF Obj, Kinds
    <2>4. Legal(v, Obj("result"), begun, InTurn)
      BY <1>1, <2>1, <2>3 DEF Legal
    <2>5. ASSUME NEW x, Follows(v, Obj("result"), x) PROVE CliReads(cli', x, begun, InTurn)
      BY <1>0, <1>1, <2>1, <2>2, <2>3, <2>5 DEF Follows, Fault, CliReads
    <2> QED BY <1>4, <2>1, <2>3, <2>4, <2>5
  <1>13. CASE CliCloseSegment
    <2>1. /\ pipe' = Append(pipe, Obj("forwarded")) /\ ~cli.working /\ cli.open > 0
          /\ cli' = [cli EXCEPT !.open = @ - 1]
      BY <1>2, <1>13 DEF CliCloseSegment, Emit
    <2>2. /\ cli'.turn = cli.turn /\ ~cli'.working /\ cli'.active = cli.active
          /\ cli'.started = cli.started /\ cli'.due = cli.due /\ cli'.open = cli.open - 1
          /\ cli'.roots = cli.roots
      BY <1>1, <2>1 DEF Cli
    <2>3. /\ Obj("forwarded") \in Object /\ Named(Obj("forwarded"))
          /\ Obj("forwarded").kind = "forwarded" /\ Obj("forwarded").ok
      BY ObjectTypes DEF Obj, Kinds
    <2>4. v.roots = begun /\ v.inited
      BY <1>0, <1>1, <2>1 DEF CliReads, ViewOK
    <2>5. Legal(v, Obj("forwarded"), begun, InTurn)
      BY <1>0, <1>1, <2>1, <2>3, <2>4 DEF Legal, CliReads
    <2>6. ASSUME NEW x, Follows(v, Obj("forwarded"), x) PROVE CliReads(cli', x, begun, InTurn)
      <3>1. /\ x.inited /\ x.active = v.active /\ x.seen = v.seen /\ x.perms = v.perms
            /\ x.open = v.open - 1 /\ x.roots = v.roots /\ x.quiet
        BY <2>3, <2>4, <2>6 DEF Follows, Fault
      <3> QED BY <1>0, <1>1, <2>1, <2>2, <2>4, <3>1 DEF CliReads
    <2> QED BY <1>4, <2>1, <2>3, <2>5, <2>6
  <1>14. CASE CliFault
    <2>1. PICK o \in {[Obj("result") EXCEPT !.ok = FALSE], Obj("stray"), Obj("garbage")} :
            Emit(o, [cli EXCEPT !.sound = FALSE])
      BY <1>14 DEF CliFault
    <2>2. o \in Object /\ Named(o) /\ Fault(o)
      <3>1. CASE o = [Obj("result") EXCEPT !.ok = FALSE]
        BY <3>1, ObjectTypes DEF Fault, Obj
      <3>2. CASE o = Obj("stray")
        BY <3>2, ObjectTypes DEF Kinds, Fault, Obj
      <3>3. CASE o = Obj("garbage")
        BY <3>3, ObjectTypes DEF Kinds, Fault, Obj
      <3> QED BY <2>1, <3>1, <3>2, <3>3
    <2>3. pipe' = Append(pipe, o) /\ cli' = [cli EXCEPT !.sound = FALSE]
      BY <2>1 DEF Emit
    <2>4. /\ cli'.turn = cli.turn /\ cli'.working = cli.working /\ cli'.active = cli.active
          /\ cli'.started = cli.started /\ cli'.due = cli.due /\ cli'.open = cli.open
          /\ cli'.roots = cli.roots
      BY <1>1, <2>3 DEF Cli
    <2>5. Legal(v, o, begun, InTurn)
      BY <2>2 DEF Legal
    <2>6. ViewStep(v, o) = v
      BY <2>2 DEF ViewStep, Fault
    <2>7. CliReads(cli', v, begun, InTurn)
      BY <1>0, <2>4 DEF CliReads
    <2> QED BY <1>4, <2>2, <2>3, <2>5, <2>6, <2>7
  <1>15. CASE CliExit \/ CliCrash
    <2>1. /\ UNCHANGED pipe
          /\ \/ cli' = [cli EXCEPT !.exited = TRUE]
             \/ cli' = [cli EXCEPT !.exited = TRUE, !.sound = FALSE]
      BY <1>15 DEF CliExit, CliCrash, Quiet
    <2>2. /\ cli'.turn = cli.turn /\ cli'.working = cli.working /\ cli'.active = cli.active
          /\ cli'.started = cli.started /\ cli'.due = cli.due /\ cli'.open = cli.open
          /\ cli'.roots = cli.roots
      BY <1>1, <2>1 DEF Cli
    <2>3. CliReads(cli', v, begun, InTurn)
      BY <1>0, <2>2 DEF CliReads
    <2> QED BY <1>3, <2>1, <2>3
  <1> QED BY <1>5, <1>6, <1>7, <1>8, <1>9, <1>10, <1>11, <1>12, <1>13, <1>14, <1>15

-----------------------------------------------------------------------------
(* Theorems *)

LEMMA NextGateInv == GateInv /\ [Next]_vars => GateInv'
  <1> SUFFICES ASSUME GateInv, [Next]_vars PROVE GateInv'
    OBVIOUS
  <1>1. TInv'
    BY NextTInv DEF GateInv
  <1>2. CASE Observe
    BY <1>1, <1>2, ObserveStream DEF GateInv
  <1>3. CASE Writer \/ Timeout
    BY <1>1, <1>3, WriterStream DEF GateInv
  <1>4. CASE CliConsume \/ CliChat \/ CliStartTask \/ CliEndTask \/ CliOpenSegment
             \/ CliDropSegment \/ CliInnerResult \/ CliRootResult \/ CliCloseSegment
             \/ CliFault \/ CliExit \/ CliCrash
    <2>1. UNCHANGED broker
      BY <1>4 DEF CliConsume, CliChat, CliStartTask, CliEndTask, CliOpenSegment, CliDropSegment,
                  CliInnerResult, CliRootResult, CliCloseSegment, CliFault, CliExit, CliCrash,
                  Emit, Quiet
    <2>2. InTurn' = InTurn /\ SegmentsInTurn' = SegmentsInTurn /\ UNCHANGED <<gate, trace>>
      BY <2>1 DEF broker, InTurn, SegmentsInTurn
    <2>3. FailedAlike'
      BY <2>2 DEF GateInv, FailedAlike
    <2>4. CASE SegmentsInTurn /\ ~gate.failed
      <3>1. PICK vs \in [1..Len(pipe) + 1 -> View] : StreamOK(vs)
        BY <2>4 DEF GateInv, Stream
      <3>2. Stream'
        BY <1>4, <2>1, <2>4, <3>1, CliStream
      <3> QED BY <1>1, <2>3, <3>2 DEF GateInv
    <2>5. CASE ~(SegmentsInTurn /\ ~gate.failed)
      BY <1>1, <2>2, <2>3, <2>5 DEF GateInv, Stream
    <2> QED BY <2>4, <2>5
  <1>5. CASE UNCHANGED vars
    <2>1. InTurn' = InTurn /\ SegmentsInTurn' = SegmentsInTurn
      BY <1>5 DEF vars, InTurn, SegmentsInTurn
    <2>2. FailedAlike'
      BY <1>5, <2>1 DEF vars, GateInv, FailedAlike
    <2>3. ASSUME SegmentsInTurn, ~gate.failed PROVE Stream'
      <3>1. PICK vs \in [1..Len(pipe) + 1 -> View] : StreamOK(vs)
        BY <2>3 DEF GateInv, Stream
      <3> QED BY <1>5, <2>1, <3>1, StreamNext DEF vars, StreamOK, GateAt
    <2>4. ~SegmentsInTurn \/ gate.failed => Stream'
      BY <1>5, <2>1 DEF vars, Stream
    <2> QED BY <1>1, <2>2, <2>3, <2>4 DEF GateInv
  <1> QED BY <1>2, <1>3, <1>4, <1>5 DEF Next, CliWork, Finished

\* Gate, normalizer and CLI are states of one story, told by the objects between them: what the
\* copier has read so far leads, object by object, to what the CLI has written so far.
THEOREM GateInvHolds == Spec => []GateInv
  <1>1. Init => GateInv
    BY InitTInv, InitStream DEF GateInv
  <1> QED BY <1>1, NextGateInv, PTL DEF Spec

\* The first view, where gate and normalizer are, and the last, where the CLI is, are one when
\* the pipe is empty.
LEMMA JudgedAlikeFollows == GateInv => JudgedAlike
  <1> SUFFICES ASSUME GateInv PROVE JudgedAlike
    OBVIOUS
  <1>0. TInv /\ TypeOK
    BY DEF GateInv, TInv
  <1>1. ASSUME InTurn, ~gate.failed
        PROVE  \E vs \in [1..Len(pipe) + 1 -> View] : StreamOK(vs)
    BY <1>1, InTurnIsSegmentsInTurn DEF GateInv, Stream
  <1>2. GateAgreesWithTrace
    <2> SUFFICES ASSUME InTurn, ~gate.failed
                 PROVE  /\ gate.active = trace.agents
                        /\ gate.seen = trace.seen
                        /\ gate.open = trace.open
      BY DEF GateAgreesWithTrace
    <2>1. PICK vs \in [1..Len(pipe) + 1 -> View] : StreamOK(vs)
      BY <1>1
    <2> QED BY <2>1 DEF StreamOK, GateAt, GateReads, TraceReads
  \* With an empty pipe the trace shows what the CLI has done.
  <1>3. ASSUME InTurn, ~gate.failed, pipe = << >>
        PROVE  /\ trace.valid /\ (trace.segments > 0 <=> cli.turn > 0)
               /\ trace.roots = cli.roots /\ trace.open = cli.open
               /\ ~cli.working /\ cli.turn > 0 => trace.terminal
    <2>1. PICK vs \in [1..Len(pipe) + 1 -> View] : StreamOK(vs)
      BY <1>1, <1>3
    <2>2. Len(pipe) + 1 = 1
      BY <1>3
    <2>3. TraceReads(trace, vs[1]) /\ CliReads(cli, vs[1], begun, InTurn)
      BY <1>3, <2>1, <2>2 DEF StreamOK
    <2>4. trace.valid
      BY <1>3 DEF GateInv, FailedAlike
    <2> QED BY <1>3, <2>3, <2>4 DEF TraceReads, CliReads
  <1>4. AcceptedInTurn
    <2> SUFFICES ASSUME InTurn, writer = "finished", rc = 0, cli.sound, ~gate.failed, pipe = << >>
                 PROVE  TraceComplete(trace, rc)
      BY DEF AcceptedInTurn, AcceptedIsComplete
    <2>1. Ended
      BY <1>0 DEF TInv, Exits
    <2>2. cli.roots = Turns /\ cli.turn > 0 /\ cli.open = 0 /\ ~cli.working
      BY <1>0, <2>1, TurnsAssumption DEF TInv, TypeOK, Cli, Frames, Ended
    <2> QED BY <1>3, <2>2 DEF TraceComplete
  <1>5. CompleteMeansAnswered
    <2> SUFFICES ASSUME InTurn, pipe = << >>, TraceComplete(trace, rc)
                 PROVE  cli.roots = Turns /\ cli.open = 0 /\ ~gate.failed
      BY DEF CompleteMeansAnswered
    <2>1. ~gate.failed
      BY DEF GateInv, FailedAlike, TraceComplete
    <2> QED BY <1>3, <2>1 DEF TraceComplete
  <1> QED BY <1>0, <1>2, <1>4, <1>5 DEF JudgedAlike

\* Gate, normalizer and CLI tell the same story of every run: the gate and normalizeTraceTurns
\* agree on agents and segments, what the gate let through to a clean exit is complete for the
\* normalizer, and what is complete the CLI has answered.
THEOREM GateJudgesAlike == Spec => []JudgedAlike
  BY GateInvHolds, JudgedAlikeFollows, PTL

LEMMA FramesAreDueStep ==
    ASSUME GateInv, [Next]_vars
    PROVE  /\ InTurn /\ begun' # begun => trace.valid
           /\ SegmentsInTurn /\ begun' = begun + 1 /\ begun > 0
                => cli.roots = begun /\ cli.active = {} /\ cli.open = 0
  <1>1. begun' # begun => BeginTurn
    BY DEF Next, Observe, Writer, BeginRefused, WriteFrame, WriteFails, ReceiveReady, ClaimReady,
           SeeFailure, SeeExit, Timeout, Stop, Return, CliWork, CliConsume, CliChat, CliStartTask,
           CliEndTask, CliOpenSegment, CliDropSegment, CliInnerResult, CliRootResult,
           CliCloseSegment, CliFault, CliExit, CliCrash, Emit, Quiet, Finished, broker, vars
  <1>2. begun \in Nat
    BY PipeObjects DEF GateInv
  <1>3. ASSUME InTurn, begun' # begun PROVE trace.valid
    BY <1>1, <1>3 DEF BeginTurn, GateInv, FailedAlike
  <1>4. ASSUME SegmentsInTurn, begun' = begun + 1
        PROVE  cli.roots = begun /\ cli.active = {} /\ cli.open = 0
    <2>1. BeginTurn
      BY <1>1, <1>2, <1>4
    <2>2. PICK vs \in [1..Len(pipe) + 1 -> View] : StreamOK(vs)
      BY <1>4, <2>1 DEF GateInv, Stream, BeginTurn
    <2>3. Drained(vs[1], begun)
      BY <2>1, <2>2 DEF BeginTurn, StreamOK, GateAt
    <2>4. CliReads(cli, vs[1], begun, InTurn)
      BY <2>2, <2>3, LastView DEF GateInv
    <2> QED BY <2>3, <2>4 DEF CliReads, Drained
  <1> QED BY <1>3, <1>4

\* No frame is begun on a stream the normalizer rejects, nor while the CLI has not answered a
\* frame before it or has an agent or a segment unfinished, whatever is still in the pipe and
\* however old the token is that the writer received.
THEOREM GateFramesAreDue == Spec => FramesAreDue
  <1>1. GateInv /\ [Next]_vars =>
          /\ [InTurn /\ begun' # begun => trace.valid]_vars
          /\ [SegmentsInTurn /\ begun' = begun + 1 /\ begun > 0
                => cli.roots = begun /\ cli.active = {} /\ cli.open = 0]_vars
    BY FramesAreDueStep
  <1> QED BY <1>1, GateInvHolds, PTL DEF Spec, FramesAreDue, FrameOnValidTrace, FrameAfterDrain

-----------------------------------------------------------------------------
(* The composition: what is proved of a part, for the part that runs *)

Transport == INSTANCE TransportProofs WITH Turns <- AppTurns, trace <- appTrace

harnessVars == <<part, vars, codexVars, tunnelVars>>

-----------------------------------------------------------------------------
(* The Codex client: App and Transport have the same definitions of it       *)

LEMMA CodexInitIs == App!AppInit => Transport!AppInit
  BY DEF App!AppInit, App!NoResult, App!NoFrame, App!Frame, Transport!AppInit, Transport!NoResult,
         Transport!NoFrame, Transport!Frame

LEMMA CodexClientIs == App!Client => Transport!Client
  BY DEF App!Frame, App!NoFrame, App!Notifications, App!Answers, App!LastRequest, App!Handshake,
         App!Client, App!AppSend, App!AppNotify, App!AppRefuse, App!AppWriteFails,
         App!AppReceive, App!AppClosed, App!AppDeadline, App!AppStop, App!AppKill,
         App!AppReturn, App!WriteFrame, App!BrokenPipe, App!Finish, App!Await, App!InTurn,
         App!TurnOver, App!MoreTurns, App!Kept, Transport!Frame, Transport!NoFrame,
         Transport!Notifications, Transport!Answers, Transport!LastRequest, Transport!Handshake,
         Transport!Client, Transport!AppSend, Transport!AppNotify, Transport!AppRefuse,
         Transport!AppWriteFails, Transport!AppReceive, Transport!AppClosed, Transport!AppDeadline,
         Transport!AppStop, Transport!AppKill, Transport!AppReturn, Transport!WriteFrame, Transport!BrokenPipe,
         Transport!Finish, Transport!Await, Transport!InTurn, Transport!TurnOver, Transport!MoreTurns,
         Transport!Kept

LEMMA CodexGoroutinesIs == App!Goroutines => Transport!Goroutines
  BY DEF App!Frame, App!NoFrame, App!Goroutines, App!ScanLine, App!ScanEnd, App!ScanCancelled,
         App!ReapStart, App!Reap, App!Cancelled, App!PipeClosed, App!Drained, Transport!Frame,
         Transport!NoFrame, Transport!Goroutines, Transport!ScanLine, Transport!ScanEnd,
         Transport!ScanCancelled, Transport!ReapStart, Transport!Reap, Transport!Cancelled,
         Transport!PipeClosed, Transport!Drained

LEMMA CodexServerIs == App!Server => Transport!Server
  BY DEF App!Frame, App!NoFrame, App!Notifications, App!Answers, App!LastRequest, App!Handshake,
         App!Server, App!ServerTake, App!ServerAnswer, App!ServerMisanswers, App!ServerExtra,
         App!ServerEndsTurn, App!ServerExit, App!Emit, Transport!Frame, Transport!NoFrame,
         Transport!Notifications, Transport!Answers, Transport!LastRequest, Transport!Handshake,
         Transport!Server, Transport!ServerTake, Transport!ServerAnswer, Transport!ServerMisanswers,
         Transport!ServerExtra, Transport!ServerEndsTurn, Transport!ServerExit, Transport!Emit

LEMMA CodexNextIs == App!AppNext => Transport!AppNext
  BY CodexClientIs, CodexGoroutinesIs, CodexServerIs
  DEF App!AppNext, App!DeadlinePasses, App!AppDone, App!appVars, Transport!AppNext,
      Transport!DeadlinePasses, Transport!AppDone, Transport!appVars

LEMMA CodexPropertiesAre ==
    ASSUME Transport!AppInv
    PROVE  /\ App!AppTypeOK /\ App!DoneMeansAllCompleted /\ App!TraceHasNoGaps
           /\ App!ClosedMeansUnfinished /\ App!OneTurnAtATime /\ App!NothingRunsOn
  <1>1. Transport!DoneMeansAllCompleted /\ Transport!ClosedMeansUnfinished /\ Transport!OneTurnAtATime
    BY Transport!AppInvSays
  <1>2. Transport!AppTypeOK /\ Transport!TraceHasNoGaps /\ Transport!NothingRunsOn
    BY Transport!AppInvSays
  <1>3. App!AppTypeOK
    BY <1>2 DEF App!AppTypeOK, App!Notifications, App!LastRequest, App!Handshake, Transport!AppTypeOK,
        Transport!Notifications, Transport!LastRequest, Transport!Handshake
  <1>4. App!TraceHasNoGaps
    BY <1>2 DEF App!TraceHasNoGaps, App!IsPrefix, Transport!TraceHasNoGaps, Transport!IsPrefix
  <1> QED
    BY <1>1, <1>2, <1>3, <1>4
    DEF App!DoneMeansAllCompleted, App!ClosedMeansUnfinished, App!OneTurnAtATime,
        App!NothingRunsOn, Transport!DoneMeansAllCompleted, Transport!ClosedMeansUnfinished,
        Transport!OneTurnAtATime, Transport!NothingRunsOn

CodexInv == part = "codex" => Transport!AppInv

\* The Codex client's run has the outcome its server gave it, for any number of turns and any
\* size of the pipes; its trace has no gap, and when it has returned nothing of it runs on
\* (runCodexAppServer).
THEOREM CodexOutcomeHolds == MCSpec => []CodexOutcome
  <1>1. Transport!AppConstants
    BY AppFits DEF App!AppConstants, Transport!AppConstants
  <1>2. MCInit => CodexInv
    BY <1>1, CodexInitIs, Transport!InitAppInv DEF MCInit, CodexInv
  <1>3. CodexInv /\ [MCNext]_harnessVars => CodexInv'
    <2> SUFFICES ASSUME CodexInv, [MCNext]_harnessVars, part' = "codex"
                 PROVE  Transport!AppInv'
      BY DEF CodexInv
    <2>1. part = "codex" /\ Transport!AppInv
      BY DEF CodexInv, MCNext, ClaudeStep, CodexStep, TunnelStep, harnessVars
    <2>2. CASE App!AppNext
      BY <1>1, <2>1, <2>2, CodexNextIs, Transport!NextAppInv
    <2>3. CASE UNCHANGED harnessVars
      <3>1. UNCHANGED Transport!appVars
        BY <2>3 DEF harnessVars, codexVars, Transport!appVars
      <3> QED BY <1>1, <2>1, <3>1, Transport!NextAppInv
    <2> QED BY <2>1, <2>2, <2>3 DEF MCNext, ClaudeStep, CodexStep, TunnelStep
  <1>4. CodexInv => CodexOutcome
    BY CodexPropertiesAre DEF CodexInv, CodexOutcome
  <1> QED BY <1>2, <1>3, <1>4, PTL DEF MCSpec, harnessVars

-----------------------------------------------------------------------------
(* The tunnel: Tunnel and Transport have the same definitions of it           *)

LEMMA TunnelInitIs ==
    Tunnel!TunnelInit => Transport!TunnelInit
  BY DEF Tunnel!TunnelInit, Tunnel!Links, Tunnel!Copiers, Tunnel!Unasked, Transport!TunnelInit,
         Transport!Links, Transport!Copiers, Transport!Unasked

LEMMA TunnelCopiersAre ==
    (\E c \in Tunnel!Copiers : Tunnel!Copier(c)) => \E c \in Transport!Copiers : Transport!Copier(c)
  BY DEF Tunnel!Copiers, Tunnel!Copier, Tunnel!CopierReads, Tunnel!CopierWrites,
         Tunnel!CopierCloses, Tunnel!ClientOf, Tunnel!Upstream, Tunnel!Send, Tunnel!Receive,
         Tunnel!HasRoom, Tunnel!LinkDrained, Tunnel!Goes, Tunnel!Source, Tunnel!Sink,
         Tunnel!AheadEnd, Transport!Copiers, Transport!Copier, Transport!CopierReads,
         Transport!CopierWrites, Transport!CopierCloses, Transport!ClientOf, Transport!Upstream,
         Transport!Send, Transport!Receive, Transport!HasRoom, Transport!LinkDrained, Transport!Goes,
         Transport!Source, Transport!Sink, Transport!AheadEnd

LEMMA TunnelProxyIs ==
    Tunnel!ProxyStep \/ Tunnel!BridgeDials => Transport!ProxyStep \/ Transport!BridgeDials
  BY DEF Tunnel!ProxyStep, Tunnel!BridgeDials, Tunnel!DropConnection, Tunnel!TakeRequest,
         Tunnel!DialProvider, Tunnel!Hijack, Tunnel!Refuse, Tunnel!Receive, Tunnel!Starts,
         Tunnel!Copiers, Tunnel!Established, Tunnel!Forbidden, Tunnel!Unavailable,
         Transport!ProxyStep, Transport!BridgeDials, Transport!DropConnection, Transport!TakeRequest,
         Transport!DialProvider, Transport!Hijack, Transport!Refuse, Transport!Receive, Transport!Starts,
         Transport!Copiers, Transport!Established, Transport!Forbidden, Transport!Unavailable

LEMMA TunnelEndsAre ==
    Tunnel!Ends => Transport!Ends
  BY DEF Tunnel!Ends, Tunnel!Ask, Tunnel!ActorSends, Tunnel!ActorReceives,
         Tunnel!ActorHalfCloses, Tunnel!ActorCloses, Tunnel!ProviderReceives,
         Tunnel!ProviderSends, Tunnel!ProviderCloses, Tunnel!Connected, Tunnel!Send,
         Tunnel!Receive, Tunnel!HasRoom, Tunnel!LinkDrained, Tunnel!Established, Tunnel!Unasked,
         Transport!Ends, Transport!Ask, Transport!ActorSends, Transport!ActorReceives,
         Transport!ActorHalfCloses, Transport!ActorCloses, Transport!ProviderReceives,
         Transport!ProviderSends, Transport!ProviderCloses, Transport!Connected, Transport!Send,
         Transport!Receive, Transport!HasRoom, Transport!LinkDrained, Transport!Established, Transport!Unasked

LEMMA TunnelNextIs ==
    Tunnel!TunnelNext => Transport!TunnelNext
  BY TunnelCopiersAre, TunnelProxyIs, TunnelEndsAre
  DEF Tunnel!TunnelNext, Tunnel!TunnelDone, Tunnel!TunnelOver, Tunnel!Copiers,
      Tunnel!tunnelVars, Transport!TunnelNext, Transport!TunnelDone, Transport!TunnelOver,
      Transport!Copiers, Transport!tunnelVars

LEMMA TunnelPropertiesAre ==
    ASSUME Transport!TunnelConstants, Transport!TunnelInv
    PROVE  Tunnel!TunnelTypeOK /\ Tunnel!NothingSkipped /\ Tunnel!AnswerIsWhole
  <1>1. Transport!TunnelTypeOK /\ Transport!NothingSkipped /\ Transport!AnswerIsWhole
    BY Transport!TunnelInvSays
  <1>2. Tunnel!TunnelTypeOK
    BY <1>1 DEF Tunnel!TunnelTypeOK, Tunnel!Links, Tunnel!Copiers, Transport!TunnelTypeOK,
                Transport!Links, Transport!Copiers
  <1>3. Tunnel!NothingSkipped
    BY <1>1 DEF Tunnel!NothingSkipped, Tunnel!Upto, Transport!NothingSkipped, Transport!Upto
  <1>4. Tunnel!AnswerIsWhole
    BY <1>1 DEF Tunnel!AnswerIsWhole, Tunnel!Established, Transport!AnswerIsWhole,
                Transport!Established
  <1> QED
    BY <1>2, <1>3, <1>4

TunnelPartInv == part = "tunnel" => Transport!TunnelInv

\* A tunnel, with links of any size and for any number of frames each way, gives each end what
\* the other one sent, from the first frame on and in order; and a provider that has read
\* everything and ends the connection cuts no answer short, whatever the two hops still held
\* (bridgeConnection, startRestrictedConnectProxy).
THEOREM TunnelIsFaithfulHolds == MCSpec => []TunnelIsFaithful
  <1>1. Transport!TunnelConstants
    BY TunnelFits DEF Tunnel!TunnelConstants, Transport!TunnelConstants
  <1>2. MCInit => TunnelPartInv
    BY <1>1, TunnelInitIs, Transport!InitTunnelInv DEF MCInit, TunnelPartInv
  <1>3. TunnelPartInv /\ [MCNext]_harnessVars => TunnelPartInv'
    <2> SUFFICES ASSUME TunnelPartInv, [MCNext]_harnessVars, part' = "tunnel"
                 PROVE  Transport!TunnelInv'
      BY DEF TunnelPartInv
    <2>1. part = "tunnel" /\ Transport!TunnelInv
      BY DEF TunnelPartInv, MCNext, ClaudeStep, CodexStep, TunnelStep, harnessVars
    <2>2. CASE Tunnel!TunnelNext
      BY <1>1, <2>1, <2>2, TunnelNextIs, Transport!NextTunnelInv
    <2>3. CASE UNCHANGED harnessVars
      <3>1. UNCHANGED Transport!tunnelVars
        BY <2>3 DEF harnessVars, tunnelVars, Transport!tunnelVars
      <3> QED BY <1>1, <2>1, <3>1, Transport!NextTunnelInv
    <2> QED BY <2>1, <2>2, <2>3 DEF MCNext, ClaudeStep, CodexStep, TunnelStep
  <1>4. TunnelPartInv => TunnelIsFaithful
    BY <1>1, TunnelPropertiesAre DEF TunnelPartInv, TunnelIsFaithful
  <1> QED BY <1>2, <1>3, <1>4, PTL DEF MCSpec, harnessVars
=============================================================================
