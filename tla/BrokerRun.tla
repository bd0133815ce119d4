----------------------------- MODULE BrokerRun -----------------------------
(* One request served by the sandbox broker, from the bytes on stdin to the  *)
(* response: serve, validateRequest, resolveAuthentication, execute,         *)
(* runHarness, the protected-effect monitor and runOracle in                 *)
(* src/evals/tools/sandbox-broker/main.go.  Whatever a step acquires it      *)
(* leaves to a deferred call; any step may fail.  The actor works on the     *)
(* project meanwhile.                                                        *)
EXTENDS Integers, Sequences, FiniteSets, SequencesExt

CONSTANTS
  Requests,     \* the requests tried
  Credentials,  \* the authentication settings and stored logins tried
  Trackers,     \* what the project holds under .tracker when the run starts
  MaxTouches    \* bound: writes of the actor below .tracker

VARIABLES
  req, creds,  \* the request; the operator's credential settings
  at,          \* the step the broker is at
  defers,      \* what deferred calls will release, last acquired last
  held,        \* what is open: directories, sockets, watches, temporary homes
  late,        \* the request's deadline has passed
  run,         \* the harness run so far
  tracker,     \* the files under .tracker, and whether the directory exists
  watches,     \* what each inotify watch of the monitor is set on
  pending,     \* kinds whose watch has an unread event
  touched,     \* history: files the actor wrote
  oracleRC,    \* the oracle's exit code
  response     \* what is encoded on stdout

brokerVars == <<req, creds, at, defers, held, late, run, tracker, watches,
                pending, touched, oracleRC, response>>

TrackerFiles == {"issue", "pull_request"}
Kind(file) == IF file = "issue" THEN "tracker_comment" ELSE "pr_comment"
NoRC == -1
NoResponse == [rc |-> NoRC, events |-> <<>>, inventory |-> "none", catalog |-> FALSE,
               oracle |-> NoRC]

(* Two harnesses are known; a file of the project has a directory it is in.  *)
ASSUME BrokerConstants ==
  /\ \A r \in Requests : r.harness \in {"claude", "codex"}
  /\ \A t \in Trackers :
       /\ t \in [dir : BOOLEAN, files : SUBSET TrackerFiles, made : {FALSE}]
       /\ t.files # {} => t.dir

-----------------------------------------------------------------------------
(* validateRequest.  A request gives each path as one directory's name; two  *)
(* names overlap when one contains the other.                                *)

MaxFollowups == 8
Overlaps(a, b) == a = b \/ <<a, b>> \in {<<"project", "inside">>, <<"inside", "project">>}
SamePaths(got, want) ==
  /\ Len(got) = Len(want)
  /\ Cardinality(ToSet(got)) = Len(got)
  /\ ToSet(want) \subseteq ToSet(got)
ReadableRoots(r) ==
  IF r.arm = "treatment" THEN <<"project", r.plugin>> ELSE <<"project">>
Valid(r) ==
  /\ r.plain                                  \* version, names, texts, timeout
  /\ r.followups <= MaxFollowups
  /\ ~Overlaps("project", r.home) /\ r.homeEmpty
  /\ r.plugin # "none" => ~Overlaps("project", r.plugin) /\ ~Overlaps(r.home, r.plugin)
  /\ (r.arm = "treatment") <=> (r.plugin # "none")
  /\ SamePaths(r.reads, ReadableRoots(r))
  /\ SamePaths(r.writes, <<"project">>)
  /\ r.oracle # "invalid"

(* resolveAuthentication and validateFollowupTransport: the transport a run  *)
(* may use, or "refused".  A stored login counts only when it is private,    *)
(* current and outside every visible root; the proxy's placeholder is not a  *)
(* login of the subscription mode's making, but it has the login's shape.    *)
Mode(c) == IF c.mode = "" THEN "subscription" ELSE c.mode
Authenticated(r, c) ==
  CASE Mode(c) = "subscription" ->
         c.stored = "login" \/ (c.stored = "placeholder" /\ r.harness = "codex")
    [] Mode(c) = "subswapper"   -> c.launched /\ (r.harness = "claude" \/ c.stored = "placeholder")
    [] Mode(c) = "api-key"      -> c.stored = "key"
    [] OTHER                    -> FALSE
TransportFits(r, c) ==
  ~(r.harness = "codex" /\ r.followups > 0 /\ Mode(c) = "api-key")
NeedsProviderProxy == req.harness = "claude" \/ Mode(creds) = "api-key"
UsesAppServer == req.harness = "codex" /\ Mode(creds) # "api-key"

-----------------------------------------------------------------------------
(* Returns and deferred calls.                                               *)

\* Mutant: a resource is taken before its release is deferred.
AcquireUndeferred(resource) ==
  /\ held' = held \cup {resource}
  /\ defers' = defers

Acquire(resource) ==
  /\ held' = held \cup {resource}
  /\ defers' = Append(defers, resource)
Goto(step) == at' = step
NoRun == [inventory |-> "none", rc |-> NoRC, timedOut |-> FALSE, whole |-> FALSE,
          logged |-> {}, complete |-> FALSE, events |-> <<>>]

BrokerInit ==
  /\ req \in Requests /\ creds \in Credentials
  /\ at = "request"
  /\ defers = <<>> /\ held = {}
  /\ late = FALSE
  /\ run = NoRun
  /\ tracker \in Trackers
  /\ watches = [f \in TrackerFiles |-> "none"] /\ pending = {}
  /\ touched = {}
  /\ oracleRC = NoRC
  /\ response = NoResponse

(* An error return of the step the broker is at.                             *)
Steps == {"authenticate", "directory", "collector", "proxy", "version", "stage",
          "monitor", "egress", "launch", "actor", "seal", "read", "catalog", "oracle",
          "judging"}
StepFails ==
  /\ at \in Steps
  /\ Goto("failing")
  /\ UNCHANGED <<req, creds, defers, held, late, run, tracker, watches, pending, touched,
                 oracleRC, response>>

(* Deferred calls run last acquired first, on every return.                  *)
\* Mutant: the first of the deferred calls runs first.
UnwindFirst ==
  /\ at = "failing" /\ defers # <<>>
  /\ held' = held \ {Head(defers)} /\ defers' = Front(defers)
  /\ UNCHANGED <<req, creds, at, late, run, tracker, watches, pending, touched, oracleRC, response>>

Unwind ==
  /\ at = "failing" /\ defers # <<>>
  /\ held' = held \ {Last(defers)} /\ defers' = Front(defers)
  /\ watches' = IF Last(defers) = "monitor" THEN [f \in TrackerFiles |-> "none"] ELSE watches
  /\ UNCHANGED <<req, creds, at, late, run, tracker, pending, touched, oracleRC, response>>
Failed ==
  /\ at = "failing" /\ defers = <<>>
  /\ Goto("failed")
  /\ UNCHANGED <<req, creds, defers, held, late, run, tracker, watches, pending, touched,
                 oracleRC, response>>

-----------------------------------------------------------------------------
(* serve and execute, up to the harness.                                     *)

Validate ==
  /\ at = "request"
  /\ Goto(IF Valid(req) THEN "authenticate" ELSE "failed")
  /\ UNCHANGED <<req, creds, defers, held, late, run, tracker, watches, pending, touched,
                 oracleRC, response>>
Authenticate ==
  /\ at = "authenticate"
  /\ Authenticated(req, creds) /\ TransportFits(req, creds)
  /\ Goto("directory")
  /\ UNCHANGED <<req, creds, defers, held, late, run, tracker, watches, pending, touched,
                 oracleRC, response>>
OpenDirectory ==
  /\ at = "directory"
  /\ Acquire("directory") /\ Goto("collector")
  /\ UNCHANGED <<req, creds, late, run, tracker, watches, pending, touched, oracleRC, response>>
StartCollector ==
  /\ at = "collector"
  /\ Acquire("collector") /\ Goto(IF NeedsProviderProxy THEN "proxy" ELSE "version")
  /\ UNCHANGED <<req, creds, late, run, tracker, watches, pending, touched, oracleRC, response>>
StartProxy ==
  /\ at = "proxy"
  /\ Acquire("proxy") /\ Goto("version")
  /\ UNCHANGED <<req, creds, late, run, tracker, watches, pending, touched, oracleRC, response>>

(* The version query and the Codex plugin commands run under the deadline.   *)
ReadVersion ==
  /\ at = "version" /\ ~late
  /\ Goto("stage")
  /\ UNCHANGED <<req, creds, defers, held, late, run, tracker, watches, pending, touched,
                 oracleRC, response>>

(* The inventory the arm must show: nothing, or exactly the candidate.       *)
ExpectedInventory(arm) == IF arm = "treatment" THEN "candidate" ELSE "none"

(* writeClaudeSettings, or prepareCodexHome: Codex's plugin list is checked  *)
(* here, Claude's when its trace is read.  The harness loads what it loads.  *)
Stage ==
  /\ at = "stage"
  /\ \E loaded \in {"none", "candidate", "others"} :
       /\ req.harness = "codex" => ~late /\ loaded = ExpectedInventory(req.arm)
       /\ run' = [run EXCEPT !.inventory = loaded]
  /\ Goto("monitor")
  /\ UNCHANGED <<req, creds, defers, held, late, tracker, watches, pending, touched,
                 oracleRC, response>>

(* startProtectedEffectMonitor: a watch on the file, on its directory when   *)
(* the file is missing, on nothing when the directory is missing too.        *)
WatchOf(file) ==
  IF file \in tracker.files THEN "file" ELSE IF tracker.dir THEN "directory" ELSE "none"
StartMonitor ==
  /\ at = "monitor"
  /\ watches' = [f \in TrackerFiles |-> WatchOf(f)]
  /\ Acquire("monitor") /\ Goto(IF UsesAppServer THEN "egress" ELSE "launch")
  /\ UNCHANGED <<req, creds, late, run, tracker, pending, touched, oracleRC, response>>
StartEgress ==
  /\ at = "egress"
  /\ Acquire("egress") /\ Goto("launch")
  /\ UNCHANGED <<req, creds, late, run, tracker, watches, pending, touched, oracleRC, response>>
Launch ==
  /\ at = "launch"
  /\ Goto("actor")
  /\ UNCHANGED <<req, creds, defers, held, late, run, tracker, watches, pending, touched,
                 oracleRC, response>>

-----------------------------------------------------------------------------
(* The actor.  Creating a file or renaming one into place signals a watch on *)
(* the directory, writing one signals both watches, unlinking or renaming    *)
(* away signals the file's own watch; a watch stays with the file it was set *)
(* on, replaced or not.                                                      *)

Signals(file, op) ==
  {g \in TrackerFiles : watches[g] = "directory" /\ op \in {"create", "write", "replace"}}
    \cup {g \in {file} : watches[g] = "file" /\ op \in {"write", "replace", "remove"}}
Possible(file, op) ==
  CASE op = "create" -> tracker.dir /\ file \notin tracker.files
    [] op = "write"  -> file \in tracker.files
    [] op = "replace" -> file \in tracker.files
    [] op = "remove" -> file \in tracker.files
(* Once a file has been replaced, its watch is on the inode that is gone.    *)
WatchesAfter(file, op) ==
  IF op \in {"replace", "remove"} /\ watches[file] = "file"
  THEN [watches EXCEPT ![file] = "none"] ELSE watches

ActorTouches ==
  /\ at = "actor" /\ Cardinality(touched) < MaxTouches
  /\ \E file \in TrackerFiles, op \in {"create", "write", "replace", "remove"} :
       /\ Possible(file, op)
       /\ tracker' = [tracker EXCEPT !.files =
                        IF op = "remove" THEN @ \ {file} ELSE @ \cup {file}]
       /\ pending' = pending \cup {Kind(g) : g \in Signals(file, op)}
       /\ watches' = WatchesAfter(file, op)
       /\ touched' = touched \cup {file}
  /\ UNCHANGED <<req, creds, at, defers, held, late, run, oracleRC, response>>
ActorMakesTracker ==
  /\ at = "actor" /\ ~tracker.dir
  /\ tracker' = [tracker EXCEPT !.dir = TRUE, !.made = TRUE]
  /\ UNCHANGED <<req, creds, at, defers, held, late, run, watches, pending, touched,
                 oracleRC, response>>
(* The transcript shows the command that posts a comment, or it does not.    *)
ActorLogs ==
  /\ at = "actor"
  /\ \E file \in touched : run' = [run EXCEPT !.logged = @ \cup {Kind(file)}]
  /\ UNCHANGED <<req, creds, at, defers, held, late, tracker, watches, pending, touched,
                 oracleRC, response>>

(* The process ends by itself, is killed at the deadline (124), or its trace *)
(* outgrows the limit and is cut (125).                                      *)
ActorEnds ==
  /\ at = "actor"
  /\ \E rc \in {0, 1, 125}, whole \in BOOLEAN :
       run' = [run EXCEPT !.rc = rc, !.whole = whole /\ rc # 125]
  /\ Goto("seal")
  /\ UNCHANGED <<req, creds, defers, held, late, tracker, watches, pending, touched,
                 oracleRC, response>>
(* A whole transcript may have been written when the deadline strikes.       *)
ActorKilled ==
  /\ at = "actor" /\ late
  /\ \E whole \in BOOLEAN : run' = [run EXCEPT !.rc = 124, !.timedOut = TRUE, !.whole = whole]
  /\ Goto("seal")
  /\ UNCHANGED <<req, creds, defers, held, late, tracker, watches, pending, touched,
                 oracleRC, response>>

-----------------------------------------------------------------------------
(* The rest of runHarness.                                                   *)

(* runCodexAppServer has returned and closed its egress proxy; the collector *)
(* is sealed and its receipts appended; Claude's inventory is read from the  *)
(* trace.                                                                    *)
Loaded == req.harness = "claude" => run.inventory = ExpectedInventory(req.arm)
Seal ==
  /\ at = "seal"
  /\ Loaded
  /\ held' = held \ {"egress"} /\ defers' = IF UsesAppServer THEN Front(defers) ELSE defers
  /\ Goto("read")
  /\ UNCHANGED <<req, creds, late, run, tracker, watches, pending, touched, oracleRC, response>>

(* normalizeTraceTurns: complete means a whole trace of a process that       *)
(* exited 0.                                                                 *)
\* Mutant: the exit code is not looked at.
CompleteAnyExit == run.whole

Complete == run.whole /\ run.rc = 0

(* appendObservedEffects: what the monitor saw and the transcript did not    *)
(* show goes before the completion marker.                                   *)
\* Mutant: every watched path counts as touched.
WatchedUnreported == {Kind(f) : f \in {g \in TrackerFiles : watches[g] # "none"}} \ run.logged

Unreported == pending \ run.logged
WithEffects ==
  SetToSeq(run.logged) \o SetToSeq(Unreported)
    \o (IF Complete THEN <<"trace_complete">> ELSE <<>>)

(* An incomplete trace never keeps exit code 0.                              *)
Downgraded == IF ~Complete /\ run.rc = 0 THEN 125 ELSE run.rc

ReadTrace ==
  /\ at = "read"
  /\ run' = [run EXCEPT !.complete = Complete, !.events = WithEffects, !.rc = Downgraded]
  /\ pending' = {}
  /\ Goto("catalog")
  /\ UNCHANGED <<req, creds, defers, held, late, tracker, watches, touched, oracleRC, response>>

(* The catalog is read for the treatment; runHarness returns and its monitor *)
(* is closed.                                                                *)
CloseMonitor ==
  /\ at = "catalog"
  /\ watches' = [f \in TrackerFiles |-> "none"]
  /\ held' = held \ {"monitor"} /\ defers' = Front(defers)
  /\ Goto(IF req.oracle = "command" THEN "oracle" ELSE "respond")
  /\ UNCHANGED <<req, creds, late, run, tracker, pending, touched, oracleRC, response>>

(* The oracle runs in the project with a temporary home of its own; it is    *)
(* not run once the deadline has passed.                                     *)
OracleSkipped ==
  /\ at = "oracle" /\ late
  /\ oracleRC' = 124 /\ Goto("respond")
  /\ UNCHANGED <<req, creds, defers, held, late, run, tracker, watches, pending, touched,
                 response>>
OracleStarts ==
  /\ at = "oracle" /\ ~late
  /\ Acquire("oracle_home") /\ Goto("judging")
  /\ UNCHANGED <<req, creds, late, run, tracker, watches, pending, touched, oracleRC, response>>
OracleTouches ==
  /\ at = "judging" /\ tracker.dir
  /\ \E file \in TrackerFiles :
       /\ tracker' = [tracker EXCEPT !.files = @ \cup {file}]
       /\ pending' = pending \cup {Kind(g) : g \in Signals(file, "write")}
  /\ UNCHANGED <<req, creds, at, defers, held, late, run, watches, touched, oracleRC, response>>
OracleEnds ==
  /\ at = "judging"
  /\ \E rc \in {0, 1} \cup (IF late THEN {124} ELSE {}) : oracleRC' = rc
  /\ held' = held \ {"oracle_home"} /\ defers' = Front(defers)
  /\ Goto("respond")
  /\ UNCHANGED <<req, creds, late, run, tracker, watches, pending, touched, response>>
Respond ==
  /\ at = "respond"
  /\ response' = [rc |-> run.rc, events |-> run.events, inventory |-> run.inventory,
                  catalog |-> req.arm = "treatment", oracle |-> oracleRC]
  /\ Goto("answering")
  /\ UNCHANGED <<req, creds, defers, held, late, run, tracker, watches, pending, touched,
                 oracleRC>>
(* execute's deferred calls run before the response is encoded.              *)
Release ==
  /\ at = "answering"
  /\ \/ /\ defers # <<>>
        /\ held' = held \ {Last(defers)} /\ defers' = Front(defers)
        /\ UNCHANGED at
     \/ /\ defers = <<>>
        /\ Goto("answered")
        /\ UNCHANGED <<held, defers>>
  /\ UNCHANGED <<req, creds, late, run, tracker, watches, pending, touched, oracleRC, response>>

DeadlineStrikes ==
  /\ ~late /\ at \notin {"answered", "failed"}
  /\ late' = TRUE
  /\ UNCHANGED <<req, creds, at, defers, held, run, tracker, watches, pending, touched,
                 oracleRC, response>>

BrokerNext ==
  \/ StepFails \/ Unwind \/ Failed \/ Validate \/ Authenticate \/ OpenDirectory
  \/ StartCollector \/ StartProxy \/ ReadVersion \/ Stage \/ StartMonitor \/ StartEgress
  \/ Launch \/ ActorTouches \/ ActorMakesTracker \/ ActorLogs \/ ActorEnds \/ ActorKilled
  \/ Seal \/ ReadTrace \/ CloseMonitor \/ OracleSkipped \/ OracleStarts \/ OracleTouches
  \/ OracleEnds \/ Respond \/ Release \/ DeadlineStrikes

BrokerSpec == BrokerInit /\ [][BrokerNext]_brokerVars

-----------------------------------------------------------------------------
(* Properties.                                                               *)

Answered == at = "answered"
Reported == ToSet(response.events)

BrokerTypeOK ==
  /\ held \subseteq {"directory", "collector", "proxy", "monitor", "egress", "oracle_home"}
  /\ ToSet(defers) \subseteq held
  /\ tracker.files \subseteq TrackerFiles /\ (tracker.files # {} => tracker.dir)
  /\ pending \subseteq {Kind(f) : f \in TrackerFiles} /\ touched \subseteq TrackerFiles
  /\ run.rc \in {NoRC, 0, 1, 124, 125} /\ oracleRC \in {NoRC, 0, 1, 124}

(* Success, refusal or failure at any step: nothing the broker opened is     *)
(* still open when the process ends.                                         *)
NothingHeld == at \in {"answered", "failed"} => held = {}

(* README.md of the installed A/B study, "Trace events": exit code 0 goes    *)
(* with exactly one completion marker, the final event, and with nothing     *)
(* else; a run that was killed or cut never claims completeness.             *)
SuccessIsComplete ==
  Answered =>
    /\ (response.rc = 0) <=> ("trace_complete" \in Reported)
    /\ "trace_complete" \in Reported =>
         /\ Last(response.events) = "trace_complete"
         /\ Cardinality(Reported) = Len(response.events)
         /\ run.whole /\ ~run.timedOut

(* A write of the actor below .tracker that nothing in the transcript shows  *)
(* is an event of the response all the same, whether the trace is complete   *)
(* or not -- provided .tracker existed when the monitor started.             *)
EffectsReported ==
  Answered /\ ~tracker.made =>
    \A file \in touched : Kind(file) \in Reported
(* A run that leaves .tracker alone reports no comment, whatever the oracle  *)
(* writes there afterwards.                                                  *)
EffectsAreTheActors ==
  Answered /\ touched = {} => Reported \subseteq {"trace_complete"}

(* A response is given only for a run whose harness had loaded what the arm  *)
(* prescribes, whichever of the two harnesses it was and wherever it is      *)
(* checked.                                                                  *)
ArmsHonest == Answered => response.inventory = ExpectedInventory(req.arm)
=============================================================================
