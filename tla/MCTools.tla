------------------------------- MODULE MCTools -------------------------------
(***************************************************************************)
(* The tools around a work tree, from the orchestrator's lanes to the      *)
(* release, side by side: a behavior is a behavior of one of them, `part`, *)
(* and the variables of the others stay "idle".                            *)
(***************************************************************************)
EXTENDS Integers, Sequences, FiniteSets, TLC

CONSTANTS
    Parts,           \* the parts of this run
    Runs, Contents,  \* of RunReceipt
    NoTree, Nothing, NoLesson, Torn, NoFile, Absent, NoBaseline
                     \* what is none of its kind

VARIABLES part,
    lead, commits, exists, base, work, ignored, command, edits, added, stale, fresh,
    vouched, inside,
    headTree, index, worktree, baseline, dispatched, session, verdict, acts, touched,
    blurred, atSnapshot,
    tip, tracked, extra, receipts, logs, invocation, nextStart, writes,
    ledger, task, green, anchored, day, recurred, review, started, overlapped,
    tags, branch, pipelines, artifacts, reruns,
    mergeBase, staged, working, touches, bar, views, names, moved, exit,
    lines, files, pending, headers, left, result

lanesV == <<lead, commits, exists, base, work, ignored, command, edits, added, stale, fresh,
            vouched, inside>>
fenceV == <<headTree, index, worktree, baseline, dispatched, session, verdict, acts, touched,
            blurred, atSnapshot>>
receiptV == <<tip, tracked, extra, receipts, logs, invocation, nextStart, writes>>
lessonsV == <<ledger, task, green, anchored, day, recurred, review, started, overlapped>>
releaseV == <<tags, branch, pipelines, artifacts, reruns>>
barV == <<mergeBase, staged, working, touches, bar, views, names, moved, exit>>
patchV == <<lines, files, pending, headers, left, result>>

-----------------------------------------------------------------------------

(* Lanes: two lanes, a file inside and one outside the fence *)

LaneTool == INSTANCE Lanes WITH LaneNames <- {"l1", "l2"}, Files <- {"f1", "f2"},
            Texts <- {"o", "a", "b"}, Original <- "o", Fenced <- {"f1"}, MaxEdits <- 2

ASSUME LanesFit == LaneTool!LanesConstants

(* FenceCheck: a path inside the fence and an ignored one outside *)

Fence == INSTANCE FenceCheck WITH Paths <- {"p1", "p2"}, Ignored <- {"p2"}, InFence <- {"p1"},
           Blobs <- {"a", "b"}, MaxActs <- 4

ASSUME FenceFits == Fence!FenceConstants

(* RunReceipt: two runs of one check; one untracked file is large *)

Receipt == INSTANCE RunReceipt WITH Keys <- {"k"}, Extras <- {"x", "y"}, Large <- {"y"}, MaxWrites <- 2

ASSUME ReceiptFits == Receipt!ReceiptConstants

(* Lessons: two curators of one lesson, a check that catches and one that does not *)

LessonTool == INSTANCE Lessons WITH LessonIds <- {"i"}, Curators <- {"s1", "s2"}, Checks <- {"c1", "c2"},
              CaughtThere <- {"c1"}, MaxAge <- 1, LastDay <- 2, MaxCommands <- 3

ASSUME LessonsFit == LessonTool!LessonsConstants

(* ReleasePipeline: two versions, the second of them on two branches *)

MCAncestors == "c1" :> {"c1"} @@ "c2" :> {"c1", "c2"} @@ "c3" :> {"c1", "c3"}
MCTagFor == "c1" :> "v1" @@ "c2" :> "v2" @@ "c3" :> "v2"
MCWorks == {<<"c1", "minimum">>, <<"c1", "reviewed">>, <<"c2", "minimum">>, <<"c2", "reviewed">>,
            <<"c3", "reviewed">>}

Release == INSTANCE ReleasePipeline WITH Commits <- {"c1", "c2", "c3"}, NoCommit <- "none",
             Ancestors <- MCAncestors, SignedCommits <- {"c1", "c2", "c3"}, TagFor <- MCTagFor,
             ReleaseTags <- {"v1", "v2"}, Profiles <- {"minimum", "reviewed"}, Works <- MCWorks,
             MaxPipelines <- 2, MaxReruns <- 1

ASSUME ReleaseFits == Release!ReleaseConstants

(* BarGuard: a test and a code file; every kind of line, one of them waived *)

BarLine(kind, name, value, waived) == [kind |-> kind, name |-> name, value |-> value, waived |-> waived]
ATest == BarLine("test", "t", 0, FALSE)
MCBarContents ==
    {{ATest}, {ATest, BarLine("skip", "s", 0, FALSE)},
     {BarLine("maximum", "m", 1, FALSE), BarLine("maximum", "n", 5, FALSE),
      BarLine("assertion", "a", 0, FALSE),
      BarLine("handler", "h", 0, FALSE), BarLine("body", "h", 0, FALSE)},
     {BarLine("maximum", "m", 2, TRUE), BarLine("maximum", "n", 5, FALSE),
      BarLine("handler", "h", 0, FALSE)}}

Bar == INSTANCE BarGuard WITH TestFiles <- {"t1"}, CodeFiles <- {"c1"}, BarContents <- MCBarContents,
         MaxTouches <- 3

ASSUME BarFits == Bar!BarConstants

(* DiffParser *)

Patch == INSTANCE DiffParser WITH HunkCounts <- {<<1, 1>>, <<0, 1>>, <<2, 0>>}, MaxPatch <- 6

ASSUME PatchFits == Patch!ParserConstants

-----------------------------------------------------------------------------

ASSUME PartsAreKnown ==
    Parts \subseteq {"lanes", "fence", "receipt", "lessons", "release", "bar", "patch"}

lanesIdle ==
    /\ lead = "idle" /\ commits = "idle" /\ exists = "idle" /\ base = "idle"
    /\ work = "idle" /\ ignored = "idle" /\ command = "idle" /\ edits = "idle"
    /\ added = "idle" /\ stale = "idle" /\ fresh = "idle" /\ vouched = "idle"
    /\ inside = "idle"
fenceIdle ==
    /\ headTree = "idle" /\ index = "idle" /\ worktree = "idle" /\ baseline = "idle"
    /\ dispatched = "idle" /\ session = "idle" /\ verdict = "idle" /\ acts = "idle"
    /\ touched = "idle" /\ blurred = "idle" /\ atSnapshot = "idle"
receiptIdle ==
    /\ tip = "idle" /\ tracked = "idle" /\ extra = "idle" /\ receipts = "idle"
    /\ logs = "idle" /\ invocation = "idle" /\ nextStart = "idle" /\ writes = "idle"
lessonsIdle ==
    /\ ledger = "idle" /\ task = "idle" /\ green = "idle" /\ anchored = "idle"
    /\ day = "idle" /\ recurred = "idle" /\ review = "idle" /\ started = "idle"
    /\ overlapped = "idle"
releaseIdle ==
    /\ tags = "idle" /\ branch = "idle" /\ pipelines = "idle" /\ artifacts = "idle"
    /\ reruns = "idle"
barIdle ==
    /\ mergeBase = "idle" /\ staged = "idle" /\ working = "idle" /\ touches = "idle"
    /\ bar = "idle" /\ views = "idle" /\ names = "idle" /\ moved = "idle" /\ exit = "idle"
patchIdle ==
    /\ lines = "idle" /\ files = "idle" /\ pending = "idle" /\ headers = "idle"
    /\ left = "idle" /\ result = "idle"

Init ==
    /\ part \in Parts
    /\ IF part = "lanes" THEN LaneTool!LanesInit ELSE lanesIdle
    /\ IF part = "fence" THEN Fence!FenceInit ELSE fenceIdle
    /\ IF part = "receipt" THEN Receipt!ReceiptInit ELSE receiptIdle
    /\ IF part = "lessons" THEN LessonTool!LessonsInit ELSE lessonsIdle
    /\ IF part = "release" THEN Release!ReleaseInit ELSE releaseIdle
    /\ IF part = "bar" THEN Bar!BarInit ELSE barIdle
    /\ IF part = "patch" THEN Patch!ParserInit ELSE patchIdle

\* Only the variables of p change.
Only(p) ==
    /\ part = p /\ UNCHANGED part
    /\ IF p = "lanes" THEN TRUE ELSE UNCHANGED lanesV
    /\ IF p = "fence" THEN TRUE ELSE UNCHANGED fenceV
    /\ IF p = "receipt" THEN TRUE ELSE UNCHANGED receiptV
    /\ IF p = "lessons" THEN TRUE ELSE UNCHANGED lessonsV
    /\ IF p = "release" THEN TRUE ELSE UNCHANGED releaseV
    /\ IF p = "bar" THEN TRUE ELSE UNCHANGED barV
    /\ IF p = "patch" THEN TRUE ELSE UNCHANGED patchV

LanesStep == Only("lanes") /\ LaneTool!LanesNext
FenceStep == Only("fence") /\ Fence!FenceNext
ReceiptStep == Only("receipt") /\ Receipt!ReceiptNext
LessonsStep == Only("lessons") /\ LessonTool!LessonsNext
ReleaseStep == Only("release") /\ Release!ReleaseNext
BarStep == Only("bar") /\ Bar!BarNext
PatchStep == Only("patch") /\ Patch!ParserNext

Next == LanesStep \/ FenceStep \/ ReceiptStep \/ LessonsStep \/ ReleaseStep \/ BarStep \/ PatchStep

toolVars == <<part, lanesV, fenceV, receiptV, lessonsV, releaseV, barV, patchV>>
Spec == Init /\ [][Next]_toolVars

Symmetry == Permutations(Runs) \cup Permutations(Contents)

-----------------------------------------------------------------------------
(* Properties: of each part, those its module states *)

\* A lane whose add succeeded is seen until it is removed, lanes that a check passed can be
\* applied in any order, remove deletes no work that is not in the lead, and a fenced lane
\* changes nothing outside its fence (lanes.go).
LanesKeepWork ==
    /\ [](part = "lanes" =>
            LaneTool!LanesTypeOK /\ LaneTool!AddedIsManaged /\ LaneTool!CheckedLanesApply)
    /\ [][part = "lanes" => LaneTool!KeepsWork /\ LaneTool!StaysInside]_lanesV

\* A check that says inside and a leak check that says same overlook no path that nobody
\* touched while they looked (fence.go).
FenceOverlooksNothing ==
    /\ [](part = "fence" => Fence!FenceTypeOK)
    /\ [][part = "fence" => Fence!InsideUnless /\ Fence!SameUnless]_fenceV

\* A receipt is reused only for the files it was made of (run-receipt.go).
ReceiptsAreSound == part = "receipt" => Receipt!ReceiptTypeOK /\ Receipt!ReuseIsSound

\* The lessons' store is never torn by a kill, a proof stands behind what counts as proven,
\* and only overlapping commands lose history (lessons.go).
LessonsKeepHistory ==
    /\ [](part = "lessons" =>
            LessonTool!LessonsTypeOK /\ LessonTool!ProofStandsBehind /\ LessonTool!RecurringIsReal)
    /\ [][part = "lessons" => LessonTool!StaysWhole /\ LessonTool!KeepsHistory]_lessonsV

\* What the release branch gets was attested, and it only moves forward (release.go).
ReleasesAreAttested ==
    /\ [](part = "release" => Release!ReleaseTypeOK /\ Release!InstallsAreAttested)
    /\ [][part = "release" => Release!Forward]_releaseV

\* A tree that bar-guard passes is no weaker than its merge base, only a change is found
\* fault with, and only a whole patch is read (bar-guard.go, parseDiff).
BarIsKept ==
    /\ part = "bar" => Bar!BarTypeOK /\ Bar!CleanIsUnweakened /\ Bar!FindingsNeedChange
    /\ part = "patch" => Patch!ParserTypeOK /\ Patch!OnlyWholePatches

\* What installs get was attested under every profile of the matrix (release.yml:113-114).
EveryProfileAttested == part = "release" => Release!InstallsPassedEveryProfile
==============================================================================
