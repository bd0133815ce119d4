------------------------------- MODULE BarGuard -------------------------------
(***************************************************************************)
(* extras/scripts/verify-and-finish/bar-guard.go: what of a work tree's    *)
(* changes weakens its checks, and the exit status that gives.             *)
(*                                                                         *)
(* The tool reads the diff of the work tree, that of the index and the     *)
(* untracked files one after the other, beside somebody who edits and      *)
(* stages.  A file is a set of lines, a change of it one hunk; DiffParser  *)
(* has how git's text of it is read.                                       *)
(***************************************************************************)
EXTENDS Integers, FiniteSets, FiniteSetsExt

CONSTANTS
    TestFiles, CodeFiles,  \* by isTest of their names
    BarContents,  \* what a file may hold: sets of lines, by kind, name and value, with or
                  \* without a waiver on it
    NoFile,
    MaxTouches    \* bound: edits and stagings

\* What is asked of the constants: a file has finitely many lines, their values are numbers,
\* and none is not a file.
BarConstants ==
    /\ NoFile \notin BarContents
    /\ \A c \in BarContents : IsFiniteSet(c) /\ \A l \in c : l.value \in Int
    /\ MaxTouches \in Nat

VARIABLES
    mergeBase,  \* the tree of the merge base
    staged,     \* the tree of the index
    working,    \* the work tree
    touches,    \* edits and stagings
    bar,        \* the tool's next step
    views,      \* the changes it has read, of the work tree and of the index
    names,      \* the untracked files it still has to read
    moved,      \* something changed since it started
    exit        \* its exit status

barVars == <<mergeBase, staged, working, touches, bar, views, names, moved, exit>>

BarFiles == TestFiles \cup CodeFiles
BarTrees == [BarFiles -> BarContents \cup {NoFile}]

LinesOf(content) == IF content = NoFile THEN {} ELSE content
OfKind(lines, kind) == {l \in lines : l.kind = kind}
NamesOf(lines) == {l.name : l \in lines}
Maxima(lines, key) == {l \in OfKind(lines, "maximum") : l.name = key}

-----------------------------------------------------------------------------
(* inspect: the findings of one view *)

AddedLines(file) == LinesOf(file.after) \ LinesOf(file.before)
RemovedLines(file) == LinesOf(file.before) \ LinesOf(file.after)

\* testDeclarations: a test added anywhere in the view stands for one removed elsewhere.
AddedTests(view) ==
    NamesOf(UNION {OfKind(AddedLines(f), "test") : f \in {g \in view : g.path \in TestFiles}})

TestsRemoved(file, view) ==
    {l \in OfKind(RemovedLines(file), "test") : l.name \notin AddedTests(view)}

\* loosenedThresholds: of a key that has one value on either side.
Loosened(file) ==
    {new \in AddedLines(file) :
       /\ Maxima(AddedLines(file), new.name) = {new}
       /\ \E old \in RemovedLines(file) :
            Maxima(RemovedLines(file), new.name) = {old} /\ new.value > old.value}

\* Of the removed assertions the first ones, as many as were not replaced: any, as the
\* order of a file is left open.
LostAssertions(file) ==
    LET removed == OfKind(RemovedLines(file), "assertion")
        replaced == Cardinality(OfKind(AddedLines(file), "assertion"))
        lost == IF Cardinality(removed) > replaced
                THEN Cardinality(removed) - replaced ELSE 0 IN
      kSubset(lost, removed)

\* emptiedHandlers: a handler whose body the diff removes and whose file, read after the
\* diff, has none.
Emptied(file) ==
    {h \in OfKind(LinesOf(file.before) \cap LinesOf(file.now), "handler") :
       LET body(lines) == {l \in OfKind(lines, "body") : l.name = h.name} IN
         /\ body(LinesOf(file.before)) # {}
         /\ body(LinesOf(file.before)) \subseteq RemovedLines(file)
         /\ body(LinesOf(file.now)) = {}}

\* The lines that may stand for the findings of a file.  A deleted file has its first
\* line, if it has one.
FindingsOf(file, view) ==
    IF file.after = NoFile
    THEN IF file.path \notin TestFiles THEN {{}}
         ELSE IF file.before = {} THEN {{[waived |-> FALSE]}}
         ELSE {{l} : l \in file.before}
    ELSE LET always == OfKind(AddedLines(file), "skip") \cup Loosened(file) \cup Emptied(file) IN
           IF file.path \in TestFiles
           THEN {always \cup TestsRemoved(file, view) \cup lost : lost \in LostAssertions(file)}
           ELSE {always}

\* Mutant: one waived finding waives the file.
PassesByFile(view) ==
    \A f \in view : \E found \in FindingsOf(f, view) : found = {} \/ \E l \in found : l.waived

Passes(view) ==
    \A f \in view : \E found \in FindingsOf(f, view) : \A l \in found : l.waived

Fails(view) ==
    \E f \in view : \E found \in FindingsOf(f, view) : \E l \in found : ~l.waived

-----------------------------------------------------------------------------
(* workingChanges and run *)

Change(f, tree) == [path |-> f, before |-> mergeBase[f], after |-> tree[f], now |-> tree[f]]
Differing(tree) == {Change(f, tree) : f \in {g \in BarFiles : mergeBase[g] # tree[g]}}
Kept(view) == {f \in view : f.before # NoFile /\ f.after # NoFile}
Go(next) == bar' = next
Trouble == exit' = "trouble" /\ Go("done") /\ UNCHANGED <<views, names>>

BarInit ==
    /\ mergeBase \in BarTrees /\ staged = mergeBase /\ working = mergeBase
    /\ touches = 0
    /\ bar = "idle"
    /\ views = [work |-> {}, index |-> {}]
    /\ names = {}
    /\ moved = FALSE
    /\ exit = "none"

StartBar ==
    /\ bar = "idle"
    /\ Go("work")
    /\ moved' = FALSE
    /\ UNCHANGED <<views, names, exit>>

\* git diff of the merge base: of the work tree, the files the index lists.
DiffWork ==
    /\ bar = "work"
    /\ views' = [views EXCEPT !.work =
                   Differing([f \in BarFiles |-> IF staged[f] = NoFile THEN NoFile ELSE working[f]])]
    /\ Go("read work")
    /\ UNCHANGED <<names, moved, exit>>

\* The changed files again, for their handlers.
ReadWork ==
    /\ bar = "read work"
    /\ UNCHANGED moved
    /\ IF \E f \in Kept(views.work) : working[f.path] = NoFile
       THEN Trouble
       ELSE /\ views' = [views EXCEPT !.work = {[f EXCEPT !.now = working[f.path]] : f \in @}]
            /\ Go("index")
            /\ UNCHANGED <<names, exit>>

\* Mutant: what is staged is not looked at.
SkipIndex ==
    /\ bar = "index"
    /\ Go("read index")
    /\ UNCHANGED <<views, names, moved, exit>>

DiffIndex ==
    /\ bar = "index"
    /\ views' = [views EXCEPT !.index = Differing(staged)]
    /\ Go("read index")
    /\ UNCHANGED <<names, moved, exit>>

ReadIndex ==
    /\ bar = "read index"
    /\ UNCHANGED moved
    /\ IF \E f \in Kept(views.index) : staged[f.path] = NoFile
       THEN Trouble
       ELSE /\ views' = [views EXCEPT !.index = {[f EXCEPT !.now = staged[f.path]] : f \in @}]
            /\ Go("untracked")
            /\ UNCHANGED <<names, exit>>

ListUntracked ==
    /\ bar = "untracked"
    /\ names' = {f \in BarFiles : staged[f] = NoFile /\ working[f] # NoFile}
    /\ Go("read untracked")
    /\ UNCHANGED <<views, moved, exit>>

\* An untracked file is an addition to the work tree's view.
ReadNewFiles ==
    /\ bar = "read untracked"
    /\ UNCHANGED moved
    /\ IF \E f \in names : working[f] = NoFile
       THEN Trouble
       ELSE /\ views' = [views EXCEPT !.work = @ \cup
                 {[path |-> f, before |-> NoFile, after |-> working[f], now |-> NoFile] : f \in names}]
            /\ names' = {}
            /\ Go("inspect")
            /\ UNCHANGED exit

Inspect ==
    /\ bar = "inspect"
    /\ \/ Passes(views.work) /\ Passes(views.index) /\ exit' = "clean"
       \/ (Fails(views.work) \/ Fails(views.index)) /\ exit' = "findings"
    /\ Go("done")
    /\ UNCHANGED <<views, names, moved>>

Tool ==
    /\ \/ StartBar \/ DiffWork \/ ReadWork \/ DiffIndex \/ ReadIndex
       \/ ListUntracked \/ ReadNewFiles \/ Inspect
    /\ UNCHANGED <<mergeBase, staged, working, touches>>

-----------------------------------------------------------------------------
(* Somebody at work in the tree *)

EditWorking ==
    /\ \E f \in BarFiles, content \in BarContents \cup {NoFile} :
         content # working[f] /\ working' = [working EXCEPT ![f] = content]
    /\ UNCHANGED staged

StageWorking ==
    /\ \E f \in BarFiles : staged[f] # working[f] /\ staged' = [staged EXCEPT ![f] = working[f]]
    /\ UNCHANGED working

Somebody ==
    /\ touches < MaxTouches /\ bar # "done"
    /\ touches' = touches + 1
    /\ moved' = TRUE
    /\ EditWorking \/ StageWorking
    /\ UNCHANGED <<mergeBase, bar, views, names, exit>>

BarNext == Tool \/ Somebody

BarSpec == BarInit /\ [][BarNext]_barVars

-----------------------------------------------------------------------------
(* Properties *)

\* Every variable stays in its set, and the tool has no status before its end.
BarTypeOK ==
    /\ mergeBase \in BarTrees /\ staged \in BarTrees /\ working \in BarTrees
    /\ touches \in 0..MaxTouches
    /\ exit \in {"none", "clean", "findings", "trouble"}
    /\ exit # "none" <=> bar = "done"
    /\ names \subseteq BarFiles
    /\ \A f \in views.work \cup views.index : f.before # NoFile \/ f.after # NoFile

\* The checks a tree has: the tests it declares, what it skips, asserts and allows.
Tests(tree) == NamesOf(UNION {OfKind(LinesOf(tree[f]), "test") : f \in TestFiles})
Waivable(f) == \E l \in LinesOf(mergeBase[f]) : l.waived
Asserts(tree, f) == Cardinality(OfKind(LinesOf(tree[f]), "assertion"))

\* A file taken out of the index is one deleted and one new to the tool: what it allows and
\* handles is compared with nothing.
Unweakened(tree) ==
    /\ \A f \in TestFiles :
         mergeBase[f] # NoFile /\ (tree[f] = NoFile \/ staged[f] = NoFile) => Waivable(f)
    /\ \A name \in Tests(mergeBase) \ Tests(tree) :
         \E f \in TestFiles :
           name \in NamesOf(OfKind(LinesOf(mergeBase[f]), "test")) /\ Waivable(f)
    /\ \A f \in BarFiles : tree[f] # NoFile =>
         /\ \A l \in OfKind(tree[f], "skip") : l.waived \/ l \in LinesOf(mergeBase[f])
         /\ f \in TestFiles => Asserts(tree, f) >= Asserts(mergeBase, f) \/ Waivable(f)
    /\ \A f \in BarFiles : tree[f] # NoFile /\ staged[f] # NoFile =>
         /\ \A new \in tree[f], old \in LinesOf(mergeBase[f]) :
              /\ Maxima(tree[f], new.name) = {new}
              /\ Maxima(LinesOf(mergeBase[f]), new.name) = {old}
              /\ new.value > old.value
              => new.waived
         /\ \A h \in OfKind(tree[f] \cap LinesOf(mergeBase[f]), "handler") :
              \/ h.waived
              \/ \E l \in OfKind(tree[f], "body") : l.name = h.name
              \/ ~ \E l \in OfKind(LinesOf(mergeBase[f]), "body") : l.name = h.name

\* A work tree that passes and was left alone meanwhile is, as it lies there and as it is
\* staged, no weaker than the merge base but where a waiver stands: no test that is in no
\* file any more, nothing newly skipped, fewer assertions in no file, no maximum of a key
\* raised, no handler emptied (workingChanges, inspect).
CleanIsUnweakened == exit = "clean" /\ ~moved => Unweakened(working) /\ Unweakened(staged)

\* Findings come of a change: a tree like its merge base passes.
FindingsNeedChange ==
    exit = "findings" /\ ~moved => working # mergeBase \/ staged # mergeBase
==============================================================================
