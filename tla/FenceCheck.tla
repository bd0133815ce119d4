----------------------------- MODULE FenceCheck -----------------------------
(***************************************************************************)
(* fence-check (extras/scripts/orchestrating/fence-check/fence.go): does a *)
(* checkout differ from a base only inside its fence (`check`), and has a  *)
(* checkout drifted since a saved baseline (`snapshot`, `leak`).           *)
(*                                                                         *)
(* A checkout has three layers: the tree of HEAD, the index, the worktree. *)
(* `capture` reads them one after the other while somebody may edit,       *)
(* stage, unstage and commit.  Its third tree comes from a fresh index:    *)
(* HEAD's tree as captured, then git add --all from the worktree, which    *)
(* takes an ignored path only when that index already has it.              *)
(*                                                                         *)
(* Abstractions.  One checkout, whose layers are functions from Paths to   *)
(* Texts (Absent for a path that is not there).  `check` of a revision is  *)
(* a comparison of two trees and `check` of a checkout with an unsupported *)
(* feature (sparse, submodule, unmerged index) fails: Fail.                *)
(***************************************************************************)
EXTENDS Naturals, FiniteSets

CONSTANTS
    Paths,     \* paths of the repository
    Ignored,   \* the ones an ignore rule matches
    InFence,   \* the ones some --fence pattern matches
    Blobs,     \* contents of a path
    Absent,    \* no such path
    NoBaseline,\* no baseline file
    MaxActs    \* bound: edits, index updates and commits

\* What is asked of the constants.
FenceConstants == MaxActs \in Nat

VARIABLES
    headTree,   \* the tree of HEAD
    index,      \* the index
    worktree,   \* the files
    baseline,   \* the file `snapshot` wrote
    dispatched, \* the commit recorded at dispatch (check --base)
    session,    \* the running command and what it has captured
    verdict,    \* result of the last command
    acts,       \* edits, index updates and commits so far
    \* History, for the properties.
    touched,    \* paths acted on during the capture that is running
    blurred,    \* paths acted on during the capture of the baseline
    atSnapshot  \* the layers when `snapshot` ended

layers    == <<headTree, index, worktree>>
fenceVars == <<layers, baseline, dispatched, session, verdict, acts,
               touched, blurred, atSnapshot>>

PathTrees == [Paths -> Blobs \cup {Absent}]
Captures  == [head : PathTrees, index : PathTrees, worktree : PathTrees]
Layers    == [head |-> headTree, index |-> index, worktree |-> worktree]

\* The tree of the worktree that git add --all puts into an index that starts
\* from the tree `from`.
Added(from, files) ==
    [p \in Paths |-> IF p \in Ignored /\ from[p] = Absent THEN Absent ELSE files[p]]

\* Mutant: only the worktrees are compared.
WorktreeDifferences(before, after) == {p \in Paths : before.worktree[p] # after.worktree[p]}

Differences(before, after) ==
    {p \in Paths : \E layer \in {"head", "index", "worktree"} : before[layer][p] # after[layer][p]}

\* check compares every layer with the one base tree.
Thrice(tree) == [head |-> tree, index |-> tree, worktree |-> tree]

Outside(paths) == paths \ InFence

NoSession == [op |-> "none"]
Sessions ==
    {NoSession}
      \cup [op : {"check", "snapshot", "leak"}, step : {"Head", "Index", "Worktree", "Conclude"},
            state : Captures]

Empty == [p \in Paths |-> Absent]

FenceInit ==
    /\ headTree \in {[p \in Paths |-> IF p \in Ignored THEN Absent ELSE b] : b \in Blobs}
    /\ index = headTree /\ worktree = headTree
    /\ baseline = NoBaseline
    /\ dispatched = headTree
    /\ session = NoSession
    /\ verdict = "none"
    /\ acts = 0
    /\ touched = {} /\ blurred = {} /\ atSnapshot = Thrice(headTree)

----------------------------------------------------------------------------
(* Whoever works in the checkout                                           *)

Acted(paths) ==
    /\ acts < MaxActs
    /\ acts' = acts + 1
    /\ touched' = touched \cup paths
    /\ UNCHANGED <<baseline, dispatched, session, verdict, blurred, atSnapshot>>

EditFile(p, b) ==
    /\ worktree[p] # b
    /\ worktree' = [worktree EXCEPT ![p] = b]
    /\ UNCHANGED <<headTree, index>>
    /\ Acted({p})

\* git add, with -f for an ignored path; git rm --cached.
Stage(p) ==
    /\ index[p] # worktree[p]
    /\ index' = [index EXCEPT ![p] = worktree[p]]
    /\ UNCHANGED <<headTree, worktree>>
    /\ Acted({p})

Unstage(p) ==
    /\ index[p] # headTree[p]
    /\ index' = [index EXCEPT ![p] = headTree[p]]
    /\ UNCHANGED <<headTree, worktree>>
    /\ Acted({p})

Commit ==
    /\ index # headTree
    /\ headTree' = index
    /\ UNCHANGED <<index, worktree>>
    /\ Acted({p \in Paths : index[p] # headTree[p]})

----------------------------------------------------------------------------
(* The commands                                                            *)

Begin(op) ==
    /\ session = NoSession
    /\ session' = [op |-> op, step |-> "Head", state |-> Thrice(Empty)]
    /\ verdict' = "none"
    /\ touched' = {}
    /\ UNCHANGED <<layers, baseline, dispatched, acts, blurred, atSnapshot>>

StartFenceCheck == Begin("check")
\* os.O_EXCL: the baseline file must not exist.
StartSnapshot   == baseline = NoBaseline /\ Begin("snapshot")
StartLeak       == baseline # NoBaseline /\ Begin("leak")

CaptureHead ==
    /\ session.op # "none" /\ session.step = "Head"
    /\ session' = [session EXCEPT !.step = "Index", !.state.head = headTree]
    /\ UNCHANGED <<layers, baseline, dispatched, verdict, acts, touched, blurred, atSnapshot>>

CaptureIndex ==
    /\ session.op # "none" /\ session.step = "Index"
    /\ session' = [session EXCEPT !.step = "Worktree", !.state.index = index]
    /\ UNCHANGED <<layers, baseline, dispatched, verdict, acts, touched, blurred, atSnapshot>>

\* Mutant: the fresh index starts empty.
CaptureUntracked ==
    /\ session.op # "none" /\ session.step = "Worktree"
    /\ session' = [session EXCEPT !.step = "Conclude", !.state.worktree = Added(Empty, worktree)]
    /\ UNCHANGED <<layers, baseline, dispatched, verdict, acts, touched, blurred, atSnapshot>>

CaptureWorktree ==
    /\ session.op # "none" /\ session.step = "Worktree"
    /\ session' = [session EXCEPT !.step = "Conclude",
                                  !.state.worktree = Added(session.state.head, worktree)]
    /\ UNCHANGED <<layers, baseline, dispatched, verdict, acts, touched, blurred, atSnapshot>>

ConcludeCheck ==
    /\ session.op = "check" /\ session.step = "Conclude"
    /\ verdict' = IF Outside(Differences(Thrice(dispatched), session.state)) = {}
                  THEN "inside" ELSE "outside"
    /\ session' = NoSession
    /\ UNCHANGED <<layers, baseline, dispatched, acts, touched, blurred, atSnapshot>>

ConcludeSnapshot ==
    /\ session.op = "snapshot" /\ session.step = "Conclude"
    /\ baseline' = session.state
    /\ blurred' = touched
    /\ atSnapshot' = Layers
    /\ session' = NoSession
    /\ UNCHANGED <<layers, dispatched, verdict, acts, touched>>

ConcludeLeak ==
    /\ session.op = "leak" /\ session.step = "Conclude"
    /\ verdict' = IF Differences(baseline, session.state) = {} THEN "same" ELSE "drift"
    /\ session' = NoSession
    /\ UNCHANGED <<layers, baseline, dispatched, acts, touched, blurred, atSnapshot>>

\* Any git call, or an unsupported checkout, ends the command with code 125.
Fail ==
    /\ session.op # "none"
    /\ session' = NoSession
    /\ UNCHANGED <<layers, baseline, dispatched, verdict, acts, touched, blurred, atSnapshot>>

FenceNext ==
    \/ \E p \in Paths :
          \/ \E b \in Blobs \cup {Absent} : EditFile(p, b)
          \/ Stage(p) \/ Unstage(p)
    \/ Commit
    \/ StartFenceCheck \/ StartSnapshot \/ StartLeak
    \/ CaptureHead \/ CaptureIndex \/ CaptureWorktree
    \/ ConcludeCheck \/ ConcludeSnapshot \/ ConcludeLeak \/ Fail

FenceSpec == FenceInit /\ [][FenceNext]_fenceVars

----------------------------------------------------------------------------
(* Properties                                                              *)

\* Types of all variables.
FenceTypeOK ==
    /\ headTree \in PathTrees /\ index \in PathTrees /\ worktree \in PathTrees
    /\ baseline \in Captures \cup {NoBaseline}
    /\ dispatched \in PathTrees
    /\ session \in Sessions
    /\ verdict \in {"none", "inside", "outside", "same", "drift"}
    /\ acts \in 0..MaxActs
    /\ touched \subseteq Paths /\ blurred \subseteq Paths
    /\ atSnapshot \in Captures

\* The paths git does not show because they are ignored and in no commit.
Hidden(layer, p) == layer = "worktree" /\ p \in Ignored /\ headTree[p] = Absent

\* A path outside the fence that nobody acted on while `check` ran and that is
\* not as at dispatch - committed, staged, or in the worktree and not ignored
\* - makes the check fail (check, capture, differences, outside).
InsideUnless ==
    session.op = "check" /\ verdict' = "inside" /\ verdict = "none" =>
      \A p \in Outside(Paths) \ touched, layer \in {"head", "index", "worktree"} :
        ~Hidden(layer, p) => Layers[layer][p] = dispatched[p]

\* A leak check that finds no drift: every path nobody acted on during one of
\* the two captures is, in HEAD, in the index and in the worktree, what it was
\* when the snapshot was taken.  Ignored paths no commit has are left out.
SameUnless ==
    session.op = "leak" /\ verdict' = "same" /\ verdict = "none" =>
      \A p \in Paths \ (touched \cup blurred), layer \in {"head", "index", "worktree"} :
        ~Hidden(layer, p) => Layers[layer][p] = atSnapshot[layer][p]

=============================================================================
