--------------------------- MODULE WorkTreeProofs ---------------------------
(***************************************************************************)
(* What the tools around a work tree guarantee for every value of their    *)
(* constants: the fence check, the run receipt, the lanes, the lessons,    *)
(* the release pipeline, the bar guard and its parser of patches, each by  *)
(* an inductive invariant of its own.                                      *)
(***************************************************************************)
EXTENDS FenceCheck, RunReceipt, Lanes, Lessons, ReleasePipeline, BarGuard, DiffParser,
        FiniteSetTheorems, WellFoundedInduction, TLAPS

-----------------------------------------------------------------------------
(* FenceCheck: a capture against whoever works in the checkout *)

\* Of a path nobody has acted on since the capture began, the layers it has read so far are
\* as they are now; of the worktree that is what git add --all sees.
CaptureOK ==
    session.op # "none" =>
      \A p \in Paths \ touched :
        /\ session.step \in {"Index", "Worktree", "Conclude"} =>
             session.state.head[p] = headTree[p]
        /\ session.step \in {"Worktree", "Conclude"} => session.state.index[p] = index[p]
        /\ session.step = "Conclude" =>
             session.state.worktree[p] = Added(headTree, worktree)[p]

\* Of a path nobody acted on while the baseline was captured, the baseline has what was there
\* when the snapshot ended.
BaselineOK ==
    baseline # NoBaseline =>
      \A p \in Paths \ blurred :
        /\ baseline.head[p] = atSnapshot.head[p] /\ baseline.index[p] = atSnapshot.index[p]
        /\ baseline.worktree[p] = Added(atSnapshot.head, atSnapshot.worktree)[p]

FenceInv ==
    /\ FenceTypeOK /\ CaptureOK /\ BaselineOK
    /\ session.op = "leak" => baseline # NoBaseline

LEMMA AddedIs ==
    ASSUME NEW from, NEW contents, NEW p \in Paths
    PROVE  Added(from, contents)[p] = IF p \in Ignored /\ from[p] = Absent THEN Absent ELSE contents[p]
  BY DEF Added

LEMMA AddedIsTree ==
    ASSUME NEW from \in PathTrees, NEW contents \in PathTrees
    PROVE  Added(from, contents) \in PathTrees
  BY DEF Added, PathTrees

LEMMA InitFenceInv ==
    ASSUME FenceConstants, FenceInit
    PROVE  FenceInv
  <1>1. PICK b \in Blobs : headTree = [p \in Paths |-> IF p \in Ignored THEN Absent ELSE b]
    BY DEF FenceInit
  <1>2. headTree \in PathTrees
    BY <1>1 DEF PathTrees
  <1> QED
    BY <1>2 DEF FenceInit, FenceInv, FenceTypeOK, CaptureOK, BaselineOK, Sessions, NoSession,
                Captures, Thrice, FenceConstants

\* An edit, an index update or a commit changes only the paths it touches.
LEMMA ActedFenceInv ==
    ASSUME FenceConstants, FenceInv, NEW paths \in SUBSET Paths, Acted(paths),
           headTree' \in PathTrees, index' \in PathTrees, worktree' \in PathTrees,
           \A p \in Paths \ paths : /\ headTree'[p] = headTree[p] /\ index'[p] = index[p]
                                    /\ worktree'[p] = worktree[p]
    PROVE  FenceInv'
  <1>1. FenceTypeOK'
    BY DEF FenceConstants, FenceInv, FenceTypeOK, Acted
  <1>2. \A p \in Paths \ touched' : p \in Paths \ touched /\ p \in Paths \ paths
    BY DEF Acted
  <1>3. \A p \in Paths \ touched' : Added(headTree', worktree')[p] = Added(headTree, worktree)[p]
    BY <1>2, AddedIs
  <1>4. CaptureOK'
    BY <1>2, <1>3 DEF FenceInv, CaptureOK, Acted
  <1>5. BaselineOK'
    BY DEF FenceInv, BaselineOK, Acted, Added
  <1> QED
    BY <1>1, <1>4, <1>5 DEF FenceInv, Acted

LEMMA WorkKeepsFenceInv ==
    ASSUME FenceConstants, FenceInv,
           \/ \E p \in Paths : \/ \E b \in Blobs \cup {Absent} : EditFile(p, b)
                               \/ Stage(p) \/ Unstage(p)
           \/ Commit
    PROVE  FenceInv'
  <1> USE DEF FenceInv, FenceTypeOK, PathTrees
  <1>1. ASSUME NEW p \in Paths, NEW b \in Blobs \cup {Absent}, EditFile(p, b)
        PROVE  FenceInv'
    <2>1. /\ headTree' \in PathTrees /\ index' \in PathTrees /\ worktree' \in PathTrees
          /\ \A q \in Paths \ {p} : /\ headTree'[q] = headTree[q] /\ index'[q] = index[q]
                                    /\ worktree'[q] = worktree[q]
          /\ Acted({p})
      BY <1>1 DEF EditFile
    <2> QED BY <2>1, ActedFenceInv
  <1>2. ASSUME NEW p \in Paths, Stage(p) \/ Unstage(p)
        PROVE  FenceInv'
    <2>1. /\ headTree' \in PathTrees /\ index' \in PathTrees /\ worktree' \in PathTrees
          /\ \A q \in Paths \ {p} : /\ headTree'[q] = headTree[q] /\ index'[q] = index[q]
                                    /\ worktree'[q] = worktree[q]
          /\ Acted({p})
      BY <1>2 DEF Stage, Unstage
    <2> QED BY <2>1, ActedFenceInv
  <1>3. CASE Commit
    <2> DEFINE committed == {p \in Paths : index[p] # headTree[p]}
    <2>1. /\ headTree' \in PathTrees /\ index' \in PathTrees /\ worktree' \in PathTrees
          /\ \A q \in Paths \ committed : /\ headTree'[q] = headTree[q] /\ index'[q] = index[q]
                                          /\ worktree'[q] = worktree[q]
          /\ Acted(committed) /\ committed \in SUBSET Paths
      BY <1>3 DEF Commit
    <2> QED BY <2>1, ActedFenceInv
  <1> QED BY <1>1, <1>2, <1>3

\* A session under way, and its fields.
LEMMA SessionFields ==
    ASSUME session \in Sessions, session.op # "none"
    PROVE  /\ session \in [op : {"check", "snapshot", "leak"},
                           step : {"Head", "Index", "Worktree", "Conclude"}, state : Captures]
           /\ session.state \in Captures
  BY DEF Sessions, NoSession

LEMMA BeginFenceInv ==
    ASSUME FenceInv, NEW op \in {"check", "snapshot", "leak"}, Begin(op),
           op = "leak" => baseline # NoBaseline
    PROVE  FenceInv'
  <1>1. Thrice(Empty) \in Captures
    BY DEF Thrice, Empty, Captures, PathTrees
  <1>2. session' \in Sessions /\ session'.op = op /\ session'.step = "Head"
    BY <1>1 DEF Begin, Sessions
  <1>3. FenceTypeOK'
    BY <1>2 DEF FenceInv, FenceTypeOK, Begin, layers
  <1>4. CaptureOK' /\ BaselineOK'
    BY <1>2 DEF FenceInv, CaptureOK, BaselineOK, Begin, Added
  <1> QED BY <1>2, <1>3, <1>4 DEF FenceInv, Begin

LEMMA CaptureFenceInv ==
    ASSUME FenceInv, CaptureHead \/ CaptureIndex \/ CaptureWorktree
    PROVE  FenceInv'
  <1>1. /\ session.op # "none" /\ session.state \in Captures
        /\ session \in [op : {"check", "snapshot", "leak"},
                        step : {"Head", "Index", "Worktree", "Conclude"}, state : Captures]
    BY SessionFields DEF FenceInv, FenceTypeOK, CaptureHead, CaptureIndex, CaptureWorktree
  <1>2. /\ headTree \in PathTrees /\ index \in PathTrees /\ worktree \in PathTrees
        /\ UNCHANGED <<layers, baseline, dispatched, verdict, acts, touched, blurred, atSnapshot>>
    BY DEF FenceInv, FenceTypeOK, CaptureHead, CaptureIndex, CaptureWorktree
  <1>3. UNCHANGED <<headTree, index, worktree>>
    BY <1>2 DEF layers
  <1>4. BaselineOK'
    BY <1>2 DEF FenceInv, BaselineOK, Added
  <1>5. ASSUME session' \in [op : {"check", "snapshot", "leak"},
                             step : {"Head", "Index", "Worktree", "Conclude"}, state : Captures],
               session'.op = session.op, CaptureOK'
        PROVE  FenceInv'
    BY <1>2, <1>3, <1>4, <1>5 DEF FenceInv, FenceTypeOK, Sessions
  <1>6. CASE CaptureHead
    <2>1. /\ session' = [op |-> session.op, step |-> "Index",
                         state |-> [session.state EXCEPT !.head = headTree]]
      BY <1>1, <1>6 DEF CaptureHead
    <2>2. [session.state EXCEPT !.head = headTree] \in Captures
      BY <1>1, <1>2 DEF Captures
    <2>3. session'.state.head = headTree
      BY <1>1, <2>1 DEF Captures
    <2>4. CaptureOK'
      BY <1>2, <1>3, <2>1, <2>3 DEF CaptureOK
    <2> QED BY <1>1, <1>5, <2>1, <2>2, <2>4
  <1>7. CASE CaptureIndex
    <2>1. /\ session' = [op |-> session.op, step |-> "Worktree",
                         state |-> [session.state EXCEPT !.index = index]]
          /\ session.step = "Index"
      BY <1>1, <1>7 DEF CaptureIndex
    <2>2. [session.state EXCEPT !.index = index] \in Captures
      BY <1>1, <1>2 DEF Captures
    <2>3. session'.state.index = index /\ session'.state.head = session.state.head
      BY <1>1, <2>1 DEF Captures
    <2>4. CaptureOK'
      BY <1>1, <1>2, <1>3, <2>1, <2>3 DEF FenceInv, CaptureOK
    <2> QED BY <1>1, <1>5, <2>1, <2>2, <2>4
  <1>8. CASE CaptureWorktree
    <2>1. /\ session' = [op |-> session.op, step |-> "Conclude",
                         state |-> [session.state EXCEPT
                                      !.worktree = Added(session.state.head, worktree)]]
          /\ session.step = "Worktree"
      BY <1>1, <1>8 DEF CaptureWorktree
    <2>2. [session.state EXCEPT !.worktree = Added(session.state.head, worktree)] \in Captures
      BY <1>1, <1>2, AddedIsTree DEF Captures
    <2>3. /\ session'.state.worktree = Added(session.state.head, worktree)
          /\ session'.state.index = session.state.index
          /\ session'.state.head = session.state.head
      BY <1>1, <2>1 DEF Captures
    <2>4. \A p \in Paths \ touched :
            /\ session.state.head[p] = headTree[p] /\ session.state.index[p] = index[p]
            /\ Added(session.state.head, worktree)[p] = Added(headTree, worktree)[p]
      BY <1>1, <2>1, AddedIs DEF FenceInv, CaptureOK
    <2>5. CaptureOK'
      BY <1>2, <1>3, <2>1, <2>3, <2>4 DEF CaptureOK
    <2> QED BY <1>1, <1>5, <2>1, <2>2, <2>5
  <1> QED BY <1>6, <1>7, <1>8

LEMMA ConcludeFenceInv ==
    ASSUME FenceInv, ConcludeCheck \/ ConcludeSnapshot \/ ConcludeLeak \/ Fail
    PROVE  FenceInv'
  <1>1. /\ session.op # "none" /\ session.state \in Captures
    BY SessionFields
    DEF FenceInv, FenceTypeOK, ConcludeCheck, ConcludeSnapshot, ConcludeLeak, Fail
  <1>2. UNCHANGED <<headTree, index, worktree, dispatched, acts, touched>> /\ session' = NoSession
    BY DEF layers, ConcludeCheck, ConcludeSnapshot, ConcludeLeak, Fail
  <1>3. CaptureOK' /\ session'.op = "none" /\ session' \in Sessions
    BY <1>2 DEF CaptureOK, NoSession, Sessions
  <1>4. CASE ConcludeCheck \/ ConcludeLeak \/ Fail
    <2>1. /\ UNCHANGED <<baseline, blurred, atSnapshot>>
          /\ verdict' \in {verdict, "inside", "outside", "same", "drift"}
      BY <1>4 DEF ConcludeCheck, ConcludeLeak, Fail
    <2> QED
      BY <1>2, <1>3, <2>1 DEF FenceInv, FenceTypeOK, BaselineOK, Added
  <1>5. CASE ConcludeSnapshot
    <2>1. /\ baseline' = session.state /\ blurred' = touched /\ atSnapshot' = Layers
          /\ session.step = "Conclude" /\ UNCHANGED verdict
      BY <1>5 DEF ConcludeSnapshot
    <2>2. /\ Layers \in Captures /\ Layers.head = headTree /\ Layers.index = index
          /\ Layers.worktree = worktree
      BY DEF FenceInv, FenceTypeOK, Layers, Captures
    <2>3. BaselineOK'
      BY <1>1, <2>1, <2>2 DEF FenceInv, CaptureOK, BaselineOK
    <2> QED
      BY <1>1, <1>2, <1>3, <2>1, <2>2, <2>3 DEF FenceInv, FenceTypeOK
  <1> QED BY <1>4, <1>5

LEMMA NextFenceInv ==
    ASSUME FenceConstants, FenceInv, [FenceNext]_fenceVars
    PROVE  FenceInv'
  <1>1. CASE StartFenceCheck \/ StartSnapshot \/ StartLeak
    BY <1>1, BeginFenceInv DEF StartFenceCheck, StartSnapshot, StartLeak
  <1>2. CASE UNCHANGED fenceVars
    BY <1>2
    DEF fenceVars, layers, FenceInv, FenceTypeOK, CaptureOK, BaselineOK, Added
  <1> QED
    BY <1>1, <1>2, WorkKeepsFenceInv, CaptureFenceInv, ConcludeFenceInv DEF FenceNext

\* The step that says "inside" or "same".
LEMMA InsideSays ==
    ASSUME FenceInv, [FenceNext]_fenceVars
    PROVE  InsideUnless
  <1> SUFFICES ASSUME session.op = "check", verdict' = "inside", verdict = "none",
                      NEW p \in Outside(Paths) \ touched,
                      NEW layer \in {"head", "index", "worktree"}, ~Hidden(layer, p)
               PROVE  Layers[layer][p] = dispatched[p]
    BY DEF InsideUnless
  <1>1. ConcludeCheck
    BY DEF FenceNext, EditFile, Stage, Unstage, Commit, Acted, StartFenceCheck, StartSnapshot,
           StartLeak, Begin, NoSession, CaptureHead, CaptureIndex, CaptureWorktree,
           ConcludeSnapshot, ConcludeLeak, Fail, fenceVars
  <1>2. session.step = "Conclude" /\ Outside(Differences(Thrice(dispatched), session.state)) = {}
    BY <1>1 DEF ConcludeCheck
  <1>3. p \in Paths \ touched /\ p \notin Differences(Thrice(dispatched), session.state)
    BY <1>2 DEF Outside
  <1>4. \A l \in {"head", "index", "worktree"} : Thrice(dispatched)[l][p] = session.state[l][p]
    BY <1>3 DEF Differences
  <1>5. /\ session.state["head"][p] = dispatched[p] /\ session.state["index"][p] = dispatched[p]
        /\ session.state["worktree"][p] = dispatched[p]
    BY <1>4 DEF Thrice
  <1>6. /\ session.state.head[p] = headTree[p] /\ session.state.index[p] = index[p]
        /\ session.state.worktree[p] = Added(headTree, worktree)[p]
    BY <1>2, <1>3 DEF FenceInv, CaptureOK
  <1>7. layer = "worktree" => session.state.worktree[p] = worktree[p]
    BY <1>3, <1>6, AddedIs DEF Hidden
  <1> QED BY <1>5, <1>6, <1>7 DEF Layers

LEMMA SameSays ==
    ASSUME FenceInv, [FenceNext]_fenceVars
    PROVE  SameUnless
  <1> SUFFICES ASSUME session.op = "leak", verdict' = "same", verdict = "none",
                      NEW p \in Paths \ (touched \cup blurred),
                      NEW layer \in {"head", "index", "worktree"}, ~Hidden(layer, p)
               PROVE  Layers[layer][p] = atSnapshot[layer][p]
    BY DEF SameUnless
  <1>1. ConcludeLeak
    BY DEF FenceNext, EditFile, Stage, Unstage, Commit, Acted, StartFenceCheck, StartSnapshot,
           StartLeak, Begin, NoSession, CaptureHead, CaptureIndex, CaptureWorktree,
           ConcludeSnapshot, ConcludeCheck, Fail, fenceVars
  <1>2. session.step = "Conclude" /\ Differences(baseline, session.state) = {}
    BY <1>1 DEF ConcludeLeak
  <1>3. p \in Paths \ touched /\ p \in Paths \ blurred /\ baseline # NoBaseline
    BY DEF FenceInv
  <1>4. /\ session.state.head[p] = baseline.head[p] /\ session.state.index[p] = baseline.index[p]
        /\ session.state.worktree[p] = baseline.worktree[p]
    BY <1>2, <1>3 DEF Differences
  <1>5. /\ session.state.head[p] = headTree[p] /\ session.state.index[p] = index[p]
        /\ session.state.worktree[p] = Added(headTree, worktree)[p]
    BY <1>2, <1>3 DEF FenceInv, CaptureOK
  <1>6. /\ baseline.head[p] = atSnapshot.head[p] /\ baseline.index[p] = atSnapshot.index[p]
        /\ baseline.worktree[p] = Added(atSnapshot.head, atSnapshot.worktree)[p]
    BY <1>3 DEF FenceInv, BaselineOK
  <1>7. headTree[p] = atSnapshot.head[p] /\ index[p] = atSnapshot.index[p]
    BY <1>4, <1>5, <1>6
  <1>8. ASSUME layer = "worktree" PROVE worktree[p] = atSnapshot.worktree[p]
    <2>1. ~(p \in Ignored /\ headTree[p] = Absent)
      BY <1>8 DEF Hidden
    <2>2. Added(headTree, worktree)[p] = worktree[p]
      BY <1>3, <2>1, AddedIs
    <2>3. Added(atSnapshot.head, atSnapshot.worktree)[p] = atSnapshot.worktree[p]
      BY <1>3, <1>7, <2>1 DEF Added
    <2> QED BY <1>4, <1>5, <1>6, <2>2, <2>3
  <1> QED BY <1>7, <1>8 DEF Layers

LEMMA FenceInvSays ==
    ASSUME FenceInv
    PROVE  FenceTypeOK
  BY DEF FenceInv

LEMMA FenceInvariance ==
    ASSUME FenceConstants
    PROVE  FenceSpec => []FenceInv
  BY InitFenceInv, NextFenceInv, PTL DEF FenceSpec

\* A check that says "inside" has overlooked no path outside the fence that was not acted on
\* while it ran, be it committed, staged or in the worktree (check, capture).
THEOREM InsideIsInside ==
    ASSUME FenceConstants
    PROVE  FenceSpec => [][InsideUnless]_fenceVars
  <1>1. FenceInv /\ [FenceNext]_fenceVars => [InsideUnless]_fenceVars
    BY InsideSays
  <1> QED BY <1>1, FenceInvariance, PTL DEF FenceSpec

\* A leak check that says "same" finds in every layer what the snapshot found, but for paths
\* acted on during one of the two captures (leak, capture).
THEOREM SameIsSame ==
    ASSUME FenceConstants
    PROVE  FenceSpec => [][SameUnless]_fenceVars
  <1>1. FenceInv /\ [FenceNext]_fenceVars => [SameUnless]_fenceVars
    BY SameSays
  <1> QED BY <1>1, FenceInvariance, PTL DEF FenceSpec

-----------------------------------------------------------------------------
(* RunReceipt: what a run has read of the checkout, and what its receipt says of it *)

\* What git says of files `now` on top of the commit t.
StatusOf(t, now) == (IF now[1] # t THEN {"tracked"} ELSE {})
                      \cup (IF now[2] # Nothing THEN {"extra"} ELSE {})
DiffOf(t, now) == IF now[1] # t THEN <<t, now[1]>> ELSE Nothing

IsIdentity(i, t, now) ==
    /\ i.head = t /\ i.status = StatusOf(t, now) /\ i.diff = DiffOf(t, now)
    /\ i.untracked = IF StatusOf(t, now) = {} THEN Nothing ELSE HashUntracked(now[2])

\* Of a run i, while the checkout has the files `now` on top of t and the directory the receipts
\* rs: what it has read is what is there, unless somebody wrote to the checkout meanwhile.
LooksOK(i, t, now) ==
    /\ i.at = "status" => i.identity.head = t /\ i.identity.untracked = Nothing
    /\ i.at = "diff" =>
         /\ i.identity.head = t /\ i.identity.untracked = Nothing
         /\ i.identity.status = StatusOf(t, now)
    /\ i.at = "untracked" =>
         /\ i.identity.head = t /\ i.identity.status = StatusOf(t, now)
         /\ i.identity.diff = DiffOf(t, now) /\ StatusOf(t, now) # {}
    /\ i.at \in {"find", "check", "reused"} /\ i.identity.state # "none" =>
         IsIdentity(i.identity, t, now)
    /\ i.at = "exited" /\ i.identity.state # "none" =>
         \E h \in Contents : IsIdentity(i.identity, h, i.saw)

RunOK(i, t, now, rs) ==
    /\ i.at \in {"start", "head"} => i.identity.untracked = Nothing
    /\ i.at \notin {"start", "done"} => i.key \in Keys
    /\ i.at = "exited" => i.saw \in Snapshots /\ i.exit \in {0, 1}
    /\ i.at = "reused" => /\ i.cited \in rs /\ i.cited.exit = 0
                          /\ i.cited.identity = i.identity /\ i.identity.state # "none"
    /\ i.steady => LooksOK(i, t, now)

\* A receipt of a run nobody disturbed is of the files its check read.
ReceiptOK(c) ==
    c.steady /\ c.identity.state # "none" => \E t \in Contents : IsIdentity(c.identity, t, c.saw)

Now == <<tracked, extra>>

ReceiptInv ==
    /\ ReceiptTypeOK
    /\ \A r \in Runs : RunOK(invocation[r], tip, Now, receipts)
    /\ \A c \in receipts : ReceiptOK(c)

RunRecord ==
    [at : Stages, key : Keys \cup {Nothing}, reuse : BOOLEAN, identity : Identities,
     exit : {0, 1, Nothing}, start : Nat, cited : Receipts \cup {Nothing},
     saw : Snapshots \cup {Nothing}, steady : BOOLEAN]

LEMMA IdentityFields ==
    ASSUME NEW i \in Identities
    PROVE  /\ i.head \in Contents \cup {Nothing} /\ i.state \in {"none", "clean", "dirty"}
           /\ i.status \in SUBSET {"tracked", "extra"}
           /\ i.diff \in Contents \X Contents \cup {Nothing} /\ i.untracked \in Digests
  BY DEF Identities

LEMMA RunFields ==
    ASSUME NEW i \in RunRecord
    PROVE  /\ i.at \in Stages /\ i.key \in Keys \cup {Nothing} /\ i.reuse \in BOOLEAN
           /\ i.identity \in Identities /\ i.exit \in {0, 1, Nothing} /\ i.start \in Nat
           /\ i.cited \in Receipts \cup {Nothing} /\ i.saw \in Snapshots \cup {Nothing}
           /\ i.steady \in BOOLEAN
  BY DEF RunRecord

LEMMA UnknownIsIdentity == Unknown \in Identities /\ \A h \in Contents \cup {Nothing} :
                             [Unknown EXCEPT !.head = h] \in Identities
  BY DEF Unknown, Identities, Digests

LEMMA NotRunningType ==
    ASSUME NEW at \in Stages
    PROVE  NotRunning(at) \in RunRecord
  BY UnknownIsIdentity DEF NotRunning, RunRecord

LEMMA InitReceiptInv ==
    ASSUME ReceiptConstants, ReceiptInit
    PROVE  ReceiptInv
  <1>1. /\ NotRunning("start") \in RunRecord /\ NotRunning("start").at = "start"
        /\ NotRunning("start").identity.untracked = Nothing
        /\ \A r \in Runs : invocation[r] = NotRunning("start")
    BY NotRunningType DEF Stages, NotRunning, Unknown, ReceiptInit
  <1>2. invocation \in [Runs -> RunRecord]
    BY <1>1 DEF ReceiptInit
  <1>3. ReceiptTypeOK
    BY <1>2 DEF ReceiptConstants, ReceiptInit, ReceiptTypeOK, RunRecord
  <1>4. \A r \in Runs : RunOK(invocation[r], tip, Now, receipts)
    BY <1>1 DEF RunOK, LooksOK
  <1> QED
    BY <1>3, <1>4 DEF ReceiptInit, ReceiptInv

\* A step of the run r.
LEMMA StepOfRun ==
    ASSUME ReceiptInv, NEW r \in Runs, invocation' \in [Runs -> RunRecord],
           \A q \in Runs \ {r} : invocation'[q] = invocation[q],
           UNCHANGED <<checkout, receipts, writes>>, logs' \subseteq Runs,
           nextStart' \in Nat \ {0},
           RunOK(invocation'[r], tip, Now, receipts)
    PROVE  ReceiptInv'
  <1>1. ReceiptTypeOK'
    BY DEF ReceiptInv, ReceiptTypeOK, RunRecord, checkout
  <1>2. ASSUME NEW q \in Runs PROVE RunOK(invocation[q], tip, Now, receipts)'
    BY DEF ReceiptInv, checkout, Now
  <1>3. \A c \in receipts' : ReceiptOK(c)
    BY DEF ReceiptInv
  <1> QED
    BY <1>1, <1>2, <1>3 DEF ReceiptInv, ReceiptOK

LEMMA TypesOfReceipts ==
    ASSUME ReceiptInv
    PROVE  /\ tip \in Contents /\ tracked \in Contents /\ extra \in Extras \cup {Nothing}
           /\ receipts \subseteq Receipts /\ logs \subseteq Runs
           /\ invocation \in [Runs -> RunRecord] /\ nextStart \in Nat \ {0}
           /\ writes \in 0..MaxWrites
  BY DEF ReceiptInv, ReceiptTypeOK, RunRecord

LEMMA ExitKeepsInv ==
    ASSUME ReceiptInv, NEW r \in Runs, Exit(r), Unmoved
    PROVE  ReceiptInv'
  <1>1. /\ NotRunning("done") \in RunRecord /\ NotRunning("done").at = "done"
        /\ invocation \in [Runs -> RunRecord] /\ logs \subseteq Runs /\ nextStart \in Nat \ {0}
    BY NotRunningType, TypesOfReceipts DEF Stages, NotRunning
  <1>2. /\ invocation' \in [Runs -> RunRecord] /\ invocation'[r].at = "done"
        /\ \A q \in Runs \ {r} : invocation'[q] = invocation[q]
    BY <1>1 DEF Exit
  <1>3. RunOK(invocation'[r], tip, Now, receipts)
    BY <1>2 DEF RunOK, LooksOK
  <1> QED
    BY <1>1, <1>2, <1>3, StepOfRun DEF Unmoved

\* Whoever writes to the checkout disturbs every run that has begun to look at it.
LEMMA WriteKeepsInv ==
    ASSUME ReceiptConstants, ReceiptInv, Written,
           tip' \in Contents, tracked' \in Contents, extra' \in Extras \cup {Nothing}
    PROVE  ReceiptInv'
  <1>1. invocation \in [Runs -> RunRecord] /\ writes \in 0..MaxWrites
    BY TypesOfReceipts
  <1>2. ASSUME NEW r \in Runs
        PROVE  /\ invocation'[r] \in RunRecord
               /\ RunOK(invocation'[r], tip', Now', receipts)
    <2>1. invocation[r] \in RunRecord /\ RunOK(invocation[r], tip, Now, receipts)
      BY <1>1 DEF ReceiptInv
    <2>2. CASE invocation[r].at \in {"start", "exited", "done"}
      <3>1. invocation'[r] = invocation[r]
        BY <2>2 DEF Written
      <3> QED BY <2>1, <2>2, <3>1 DEF RunOK, LooksOK
    <2>3. CASE invocation[r].at \notin {"start", "exited", "done"}
      <3>1. invocation'[r] = [invocation[r] EXCEPT !.steady = FALSE]
        BY <2>3 DEF Written
      <3>2. invocation'[r] \in RunRecord
        BY <2>1, <3>1 DEF RunRecord
      <3>3. /\ ~invocation'[r].steady /\ invocation'[r].at = invocation[r].at
            /\ invocation'[r].key = invocation[r].key
            /\ invocation'[r].identity = invocation[r].identity
            /\ invocation'[r].cited = invocation[r].cited
            /\ invocation'[r].exit = invocation[r].exit /\ invocation'[r].saw = invocation[r].saw
        BY <2>1, <3>1 DEF RunRecord
      <3> QED BY <2>1, <3>2, <3>3 DEF RunOK
    <2> QED BY <2>2, <2>3
  <1>3. invocation' \in [Runs -> RunRecord]
    <2>1. DOMAIN invocation' = Runs /\ invocation' = [r \in Runs |-> invocation'[r]]
      BY DEF Written
    <2> QED BY <1>2, <2>1
  <1>4. writes' \in 0..MaxWrites /\ UNCHANGED <<receipts, logs, nextStart>>
    BY <1>1 DEF Written, ReceiptConstants
  <1>5. ReceiptTypeOK'
    BY <1>3, <1>4 DEF ReceiptInv, ReceiptTypeOK, RunRecord
  <1>6. \A r \in Runs : RunOK(invocation'[r], tip', Now', receipts')
    BY <1>2, <1>4
  <1>7. \A c \in receipts' : ReceiptOK(c)
    BY <1>4 DEF ReceiptInv
  <1> QED BY <1>5, <1>6, <1>7 DEF ReceiptInv, ReceiptOK

LEMMA InvokeKeepsInv ==
    ASSUME ReceiptInv, NEW r \in Runs, NEW k \in Keys, NEW reuse \in BOOLEAN, Invoke(r, k, reuse)
    PROVE  ReceiptInv'
  <1> DEFINE i == invocation[r]
             j == invocation'[r]
  <1>1. /\ invocation \in [Runs -> RunRecord] /\ i \in RunRecord /\ RunOK(i, tip, Now, receipts)
        /\ logs \subseteq Runs /\ nextStart \in Nat \ {0}
    BY TypesOfReceipts DEF ReceiptInv
  <1>2. /\ j = [i EXCEPT !.at = "head", !.key = k, !.reuse = reuse]
        /\ invocation' = [invocation EXCEPT ![r] = j]
        /\ i.at = "start" /\ Unmoved
    BY <1>1 DEF Invoke
  <1>3. j \in RunRecord /\ j.at = "head" /\ j.key = k /\ j.identity = i.identity
    BY <1>1, <1>2 DEF RunRecord, Stages
  <1>4. RunOK(j, tip, Now, receipts)
    BY <1>1, <1>2, <1>3 DEF RunOK, LooksOK
  <1> QED
    BY <1>1, <1>2, <1>3, <1>4, StepOfRun DEF Unmoved

\* gitIdentity asks git for one more part.
LEMMA LookKeepsInv ==
    ASSUME ReceiptInv, NEW r \in Runs,
           ReadHead(r) \/ ReadStatus(r) \/ ReadDiff(r) \/ ReadUntracked(r)
    PROVE  ReceiptInv'
  <1> DEFINE i == invocation[r]
             j == invocation'[r]
  <1>1. /\ invocation \in [Runs -> RunRecord] /\ i \in RunRecord /\ RunOK(i, tip, Now, receipts)
        /\ logs \subseteq Runs /\ nextStart \in Nat \ {0}
        /\ tip \in Contents /\ tracked \in Contents /\ extra \in Extras \cup {Nothing}
    BY TypesOfReceipts DEF ReceiptInv
  <1>2. i.identity \in Identities
    BY <1>1 DEF RunRecord
  <1>3. Status = StatusOf(tip, Now) /\ Diff = DiffOf(tip, Now) /\ Now[2] = extra
    BY DEF Status, Diff, StatusOf, DiffOf, Now
  <1>4. /\ Status \in SUBSET {"tracked", "extra"} /\ Diff \in Contents \X Contents \cup {Nothing}
        /\ HashUntracked(extra) \in Digests
    BY <1>1 DEF Status, Diff, HashUntracked, Digests
  <1>5. ASSUME j \in RunRecord, j.key = i.key, j.steady = i.steady,
               i.at \notin {"start", "done"},
               j.at \in {"status", "diff", "untracked", "find"},
               i.steady => LooksOK(j, tip, Now),
               invocation' = [invocation EXCEPT ![r] = j], Unmoved
        PROVE  ReceiptInv'
    <2>1. RunOK(j, tip, Now, receipts)
      BY <1>1, <1>5 DEF RunOK
    <2> QED
      BY <1>1, <1>5, <2>1, StepOfRun DEF Unmoved
  <1>6. CASE ReadHead(r)
    <2>1. /\ j = [i EXCEPT !.at = "status", !.identity = [i.identity EXCEPT !.head = tip]]
          /\ invocation' = [invocation EXCEPT ![r] = j] /\ i.at = "head" /\ Unmoved
      BY <1>1, <1>6 DEF ReadHead, RunRecord
    <2>2. [i.identity EXCEPT !.head = tip] \in Identities
      BY <1>1, <1>2 DEF Identities
    <2>3. /\ j \in RunRecord /\ j.at = "status" /\ j.key = i.key /\ j.steady = i.steady
          /\ j.identity = [i.identity EXCEPT !.head = tip]
      BY <1>1, <2>1, <2>2 DEF RunRecord, Stages
    <2>4. j.identity.head = tip /\ j.identity.untracked = i.identity.untracked
      BY <1>2, <2>3 DEF Identities
    <2>5. i.steady => LooksOK(j, tip, Now)
      BY <1>1, <2>1, <2>3, <2>4 DEF RunOK, LooksOK
    <2> QED BY <1>5, <2>1, <2>3, <2>5
  <1>7. CASE ReadStatus(r)
    <2>1. /\ j = [i EXCEPT !.at = "diff", !.identity = [i.identity EXCEPT !.status = Status]]
          /\ invocation' = [invocation EXCEPT ![r] = j] /\ i.at = "status" /\ Unmoved
      BY <1>1, <1>7 DEF ReadStatus, RunRecord
    <2>2. [i.identity EXCEPT !.status = Status] \in Identities
      BY <1>2, <1>4 DEF Identities
    <2>3. /\ j \in RunRecord /\ j.at = "diff" /\ j.key = i.key /\ j.steady = i.steady
          /\ j.identity = [i.identity EXCEPT !.status = Status]
      BY <1>1, <2>1, <2>2 DEF RunRecord, Stages
    <2>4. /\ j.identity.head = i.identity.head /\ j.identity.untracked = i.identity.untracked
          /\ j.identity.status = Status
      BY <1>2, <2>3 DEF Identities
    <2>5. i.steady => LooksOK(j, tip, Now)
      BY <1>1, <1>3, <2>1, <2>3, <2>4 DEF RunOK, LooksOK
    <2> QED BY <1>5, <2>1, <2>3, <2>5
  <1>8. CASE ReadDiff(r)
    <2> DEFINE clean == i.identity.status = {} /\ Diff = Nothing
               s == IF clean THEN "clean" ELSE "dirty"
               at == IF clean THEN "find" ELSE "untracked"
    <2>1. /\ j = [i EXCEPT !.identity = [i.identity EXCEPT !.diff = Diff, !.state = s],
                           !.at = at]
          /\ invocation' = [invocation EXCEPT ![r] = j] /\ i.at = "diff" /\ Unmoved
      BY <1>1, <1>8 DEF ReadDiff, RunRecord
    <2>2. [i.identity EXCEPT !.diff = Diff, !.state = s] \in Identities
      BY <1>2, <1>4 DEF Identities
    <2>3. /\ j \in RunRecord /\ j.at = at /\ j.key = i.key /\ j.steady = i.steady
          /\ j.identity = [i.identity EXCEPT !.diff = Diff, !.state = s]
      BY <1>1, <2>1, <2>2 DEF RunRecord, Stages
    <2>4. /\ j.identity.head = i.identity.head /\ j.identity.untracked = i.identity.untracked
          /\ j.identity.status = i.identity.status /\ j.identity.diff = Diff
      BY <1>2, <2>3 DEF Identities
    <2>5. i.identity.status = StatusOf(tip, Now) =>
            (clean <=> StatusOf(tip, Now) = {})
      BY <1>3 DEF StatusOf, DiffOf
    <2>6. i.steady => LooksOK(j, tip, Now)
      BY <1>1, <1>3, <2>1, <2>3, <2>4, <2>5 DEF RunOK, LooksOK, IsIdentity
    <2> QED BY <1>5, <2>1, <2>3, <2>6
  <1>9. CASE ReadUntracked(r)
    <2>1. /\ j = [i EXCEPT !.at = "find",
                           !.identity = [i.identity EXCEPT !.untracked = HashUntracked(extra)]]
          /\ invocation' = [invocation EXCEPT ![r] = j] /\ i.at = "untracked" /\ Unmoved
      BY <1>1, <1>9 DEF ReadUntracked, RunRecord
    <2>2. [i.identity EXCEPT !.untracked = HashUntracked(extra)] \in Identities
      BY <1>2, <1>4 DEF Identities
    <2>3. /\ j \in RunRecord /\ j.at = "find" /\ j.key = i.key /\ j.steady = i.steady
          /\ j.identity = [i.identity EXCEPT !.untracked = HashUntracked(extra)]
      BY <1>1, <2>1, <2>2 DEF RunRecord, Stages
    <2>4. /\ j.identity.head = i.identity.head /\ j.identity.status = i.identity.status
          /\ j.identity.diff = i.identity.diff
          /\ j.identity.untracked = HashUntracked(extra)
      BY <1>2, <2>3 DEF Identities
    <2>5. i.steady => LooksOK(j, tip, Now)
      BY <1>1, <1>3, <2>1, <2>3, <2>4 DEF RunOK, LooksOK, IsIdentity
    <2> QED BY <1>5, <2>1, <2>3, <2>5
  <1> QED
    BY <1>6, <1>7, <1>8, <1>9

LEMMA NoIdentityKeepsInv ==
    ASSUME ReceiptInv, NEW r \in Runs, NoIdentity(r)
    PROVE  ReceiptInv'
  <1> DEFINE i == invocation[r]
             j == invocation'[r]
             none == [Unknown EXCEPT !.head = i.identity.head]
  <1>1. /\ invocation \in [Runs -> RunRecord] /\ i \in RunRecord /\ RunOK(i, tip, Now, receipts)
        /\ logs \subseteq Runs /\ nextStart \in Nat \ {0}
    BY TypesOfReceipts DEF ReceiptInv
  <1>2. none \in Identities /\ none.state = "none"
    BY <1>1, RunFields, IdentityFields, UnknownIsIdentity DEF Unknown
  <1>3. /\ j = [i EXCEPT !.at = "find", !.identity = none]
        /\ invocation' = [invocation EXCEPT ![r] = j] /\ Unmoved
        /\ i.at \in {"head", "status", "diff", "untracked"}
    BY <1>1 DEF NoIdentity
  <1>4. j \in RunRecord /\ j.at = "find" /\ j.key = i.key /\ j.identity = none
    BY <1>1, <1>2, <1>3 DEF RunRecord, Stages
  <1>5. RunOK(j, tip, Now, receipts)
    BY <1>1, <1>2, <1>3, <1>4 DEF RunOK, LooksOK
  <1> QED
    BY <1>1, <1>3, <1>4, <1>5, StepOfRun DEF Unmoved

LEMMA ReuseKeepsInv ==
    ASSUME ReceiptInv, NEW r \in Runs, Reuse(r)
    PROVE  ReceiptInv'
  <1> DEFINE i == invocation[r]
             j == invocation'[r]
  <1>1. /\ invocation \in [Runs -> RunRecord] /\ i \in RunRecord /\ RunOK(i, tip, Now, receipts)
        /\ logs \subseteq Runs /\ nextStart \in Nat \ {0} /\ receipts \subseteq Receipts
    BY TypesOfReceipts DEF ReceiptInv
  <1>2. PICK c \in receipts : /\ Newest(r, c)
                              /\ invocation' = [invocation EXCEPT ![r].at = "reused",
                                                                  ![r].cited = c]
    BY DEF Reuse
  <1>3. /\ j = [i EXCEPT !.at = "reused", !.cited = c]
        /\ invocation' = [invocation EXCEPT ![r] = j] /\ Unmoved
        /\ i.at = "find" /\ i.identity.state # "none"
    BY <1>1, <1>2 DEF Reuse, MayReuse
  <1>4. c \in Receipts /\ c.exit = 0 /\ c.identity = i.identity
    BY <1>1, <1>2 DEF Newest, Matches
  <1>5. /\ j \in RunRecord /\ j.at = "reused" /\ j.key = i.key /\ j.identity = i.identity
        /\ j.cited = c /\ j.steady = i.steady
    BY <1>1, <1>3, <1>4 DEF RunRecord, Stages
  <1>6. RunOK(j, tip, Now, receipts)
    BY <1>1, <1>2, <1>3, <1>4, <1>5 DEF RunOK, LooksOK
  <1> QED
    BY <1>1, <1>3, <1>5, <1>6, StepOfRun DEF Unmoved

LEMMA CreateLogKeepsInv ==
    ASSUME ReceiptInv, NEW r \in Runs, CreateLog(r)
    PROVE  ReceiptInv'
  <1> DEFINE i == invocation[r]
             j == invocation'[r]
  <1>1. /\ invocation \in [Runs -> RunRecord] /\ i \in RunRecord /\ RunOK(i, tip, Now, receipts)
        /\ logs \subseteq Runs /\ nextStart \in Nat \ {0}
    BY TypesOfReceipts DEF ReceiptInv
  <1>2. /\ j = [i EXCEPT !.at = "check", !.start = nextStart]
        /\ invocation' = [invocation EXCEPT ![r] = j] /\ i.at = "find"
        /\ logs' = logs \cup {r} /\ nextStart' = nextStart + 1
        /\ UNCHANGED <<checkout, receipts, writes>>
    BY <1>1 DEF CreateLog
  <1>3. /\ j \in RunRecord /\ j.at = "check" /\ j.key = i.key /\ j.identity = i.identity
        /\ j.steady = i.steady
    BY <1>1, <1>2 DEF RunRecord, Stages
  <1>4. RunOK(j, tip, Now, receipts)
    BY <1>1, <1>2, <1>3 DEF RunOK, LooksOK
  <1> QED
    BY <1>1, <1>2, <1>3, <1>4, StepOfRun

\* The check reads what is there: if nobody wrote since the look at it, the identity is of it.
LEMMA CheckKeepsInv ==
    ASSUME ReceiptInv, NEW r \in Runs, Check(r)
    PROVE  ReceiptInv'
  <1> DEFINE i == invocation[r]
             j == invocation'[r]
  <1>1. /\ invocation \in [Runs -> RunRecord] /\ i \in RunRecord /\ RunOK(i, tip, Now, receipts)
        /\ logs \subseteq Runs /\ nextStart \in Nat \ {0}
        /\ tip \in Contents /\ tracked \in Contents /\ extra \in Extras \cup {Nothing}
    BY TypesOfReceipts DEF ReceiptInv
  <1>2. PICK code \in {0, 1} :
          invocation' = [invocation EXCEPT ![r].at = "exited", ![r].exit = code,
                                           ![r].saw = <<tracked, extra>>]
    BY DEF Check
  <1>3. /\ j = [i EXCEPT !.at = "exited", !.exit = code, !.saw = Now]
        /\ invocation' = [invocation EXCEPT ![r] = j] /\ i.at = "check" /\ Unmoved
        /\ Now \in Snapshots
    BY <1>1, <1>2 DEF Check, Now, Snapshots
  <1>4. /\ j \in RunRecord /\ j.at = "exited" /\ j.key = i.key /\ j.identity = i.identity
        /\ j.steady = i.steady /\ j.saw = Now /\ j.exit = code
    BY <1>1, <1>3 DEF RunRecord, Stages
  <1>5. RunOK(j, tip, Now, receipts)
    BY <1>1, <1>3, <1>4 DEF RunOK, LooksOK
  <1> QED
    BY <1>1, <1>3, <1>4, <1>5, StepOfRun DEF Unmoved

LEMMA WriteReceiptKeepsInv ==
    ASSUME ReceiptInv, NEW r \in Runs, WriteReceipt(r)
    PROVE  ReceiptInv'
  <1> DEFINE i == invocation[r]
             c == [run |-> r, key |-> i.key, identity |-> i.identity, exit |-> i.exit,
                   start |-> i.start, saw |-> i.saw, steady |-> i.steady]
  <1>1. /\ invocation \in [Runs -> RunRecord] /\ i \in RunRecord /\ RunOK(i, tip, Now, receipts)
        /\ receipts \subseteq Receipts
    BY TypesOfReceipts DEF ReceiptInv
  <1>2. /\ i.at = "exited" /\ receipts' = receipts \cup {c} /\ Exit(r)
        /\ UNCHANGED <<checkout, logs, nextStart, writes>>
    BY DEF WriteReceipt
  <1>3. i.key \in Keys /\ i.saw \in Snapshots /\ i.exit \in {0, 1}
    BY <1>1, <1>2 DEF RunOK
  <1>4. c \in Receipts
    BY <1>1, <1>3, RunFields DEF Receipts
  <1>5. ReceiptOK(c)
    BY <1>1, <1>2 DEF RunOK, LooksOK, ReceiptOK
  <1>6. /\ NotRunning("done") \in RunRecord /\ NotRunning("done").at = "done"
        /\ invocation' = [invocation EXCEPT ![r] = NotRunning("done")]
    BY <1>2, NotRunningType DEF Stages, NotRunning, Exit
  <1>7. invocation' \in [Runs -> RunRecord]
    BY <1>1, <1>6
  <1>8. ReceiptTypeOK'
    BY <1>1, <1>2, <1>4, <1>7 DEF ReceiptInv, ReceiptTypeOK, RunRecord, checkout
  <1>9. ASSUME NEW q \in Runs PROVE RunOK(invocation'[q], tip, Now, receipts')
    <2>1. CASE q = r
      BY <1>1, <1>6, <2>1 DEF RunOK, LooksOK
    <2>2. CASE q # r
      <3>1. invocation'[q] = invocation[q] /\ RunOK(invocation[q], tip, Now, receipts)
        BY <1>1, <1>6, <2>2 DEF ReceiptInv
      <3> QED BY <1>2, <3>1 DEF RunOK
    <2> QED BY <2>1, <2>2
  <1>10. \A d \in receipts' : ReceiptOK(d)
    BY <1>2, <1>5 DEF ReceiptInv
  <1> QED
    BY <1>2, <1>8, <1>9, <1>10 DEF ReceiptInv, ReceiptOK, checkout, Now

LEMMA NextReceiptInv ==
    ASSUME ReceiptConstants, ReceiptInv, [ReceiptNext]_receiptVars
    PROVE  ReceiptInv'
  <1>1. tip \in Contents /\ tracked \in Contents /\ extra \in Extras \cup {Nothing}
    BY TypesOfReceipts
  <1>2. CASE \/ \E t \in Contents : EditTracked(t)
             \/ \E e \in Extras \cup {Nothing} : EditExtra(e)
             \/ CommitTracked
    BY <1>1, <1>2, WriteKeepsInv DEF EditTracked, EditExtra, CommitTracked
  <1>3. ASSUME NEW r \in Runs, DropLog(r)
        PROVE  ReceiptInv'
    BY <1>3
    DEF DropLog, ReceiptInv, ReceiptTypeOK, RunOK, LooksOK, ReceiptOK, checkout, Now
  <1>4. ASSUME NEW r \in Runs, Conclude(r) \/ Die(r)
        PROVE  ReceiptInv'
    BY <1>4, ExitKeepsInv DEF Conclude, Die
  <1>5. CASE UNCHANGED receiptVars
    BY <1>5
    DEF receiptVars, ReceiptInv, ReceiptTypeOK, RunOK, LooksOK, ReceiptOK, checkout, Now
  <1> QED
    BY <1>2, <1>3, <1>4, <1>5, InvokeKeepsInv, LookKeepsInv, NoIdentityKeepsInv, ReuseKeepsInv,
       CreateLogKeepsInv, CheckKeepsInv, WriteReceiptKeepsInv
    DEF ReceiptNext

LEMMA ReuseFollows ==
    ASSUME ReceiptConstants, ReceiptInv
    PROVE  ReuseIsSound
  <1> SUFFICES ASSUME NEW r \in Runs, invocation[r].at = "reused", invocation[r].steady,
                      invocation[r].cited.steady
               PROVE  /\ Alike(invocation[r].cited.saw, <<tracked, extra>>)
                      /\ invocation[r].cited.exit = 0
    BY DEF ReuseIsSound
  <1> DEFINE i == invocation[r]
             c == i.cited
  <1>1. RunOK(i, tip, Now, receipts)
    BY DEF ReceiptInv
  <1>2. /\ c \in receipts /\ c.exit = 0 /\ c.identity = i.identity
        /\ IsIdentity(i.identity, tip, Now)
    BY <1>1 DEF RunOK, LooksOK
  <1>3. PICK h \in Contents : IsIdentity(i.identity, h, c.saw)
    BY <1>1, <1>2 DEF ReceiptInv, ReceiptOK, RunOK
  <1>4. Now[1] = tracked /\ Now[2] = extra /\ extra \in Extras \cup {Nothing}
    BY TypesOfReceipts DEF Now
  <1>5. c.saw[1] \in Contents /\ c.saw[2] \in Extras \cup {Nothing}
    BY <1>2, TypesOfReceipts DEF Receipts, Snapshots
  <1>6. /\ h = tip /\ StatusOf(tip, Now) = StatusOf(tip, c.saw)
        /\ DiffOf(tip, Now) = DiffOf(tip, c.saw)
    BY <1>2, <1>3 DEF IsIdentity
  <1>7. (tracked # tip <=> c.saw[1] # tip) /\ (extra # Nothing <=> c.saw[2] # Nothing)
    BY <1>4, <1>6 DEF StatusOf
  <1>8. c.saw[1] = tracked
    BY <1>4, <1>6, <1>7 DEF DiffOf
  <1>9. extra # Nothing => HashUntracked(extra) = HashUntracked(c.saw[2])
    <2>1. extra # Nothing => StatusOf(tip, Now) # {}
      BY <1>4 DEF StatusOf
    <2> QED BY <1>2, <1>3, <1>4, <1>6, <2>1 DEF IsIdentity
  <1>10. c.saw[2] = extra \/ {c.saw[2], extra} \subseteq Large
    BY <1>4, <1>5, <1>7, <1>9 DEF HashUntracked, ReceiptConstants
  <1> QED
    BY <1>2, <1>8, <1>10 DEF Alike

LEMMA ReceiptInvSays ==
    ASSUME ReceiptConstants, ReceiptInv
    PROVE  ReceiptTypeOK /\ ReuseIsSound
  BY ReuseFollows DEF ReceiptInv

LEMMA ReceiptInvariance ==
    ASSUME ReceiptConstants
    PROVE  ReceiptSpec => []ReceiptInv
  BY InitReceiptInv, NextReceiptInv, PTL DEF ReceiptSpec

\* However many runs share the directory, whoever edits and commits meanwhile, whatever logs get
\* lost: a receipt that is reused tells of a check that passed on the files as they are now,
\* unless somebody wrote to the checkout during the look at it or during the run that is cited
\* (findReusable, gitIdentity).
THEOREM ReuseAlwaysSound ==
    ASSUME ReceiptConstants
    PROVE  ReceiptSpec => [](ReceiptTypeOK /\ ReuseIsSound)
  BY ReceiptInvariance, ReceiptInvSays, PTL

-----------------------------------------------------------------------------
(* Lanes: what a command knows of the lanes it works on *)

\* A lane whose base is recorded exists, and a lane that is being added is not there before.
BasesOK ==
    /\ \A l \in LaneNames : base[l] # NoTree => l \in exists
    /\ added \subseteq Managed
    /\ command.op = "add" =>
         /\ base[command.lane] = NoTree
         /\ command.step = "AddWorktree" => command.lane \notin exists
         /\ command.step = "RecordBase" => command.lane \in exists

\* The lanes vouched for change different files, and each can be applied or is.
VouchedOK ==
    /\ vouched \subseteq Managed
    /\ \A l \in vouched : State(Patch(l), lead) # "conflicts"
    /\ \A l, k \in vouched : l # k => Changed(Patch(l)) \cap Changed(Patch(k)) = {}

\* check goes through lanes that stay lanes.  What it knows of them so far, if nobody edits beside
\* it: what an unapplied lane owns, and, while nothing was found, that it is in no conflict.
CheckOK ==
    command.op = "check" =>
      /\ command.todo \subseteq Managed /\ command.unapplied \subseteq Managed
      /\ command.step = "ReadTouched" => command.lane \in Managed
      /\ command.calm =>
           /\ command.step = "ReadTouched" => command.patch = Patch(command.lane)
           /\ \A l \in command.unapplied :
                /\ \A f \in Changed(Patch(l)) : l \in command.owners[f]
                /\ command.ok => State(Patch(l), lead) # "conflicts"

\* apply writes the lane's patch as it was read; it is the lane's still if the lane is vouched
\* for.
ApplyOK ==
    command.op = "apply" =>
      /\ command.lane \in Managed
      /\ command.step \in {"Judge", "Write"} =>
           /\ command.patch \in Patches
           /\ command.lane \in vouched => command.patch = Patch(command.lane)
           /\ command.inside => Changed(command.patch) \subseteq Fenced

FenceOK == inside \subseteq Managed /\ \A l \in inside : Changed(Patch(l)) \subseteq Fenced

\* What remove has read is still there but for the files edited since, and what it has found
\* safe is.
RemoveOK ==
    command.op = "remove" =>
      /\ command.lane \in Managed
      /\ command.step \in {"Judge", "ListIgnored", "RemoveWorktree"} =>
           /\ command.patch \in Patches /\ command.patch.from = base[command.lane]
           /\ \A f \in Files \ stale : command.patch.to[f] = work[command.lane][f]
      /\ command.step \in {"ListIgnored", "RemoveWorktree"} =>
           \/ command.discard
           \/ \A f \in Files \ stale :
                work[command.lane][f] # base[command.lane][f] => lead[f] = work[command.lane][f]
      /\ command.step = "RemoveWorktree" =>
           command.discard \/ command.lane \notin ignored \/ fresh

LanesInv ==
    LanesTypeOK /\ BasesOK /\ VouchedOK /\ CheckOK /\ ApplyOK /\ FenceOK /\ RemoveOK

AddCommand == [op : {"add"}, step : Steps, lane : LaneNames, tree : Trees]
ApplyCommand ==
    [op : {"apply"}, step : Steps, lane : LaneNames, patch : Patches \cup {NoTree},
     inside : BOOLEAN]
RemoveCommand ==
    [op : {"remove"}, step : Steps, lane : LaneNames, patch : Patches \cup {NoTree},
     discard : BOOLEAN]
CheckCommand ==
    [op : {"check"}, step : Steps, todo : SUBSET LaneNames, lane : LaneNames \cup {NoTree},
     patch : Patches \cup {NoTree}, owners : [Files -> SUBSET LaneNames],
     unapplied : SUBSET LaneNames, ok : BOOLEAN, calm : BOOLEAN]

LEMMA CommandKinds ==
    ASSUME NEW c \in Commands
    PROVE  /\ c = Idle \/ c.op \in {"add", "apply", "remove", "check"}
           /\ c.op = "add" => c \in AddCommand
           /\ c.op = "apply" => c \in ApplyCommand
           /\ c.op = "remove" => c \in RemoveCommand
           /\ c.op = "check" => c \in CheckCommand
  BY DEF Commands, Idle, AddCommand, ApplyCommand, RemoveCommand, CheckCommand

LEMMA CommandsAre ==
    /\ AddCommand \subseteq Commands /\ ApplyCommand \subseteq Commands
    /\ RemoveCommand \subseteq Commands /\ CheckCommand \subseteq Commands
    /\ Idle \in Commands
  BY DEF Commands, AddCommand, ApplyCommand, RemoveCommand, CheckCommand

LEMMA PatchIs ==
    ASSUME LanesTypeOK, NEW l \in Managed
    PROVE  /\ l \in LaneNames /\ Patch(l) \in Patches
           /\ Patch(l).from = base[l] /\ Patch(l).to = work[l]
           /\ base[l] \in Trees /\ work[l] \in Trees
  BY DEF LanesTypeOK, Managed, Patch, Patches

\* What each state of a patch says of it.
LEMMA StateIs ==
    ASSUME NEW p, NEW tree
    PROVE  /\ State(p, tree) = "conflicts" <=> ~Applies(p, tree) /\ ~Reverses(p, tree)
           /\ State(p, tree) \in {"empty", "applied"} => Reverses(p, tree)
           /\ State(p, tree) = "empty" => Changed(p) = {}
  <1>1. Changed(p) = {} => Applies(p, tree) /\ Reverses(p, tree)
    BY DEF Applies, Reverses
  <1>2. CASE Changed(p) = {}
    <2>1. State(p, tree) = "empty"
       BY <1>2, Zenon DEF State
    <2> QED BY <1>1, <1>2, <2>1
  <1>3. CASE Changed(p) # {} /\ Applies(p, tree)
    <2>1. State(p, tree) = "clean"
       BY <1>3, Zenon DEF State
    <2> QED BY <1>3, <2>1
  <1>4. CASE Changed(p) # {} /\ ~Applies(p, tree) /\ Reverses(p, tree)
    <2>1. State(p, tree) = "applied"
       BY <1>4, Zenon DEF State
    <2> QED BY <1>4, <2>1
  <1>5. CASE Changed(p) # {} /\ ~Applies(p, tree) /\ ~Reverses(p, tree)
    <2>1. State(p, tree) = "conflicts"
       BY <1>5, Zenon DEF State
    <2> QED BY <1>5, <2>1
  <1> QED BY <1>1, <1>2, <1>3, <1>4, <1>5

LEMMA InitLanesInv ==
    ASSUME LanesConstants, LanesInit
    PROVE  LanesInv
  <1>1. LanesTypeOK
    <2>1. lead \in Trees
      BY DEF LanesConstants, LanesInit, Trees
    <2>2. /\ base \in [LaneNames -> Trees \cup {NoTree}] /\ work \in [LaneNames -> Trees]
          /\ commits \subseteq Trees /\ exists = {} /\ ignored = {}
      BY <2>1 DEF LanesInit
    <2>3. command \in Commands
      BY CommandsAre DEF LanesInit
    <2>5. edits \in 0..MaxEdits
      BY DEF LanesConstants, LanesInit
    <2>6. fresh \in BOOLEAN
      BY DEF LanesInit
    <2>4. added = {} /\ stale = {} /\ vouched = {} /\ inside = {}
      BY DEF LanesInit
    <2> QED BY <2>1, <2>2, <2>3, <2>4, <2>5, <2>6 DEF LanesTypeOK
  <1> QED
    BY <1>1
    DEF LanesInit, LanesInv, BasesOK, VouchedOK, CheckOK, ApplyOK, FenceOK, RemoveOK, Idle, Managed

\* A check beside which somebody edits knows nothing any more.
LEMMA RestlessIs ==
    ASSUME command \in Commands
    PROVE  /\ Restless \in Commands /\ Restless.op = command.op
           /\ Restless.op = "check" =>
                /\ ~Restless.calm /\ Restless.step = command.step
                /\ Restless.todo = command.todo /\ Restless.lane = command.lane
                /\ Restless.unapplied = command.unapplied
           /\ Restless.op # "check" => Restless = command
  <1>1. CASE command.op = "check"
    BY <1>1, CommandKinds, CommandsAre DEF Restless, CheckCommand
  <1>2. CASE command.op # "check"
    BY <1>2 DEF Restless
  <1> QED BY <1>1, <1>2

LEMMA EditLaneKeeps ==
    ASSUME LanesConstants, LanesInv, NEW l \in LaneNames, NEW f \in Files, NEW t \in Texts,
           EditLane(l, f, t)
    PROVE  LanesInv'
  <1>1. /\ work \in [LaneNames -> Trees] /\ base \in [LaneNames -> Trees \cup {NoTree}]
        /\ command \in Commands
    BY DEF LanesInv, LanesTypeOK
  <1>2. work' = [work EXCEPT ![l] = [work[l] EXCEPT ![f] = t]]
    BY <1>1 DEF EditLane
  <1>3. [work[l] EXCEPT ![f] = t] \in Trees
    BY <1>1 DEF Trees
  <1>4. /\ work' \in [LaneNames -> Trees] /\ \A k \in LaneNames \ {l} : work'[k] = work[k]
        /\ \A g \in Files \ {f} : work'[l][g] = work[l][g]
    BY <1>1, <1>2, <1>3 DEF Trees
  <1>5. /\ l \in exists /\ stale' = stale \cup {f} /\ vouched' = {} /\ inside' = inside \ {l}
        /\ command' = Restless /\ edits' = edits + 1 /\ edits < MaxEdits
        /\ UNCHANGED <<lead, commits, exists, base, ignored, added, fresh>>
    BY DEF EditLane
  <1>6. LanesTypeOK'
    BY <1>1, <1>4, <1>5, RestlessIs DEF LanesConstants, LanesInv, LanesTypeOK
  <1>7. Managed' = Managed
    BY <1>5 DEF Managed
  <1>8. \A k \in inside' : k \in LaneNames /\ Patch(k)' = Patch(k)
    BY <1>4, <1>5 DEF LanesInv, LanesTypeOK, Patch
  <1>9. FenceOK'
    BY <1>5, <1>7, <1>8 DEF LanesInv, FenceOK, Changed
  <1>10. VouchedOK' /\ CheckOK'
    BY <1>1, <1>5, <1>7, RestlessIs DEF LanesInv, VouchedOK, CheckOK
  <1>11. BasesOK'
    <2>1. command'.op = "add" => command' = command
      BY <1>1, <1>5, RestlessIs
    <2> QED BY <1>5, <1>7, <2>1 DEF LanesInv, BasesOK
  <1>12. ApplyOK'
    <2>1. command'.op = "apply" => command' = command
      BY <1>1, <1>5, RestlessIs
    <2> QED BY <1>5, <1>7, <2>1 DEF LanesInv, ApplyOK
  <1>13. RemoveOK'
    <2>1. command'.op = "remove" => command' = command
      BY <1>1, <1>5, RestlessIs
    <2>2. \A g \in Files \ stale' : \A k \in LaneNames :
            g \in Files \ stale /\ work'[k][g] = work[k][g]
      BY <1>4, <1>5
    <2>3. command.op = "remove" => command.lane \in LaneNames
      BY <1>1, CommandKinds DEF RemoveCommand
    <2> QED BY <1>5, <1>7, <2>1, <2>2, <2>3 DEF LanesInv, RemoveOK
  <1> QED
    BY <1>6, <1>9, <1>10, <1>11, <1>12, <1>13 DEF LanesInv

LEMMA EditLeadKeeps ==
    ASSUME LanesConstants, LanesInv, NEW f \in Files, NEW t \in Texts, EditLead(f, t)
    PROVE  LanesInv'
  <1>1. lead \in Trees /\ command \in Commands
    BY DEF LanesInv, LanesTypeOK
  <1>2. lead' \in Trees /\ \A g \in Files \ {f} : lead'[g] = lead[g]
    BY <1>1 DEF EditLead, Trees
  <1>3. /\ stale' = stale \cup {f} /\ vouched' = {}
        /\ command' = Restless /\ edits' = edits + 1 /\ edits < MaxEdits
        /\ UNCHANGED <<commits, exists, base, work, ignored, added, fresh, inside>>
    BY DEF EditLead
  <1>4. LanesTypeOK'
    BY <1>1, <1>2, <1>3, RestlessIs DEF LanesConstants, LanesInv, LanesTypeOK
  <1>5. Managed' = Managed /\ \A l : Patch(l)' = Patch(l)
    BY <1>3 DEF Managed, Patch
  <1>6. VouchedOK' /\ CheckOK' /\ FenceOK'
    BY <1>1, <1>3, <1>5, RestlessIs DEF LanesInv, VouchedOK, CheckOK, FenceOK, Changed
  <1>7. command'.op # "check" => command' = command
    BY <1>1, <1>3, RestlessIs
  <1>8. BasesOK' /\ ApplyOK'
    BY <1>3, <1>5, <1>7 DEF LanesInv, BasesOK, ApplyOK
  <1>9. RemoveOK'
    <2>1. \A g \in Files \ stale' : g \in Files \ stale /\ lead'[g] = lead[g]
      BY <1>2, <1>3
    <2> QED BY <1>3, <1>5, <1>7, <2>1 DEF LanesInv, RemoveOK
  <1> QED
    BY <1>4, <1>6, <1>8, <1>9 DEF LanesInv

LEMMA OtherWorkKeeps ==
    ASSUME LanesConstants, LanesInv, (\E l \in LaneNames : LeaveIgnored(l)) \/ CommitLead
    PROVE  LanesInv'
  <1>1. /\ UNCHANGED <<lead, exists, base, work, command, added, stale, vouched, inside>>
        /\ \/ UNCHANGED <<ignored, fresh>>
           \/ fresh' /\ ignored' \subseteq exists
    BY DEF LanesInv, LanesTypeOK, LeaveIgnored, CommitLead, history
  <1>2. LanesTypeOK'
    <2>1. LanesTypeOK /\ MaxEdits \in Nat
      BY DEF LanesConstants, LanesInv
    <2>2. CASE CommitLead
      BY <2>1, <2>2 DEF LanesTypeOK, CommitLead, history
    <2>3. ASSUME NEW l \in LaneNames, LeaveIgnored(l)
          PROVE  LanesTypeOK'
      <3>1. ignored' \subseteq exists /\ fresh' \in BOOLEAN /\ edits' \in 0..MaxEdits
        BY <2>1, <2>3 DEF LanesTypeOK, LeaveIgnored
      <3>2. UNCHANGED <<lead, commits, exists, base, work, command, added, stale, vouched, inside>>
        BY <2>3 DEF LeaveIgnored
      <3> QED BY <2>1, <3>1, <3>2 DEF LanesTypeOK
    <2> QED BY <2>2, <2>3
  <1>3. Managed' = Managed /\ \A l : Patch(l)' = Patch(l)
    BY <1>1 DEF Managed, Patch
  <1>4. BasesOK' /\ VouchedOK' /\ CheckOK' /\ ApplyOK' /\ FenceOK'
    BY <1>1, <1>3
    DEF LanesInv, BasesOK, VouchedOK, CheckOK, ApplyOK, FenceOK, Changed, State, Applies, Reverses
  <1>5. RemoveOK'
    BY <1>1, <1>3 DEF LanesInv, RemoveOK
  <1> QED BY <1>2, <1>4, <1>5 DEF LanesInv

-----------------------------------------------------------------------------
(* add *)

LEMMA StartAddKeeps ==
    ASSUME LanesInv, NEW l \in LaneNames, NEW tree \in commits, StartAdd(l, tree)
    PROVE  LanesInv'
  <1>1. UNCHANGED <<repository, edits, history>> /\ l \notin exists
    BY DEF StartAdd
  <1>2. command' = [op |-> "add", step |-> "AddWorktree", lane |-> l, tree |-> tree]
    BY DEF StartAdd
  <1>3. tree \in Trees
    BY DEF LanesInv, LanesTypeOK
  <1>4. command' \in AddCommand
    BY <1>2, <1>3 DEF AddCommand, Steps
  <1>5. LanesTypeOK'
    BY <1>1, <1>4, CommandsAre DEF LanesInv, LanesTypeOK, repository, history
  <1>6. Managed' = Managed /\ \A k : Patch(k)' = Patch(k)
    BY <1>1 DEF Managed, Patch, repository
  <1>7. BasesOK'
    <2>1. base[l] = NoTree
      BY <1>1 DEF LanesInv, BasesOK
    <2> QED BY <1>1, <1>2, <1>6, <2>1 DEF LanesInv, BasesOK, repository, history
  <1>8. VouchedOK' /\ FenceOK'
    BY <1>1, <1>6
    DEF LanesInv, VouchedOK, FenceOK, Changed, State, Applies, Reverses, repository, history
  <1>9. CheckOK' /\ ApplyOK' /\ RemoveOK'
    BY <1>2 DEF CheckOK, ApplyOK, RemoveOK
  <1> QED BY <1>5, <1>7, <1>8, <1>9 DEF LanesInv

\* git knows a new worktree before its base is recorded: it is no lane yet.
LEMMA AddWorktreeKeeps ==
    ASSUME LanesInv, AddWorktree
    PROVE  LanesInv'
  <1> DEFINE l == command.lane
  <1>1. /\ command \in AddCommand /\ l \in LaneNames /\ command.tree \in Trees
        /\ base[l] = NoTree /\ l \notin exists
    BY CommandKinds DEF LanesInv, LanesTypeOK, BasesOK, AddWorktree, AddCommand
  <1>2. /\ exists' = exists \cup {l} /\ work' = [work EXCEPT ![l] = command.tree]
        /\ command' = [command EXCEPT !.step = "RecordBase"]
        /\ UNCHANGED <<lead, commits, base, ignored, edits, history>>
    BY DEF AddWorktree
  <1>3. /\ command' \in AddCommand /\ command'.op = "add" /\ command'.step = "RecordBase"
        /\ command'.lane = l
    BY <1>1, <1>2 DEF AddCommand, Steps
  <1>4. LanesTypeOK'
    BY <1>1, <1>2, <1>3, CommandsAre DEF LanesInv, LanesTypeOK, history
  <1>5. Managed' = Managed
    BY <1>1, <1>2 DEF Managed
  <1>6. \A k \in Managed : Patch(k)' = Patch(k)
    BY <1>1, <1>2 DEF LanesInv, LanesTypeOK, Managed, Patch
  <1>7. BasesOK'
    BY <1>1, <1>2, <1>3, <1>5 DEF LanesInv, BasesOK, history
  <1>8. VouchedOK' /\ FenceOK'
    BY <1>2, <1>5, <1>6
    DEF LanesInv, VouchedOK, FenceOK, Changed, State, Applies, Reverses, history
  <1>9. CheckOK' /\ ApplyOK' /\ RemoveOK'
    BY <1>3 DEF CheckOK, ApplyOK, RemoveOK
  <1> QED BY <1>4, <1>7, <1>8, <1>9 DEF LanesInv

LEMMA RecordBaseKeeps ==
    ASSUME LanesConstants, LanesInv, RecordBase
    PROVE  LanesInv'
  <1> DEFINE l == command.lane
  <1>1. /\ l \in LaneNames /\ command.tree \in Trees
        /\ base[l] = NoTree /\ l \in exists
    BY CommandKinds DEF LanesInv, LanesTypeOK, BasesOK, RecordBase, AddCommand
  <1>2. /\ base' = [base EXCEPT ![l] = command.tree] /\ added' = added \cup {l}
        /\ command' = Idle
        /\ UNCHANGED <<lead, commits, exists, work, ignored, edits, stale, fresh, vouched, inside>>
    BY DEF RecordBase
  <1>3. base' \in [LaneNames -> Trees \cup {NoTree}]
    BY <1>1, <1>2 DEF LanesInv, LanesTypeOK
  <1>4. LanesTypeOK'
    BY <1>1, <1>2, <1>3, CommandsAre DEF LanesInv, LanesTypeOK
  <1>5. command.tree # NoTree
    BY <1>1 DEF LanesConstants, Trees
  <1>6. Managed' = Managed \cup {l}
    BY <1>1, <1>2, <1>5 DEF LanesInv, LanesTypeOK, Managed
  <1>7. \A k \in Managed : Patch(k)' = Patch(k)
    BY <1>1, <1>2 DEF LanesInv, LanesTypeOK, Managed, Patch
  <1>8. BasesOK'
    BY <1>1, <1>2, <1>6 DEF LanesInv, LanesTypeOK, BasesOK, Idle
  <1>9. VouchedOK' /\ FenceOK'
    BY <1>2, <1>6, <1>7
    DEF LanesInv, VouchedOK, FenceOK, Changed, State, Applies, Reverses
  <1>10. CheckOK' /\ ApplyOK' /\ RemoveOK'
    BY <1>2 DEF CheckOK, ApplyOK, RemoveOK, Idle
  <1> QED BY <1>4, <1>8, <1>9, <1>10 DEF LanesInv

-----------------------------------------------------------------------------
(* Commands that leave the repository alone *)

\* What every step that only moves a command on leaves in force.
LEMMA QuietKeeps ==
    ASSUME LanesInv, UNCHANGED <<repository, edits>>, UNCHANGED <<added, vouched, inside>>,
           command' \in Commands, command'.op # "add",
           stale' \subseteq Files, fresh' \in BOOLEAN
    PROVE  /\ LanesTypeOK' /\ BasesOK' /\ VouchedOK' /\ FenceOK'
           /\ Managed' = Managed /\ \A k : Patch(k)' = Patch(k)
           /\ \A p : State(p, lead)' = State(p, lead) /\ Changed(p)' = Changed(p)
  <1>1. LanesTypeOK'
    BY DEF LanesInv, LanesTypeOK, repository
  <1>2. Managed' = Managed /\ \A k : Patch(k)' = Patch(k)
    BY DEF Managed, Patch, repository
  <1>3. \A p : State(p, lead)' = State(p, lead) /\ Changed(p)' = Changed(p)
    BY DEF State, Changed, Applies, Reverses, repository
  <1>4. BasesOK'
    BY <1>2 DEF LanesInv, BasesOK, repository
  <1>5. VouchedOK' /\ FenceOK'
    BY <1>2
    DEF LanesInv, VouchedOK, FenceOK, State, Changed, Applies, Reverses, repository
  <1> QED BY <1>1, <1>2, <1>3, <1>4, <1>5

LEMMA KillKeeps ==
    ASSUME LanesInv, Kill
    PROVE  LanesInv'
  <1>1. /\ UNCHANGED <<repository, edits>> /\ UNCHANGED <<added, vouched, inside>>
        /\ command' = Idle /\ UNCHANGED <<stale, fresh>>
    BY DEF Kill, history
  <1>2. /\ command'.op # "add" /\ command'.op # "check"
        /\ command'.op # "apply" /\ command'.op # "remove"
    BY <1>1 DEF Idle
  <1>3. command' \in Commands /\ stale' \subseteq Files /\ fresh' \in BOOLEAN
    BY <1>1, CommandsAre DEF LanesInv, LanesTypeOK
  <1>4. LanesTypeOK' /\ BasesOK' /\ VouchedOK' /\ FenceOK'
    BY <1>1, <1>2, <1>3, QuietKeeps
  <1> QED BY <1>2, <1>4 DEF LanesInv, CheckOK, ApplyOK, RemoveOK

LEMMA PassFenceKeeps ==
    ASSUME LanesInv, NEW l \in LaneNames, PassFence(l)
    PROVE  LanesInv'
  <1>1. /\ command = Idle /\ l \in Managed /\ Changed(Patch(l)) \subseteq Fenced
        /\ inside' = inside \cup {l}
        /\ UNCHANGED <<repository, command, edits, added, stale, fresh, vouched>>
    BY DEF PassFence
  <1>2. LanesTypeOK'
    BY <1>1 DEF LanesInv, LanesTypeOK, repository
  <1>3. Managed' = Managed /\ \A k : Patch(k)' = Patch(k)
    BY <1>1 DEF Managed, Patch, repository
  <1>4. BasesOK' /\ VouchedOK' /\ FenceOK'
    BY <1>1, <1>3
    DEF LanesInv, BasesOK, VouchedOK, FenceOK, Changed, State, Applies, Reverses, repository
  <1>5. CheckOK' /\ ApplyOK' /\ RemoveOK'
    BY <1>1 DEF CheckOK, ApplyOK, RemoveOK, Idle
  <1> QED BY <1>2, <1>4, <1>5 DEF LanesInv

-----------------------------------------------------------------------------
(* check *)

LEMMA StartCheckKeeps ==
    ASSUME LanesInv, StartCheck
    PROVE  LanesInv'
  <1>1. /\ UNCHANGED <<repository, edits>> /\ UNCHANGED <<added, vouched, inside>>
        /\ UNCHANGED <<stale, fresh>>
    BY DEF StartCheck, history
  <1>2. command' = [op |-> "check", step |-> "ReadPatch", todo |-> Managed, lane |-> NoTree,
                    patch |-> NoTree, owners |-> [f \in Files |-> {}],
                    unapplied |-> {}, ok |-> TRUE, calm |-> TRUE]
    BY DEF StartCheck
  <1>3. command' \in CheckCommand
    BY <1>2 DEF LanesInv, LanesTypeOK, Managed, CheckCommand, Steps
  <1>4. stale' \subseteq Files /\ fresh' \in BOOLEAN
    BY <1>1 DEF LanesInv, LanesTypeOK
  <1>5. /\ LanesTypeOK' /\ BasesOK' /\ VouchedOK' /\ FenceOK' /\ Managed' = Managed
    BY <1>1, <1>2, <1>3, <1>4, CommandsAre, QuietKeeps
  <1>6. CheckOK' /\ ApplyOK' /\ RemoveOK'
    BY <1>2, <1>5 DEF CheckOK, ApplyOK, RemoveOK
  <1> QED BY <1>5, <1>6 DEF LanesInv

LEMMA CheckPatchKeeps ==
    ASSUME LanesInv, NEW l \in LaneNames, CheckPatch(l)
    PROVE  LanesInv'
  <1>1. /\ UNCHANGED <<repository, edits>> /\ UNCHANGED <<added, vouched, inside>>
        /\ UNCHANGED <<stale, fresh>> /\ l \in command.todo /\ command \in CheckCommand
        /\ command' = [command EXCEPT !.step = "ReadTouched", !.lane = l, !.patch = Patch(l)]
    BY CommandKinds DEF CheckPatch, history, LanesInv, LanesTypeOK
  <1>2. l \in Managed /\ Patch(l) \in Patches
    BY <1>1, PatchIs DEF LanesInv, CheckOK, CheckPatch
  <1>3. command' \in CheckCommand
    BY <1>1, <1>2 DEF CheckCommand, Steps
  <1>4. /\ command'.op = "check" /\ command'.step = "ReadTouched" /\ command'.lane = l
        /\ command'.patch = Patch(l) /\ command'.todo = command.todo
        /\ command'.unapplied = command.unapplied /\ command'.owners = command.owners
        /\ command'.ok = command.ok /\ command'.calm = command.calm
    BY <1>1 DEF CheckCommand
  <1>5. stale' \subseteq Files /\ fresh' \in BOOLEAN /\ command' \in Commands
    BY <1>1, <1>3, CommandsAre DEF LanesInv, LanesTypeOK
  <1>6. /\ LanesTypeOK' /\ BasesOK' /\ VouchedOK' /\ FenceOK' /\ Managed' = Managed
        /\ \A k : Patch(k)' = Patch(k)
        /\ \A p : State(p, lead)' = State(p, lead) /\ Changed(p)' = Changed(p)
    BY <1>1, <1>4, <1>5, QuietKeeps
  <1>7. lead' = lead
    BY <1>1 DEF repository
  <1>8. CheckOK'
    BY <1>1, <1>2, <1>4, <1>6, <1>7 DEF LanesInv, CheckOK, CheckPatch, Changed
  <1>9. ApplyOK' /\ RemoveOK'
    BY <1>4 DEF ApplyOK, RemoveOK
  <1> QED BY <1>6, <1>8, <1>9 DEF LanesInv

LEMMA CheckTouchedKeeps ==
    ASSUME LanesInv, CheckTouched
    PROVE  LanesInv'
  <1> DEFINE l == command.lane
             s == State(command.patch, lead)
             mine == Owners(command.owners, l, Changed(Patch(l)), s)
             owed == IF s = "applied" THEN command.unapplied ELSE command.unapplied \cup {l}
  <1>1. /\ UNCHANGED <<repository, edits>> /\ UNCHANGED <<added, vouched, inside>>
        /\ UNCHANGED <<stale, fresh>> /\ command \in CheckCommand
        /\ command.op = "check" /\ command.step = "ReadTouched"
        /\ command' = [command EXCEPT
              !.step = "ReadPatch", !.lane = NoTree, !.patch = NoTree,
              !.todo = command.todo \ {l}, !.owners = mine, !.unapplied = owed,
              !.ok = command.ok /\ s # "conflicts"]
    BY CommandKinds DEF CheckTouched, history, LanesInv, LanesTypeOK, CheckCommand
  <1>2. l \in Managed /\ l \in LaneNames /\ owed \subseteq Managed
    BY <1>1, PatchIs DEF LanesInv, CheckOK
  <1>3. /\ mine \in [Files -> SUBSET LaneNames]
        /\ \A f \in Files : command.owners[f] \subseteq mine[f]
        /\ s # "applied" => \A f \in Changed(Patch(l)) : l \in mine[f]
    BY <1>1, <1>2 DEF CheckCommand, Owners, Changed
  <1>4. owed \subseteq LaneNames /\ (command.ok /\ s # "conflicts") \in BOOLEAN
    BY <1>1, <1>2 DEF CheckCommand
  <1> HIDE DEF s, mine, owed
  <1>5. /\ command'.op = "check" /\ command'.step = "ReadPatch"
        /\ command'.todo = command.todo \ {l}
        /\ command'.unapplied = owed /\ command'.owners = mine
        /\ command'.ok = (command.ok /\ s # "conflicts") /\ command'.calm = command.calm
    BY <1>1 DEF CheckCommand
  <1>6. command' \in CheckCommand
    BY <1>1, <1>3, <1>4 DEF CheckCommand, Steps
  <1>7. stale' \subseteq Files /\ fresh' \in BOOLEAN /\ command' \in Commands
    BY <1>1, <1>6, CommandsAre DEF LanesInv, LanesTypeOK
  <1>8. /\ LanesTypeOK' /\ BasesOK' /\ VouchedOK' /\ FenceOK' /\ Managed' = Managed
        /\ \A k : Patch(k)' = Patch(k)
        /\ lead' = lead
    BY <1>1, <1>5, <1>7, QuietKeeps DEF repository
  <1>9. CheckOK'
    <2>1. command'.todo \subseteq Managed' /\ command'.unapplied \subseteq Managed'
      BY <1>1, <1>2, <1>5, <1>8 DEF LanesInv, CheckOK
    <2>2. ASSUME command'.calm, NEW k \in owed, NEW f \in Changed(Patch(k))
          PROVE  k \in mine[f]
      BY <2>2, <1>1, <1>3, <1>5 DEF LanesInv, CheckOK, owed, Changed
    <2>3. ASSUME command'.calm, NEW k \in owed, command'.ok
          PROVE  State(Patch(k), lead) # "conflicts"
      BY <2>3, <1>1, <1>5 DEF LanesInv, CheckOK, owed, s
    <2>4. \A k : Changed(Patch(k))' = Changed(Patch(k))
      BY <1>8 DEF Changed
    <2>5. \A k : State(Patch(k), lead)' = State(Patch(k), lead)
      BY <1>8, <2>4 DEF State, Applies, Reverses
    <2> QED BY <2>1, <2>2, <2>3, <2>4, <2>5, <1>5 DEF CheckOK
  <1>10. ApplyOK' /\ RemoveOK'
    BY <1>5 DEF ApplyOK, RemoveOK
  <1> QED BY <1>8, <1>9, <1>10 DEF LanesInv

\* Two lanes that own one file are an overlap.
LEMMA TwoOwnersOverlap ==
    ASSUME IsFiniteSet(LaneNames), NEW owners \in [Files -> SUBSET LaneNames],
           NEW f \in Files, NEW l \in owners[f], NEW k \in owners[f], l # k
    PROVE  f \in Overlap(owners)
  <1>1. IsFiniteSet(owners[f])
    BY FS_Subset
  <1>2. {l, k} \subseteq owners[f]
    OBVIOUS
  <1>3. Cardinality({l, k}) = 2
    <2>1. Cardinality({l}) = 1 /\ IsFiniteSet({l})
      BY FS_Singleton
    <2>2. Cardinality({l} \cup {k}) = Cardinality({l}) + 1
      BY <2>1, FS_AddElement
    <2>3. {l, k} = {l} \cup {k}
      OBVIOUS
    <2> QED BY <2>1, <2>2, <2>3
  <1>4. Cardinality({l, k}) <= Cardinality(owners[f]) /\ Cardinality(owners[f]) \in Nat
    BY <1>1, <1>2, FS_Subset, FS_CardinalityType
  <1>5. Cardinality(owners[f]) > 1
    BY <1>3, <1>4
  <1> QED BY <1>5 DEF Overlap

LEMMA FinishCheckKeeps ==
    ASSUME LanesConstants, LanesInv, FinishCheck
    PROVE  LanesInv'
  <1>1. /\ UNCHANGED <<repository, edits, added, stale, fresh, inside>>
        /\ command' = Idle /\ command \in CheckCommand /\ command.op = "check"
        /\ vouched' = IF command.ok /\ Overlap(command.owners) = {} /\ command.calm
                      THEN command.unapplied ELSE {}
    BY CommandKinds DEF FinishCheck, LanesInv, LanesTypeOK
  <1>2. /\ Managed' = Managed /\ lead' = lead
        /\ \A k : Patch(k)' = Patch(k) /\ Changed(Patch(k))' = Changed(Patch(k))
    BY <1>1 DEF Managed, Patch, Changed, repository
  <1>3. vouched' \subseteq Managed /\ vouched' \subseteq LaneNames
    BY <1>1 DEF LanesInv, CheckOK, CheckCommand
  <1>4. LanesTypeOK'
    BY <1>1, <1>3, CommandsAre DEF LanesInv, LanesTypeOK, repository
  <1>5. BasesOK' /\ FenceOK'
    BY <1>1, <1>2 DEF LanesInv, BasesOK, FenceOK, Idle, repository
  <1>6. ASSUME NEW k \in vouched'
        PROVE  State(Patch(k), lead)' # "conflicts"
    <2>1. State(Patch(k), lead)' = State(Patch(k), lead)
      BY <1>2 DEF State, Applies, Reverses
    <2> QED BY <1>1, <1>6, <2>1 DEF LanesInv, CheckOK
  <1>7. ASSUME NEW l \in vouched', NEW k \in vouched', l # k
        PROVE  Changed(Patch(l)) \cap Changed(Patch(k)) = {}
    <2>1. \A f \in Files : f \notin Overlap(command.owners)
      BY <1>1, <1>7
    <2>2. /\ \A f \in Changed(Patch(l)) : l \in command.owners[f]
          /\ \A f \in Changed(Patch(k)) : k \in command.owners[f]
      BY <1>1, <1>7 DEF LanesInv, CheckOK
    <2>3. command.owners \in [Files -> SUBSET LaneNames] /\ IsFiniteSet(LaneNames)
      BY <1>1 DEF CheckCommand, LanesConstants
    <2>4. \A f \in Changed(Patch(l)) : f \in Files
      BY DEF Changed
    <2> QED BY <1>7, <2>1, <2>2, <2>3, <2>4, TwoOwnersOverlap
  <1>8. VouchedOK'
    BY <1>2, <1>3, <1>6, <1>7 DEF VouchedOK
  <1>9. CheckOK' /\ ApplyOK' /\ RemoveOK'
    BY <1>1 DEF CheckOK, ApplyOK, RemoveOK, Idle
  <1> QED BY <1>4, <1>5, <1>8, <1>9 DEF LanesInv

-----------------------------------------------------------------------------
(* apply *)

LEMMA StartApplyKeeps ==
    ASSUME LanesInv, NEW l \in LaneNames, StartApply(l)
    PROVE  LanesInv'
  <1>1. /\ UNCHANGED <<repository, edits>> /\ UNCHANGED <<added, vouched, inside>>
        /\ UNCHANGED <<stale, fresh>>
    BY DEF StartApply, history
  <1>2. command' = [op |-> "apply", step |-> "ReadPatch", lane |-> l, patch |-> NoTree,
                    inside |-> FALSE]
    BY DEF StartApply
  <1>3. command' \in ApplyCommand
    BY <1>2 DEF ApplyCommand, Steps
  <1>4. stale' \subseteq Files /\ fresh' \in BOOLEAN
    BY <1>1 DEF LanesInv, LanesTypeOK
  <1>5. LanesTypeOK' /\ BasesOK' /\ VouchedOK' /\ FenceOK'
    BY <1>1, <1>2, <1>3, <1>4, CommandsAre, QuietKeeps
  <1>6. l \in Managed'
    BY DEF StartApply, Managed, repository
  <1>7. CheckOK' /\ ApplyOK' /\ RemoveOK'
    BY <1>2, <1>6 DEF CheckOK, ApplyOK, RemoveOK
  <1> QED BY <1>5, <1>7 DEF LanesInv

\* apply reads only lanes with a base: ApplyOK says so of its lane.
LEMMA ApplyPatchKeeps ==
    ASSUME LanesInv, ApplyPatch
    PROVE  LanesInv'
  <1> DEFINE l == command.lane
             passed == l \in inside
  <1>1. /\ UNCHANGED <<repository, edits>> /\ UNCHANGED <<added, vouched, inside>>
        /\ stale' = {} /\ fresh' = fresh /\ command \in ApplyCommand /\ l \in Managed
        /\ command' = [command EXCEPT !.step = "Judge", !.patch = Patch(l), !.inside = passed]
    BY CommandKinds DEF ApplyPatch, LanesInv, LanesTypeOK, ApplyOK
  <1>2. Patch(l) \in Patches
    BY <1>1, PatchIs DEF LanesInv
  <1>3. passed \in BOOLEAN
    OBVIOUS
  <1>4. passed => Changed(Patch(l)) \subseteq Fenced
    BY DEF LanesInv, FenceOK
  <1> HIDE DEF passed
  <1>5. /\ command' \in ApplyCommand /\ command'.op = "apply" /\ command'.lane = l
        /\ command'.patch = Patch(l) /\ command'.inside = passed
    BY <1>1, <1>2, <1>3 DEF ApplyCommand, Steps
  <1>6. stale' \subseteq Files /\ fresh' \in BOOLEAN
    BY <1>1 DEF LanesInv, LanesTypeOK
  <1>7. /\ LanesTypeOK' /\ BasesOK' /\ VouchedOK' /\ FenceOK' /\ Managed' = Managed
        /\ \A k : Patch(k)' = Patch(k)
    BY <1>1, <1>5, <1>6, CommandsAre, QuietKeeps
  <1>8. ApplyOK'
    BY <1>1, <1>2, <1>5, <1>7, <1>4 DEF ApplyOK, Changed
  <1>9. CheckOK' /\ RemoveOK'
    BY <1>5 DEF CheckOK, RemoveOK
  <1> QED BY <1>7, <1>8, <1>9 DEF LanesInv

LEMMA JudgeApplyKeeps ==
    ASSUME LanesInv, JudgeApply
    PROVE  LanesInv'
  <1>1. /\ UNCHANGED <<repository, edits>> /\ UNCHANGED <<added, vouched, inside>>
        /\ UNCHANGED <<stale, fresh>> /\ command \in ApplyCommand /\ command.op = "apply"
        /\ command.step = "Judge"
        /\ command' = Idle \/ command' = [command EXCEPT !.step = "Write"]
    BY CommandKinds DEF JudgeApply, history, LanesInv, LanesTypeOK
  <1>2. stale' \subseteq Files /\ fresh' \in BOOLEAN
    BY <1>1 DEF LanesInv, LanesTypeOK
  <1>3. CASE command' = Idle
    <2>1. LanesTypeOK' /\ BasesOK' /\ VouchedOK' /\ FenceOK'
      BY <1>1, <1>2, <1>3, CommandsAre, QuietKeeps DEF Idle
    <2> QED BY <1>3, <2>1 DEF LanesInv, CheckOK, ApplyOK, RemoveOK, Idle
  <1>4. CASE command' = [command EXCEPT !.step = "Write"]
    <2>1. /\ command' \in ApplyCommand /\ command'.op = "apply" /\ command'.lane = command.lane
          /\ command'.patch = command.patch /\ command'.inside = command.inside
      BY <1>1, <1>4 DEF ApplyCommand, Steps
    <2>2. /\ LanesTypeOK' /\ BasesOK' /\ VouchedOK' /\ FenceOK' /\ Managed' = Managed
          /\ \A k : Patch(k)' = Patch(k)
      BY <1>1, <1>2, <2>1, CommandsAre, QuietKeeps
    <2>3. ApplyOK'
      BY <1>1, <2>1, <2>2 DEF LanesInv, ApplyOK, Changed
    <2>4. CheckOK' /\ RemoveOK'
      BY <2>1 DEF CheckOK, RemoveOK
    <2> QED BY <2>2, <2>3, <2>4 DEF LanesInv
  <1> QED BY <1>1, <1>3, <1>4

\* A patch that is written is reported as applied afterwards, and touches no file of a lane whose
\* changes are elsewhere.
LEMMA AppliedIs ==
    ASSUME NEW patch, NEW tree \in Trees, patch \in Patches
    PROVE  /\ Applied(patch, tree) \in Trees
           /\ Reverses(patch, Applied(patch, tree))
           /\ \A f \in Files \ Changed(patch) : Applied(patch, tree)[f] = tree[f]
  BY DEF Applied, Reverses, Changed, Patches, Trees

LEMMA WritePatchKeeps ==
    ASSUME LanesInv, WritePatch
    PROVE  LanesInv'
  <1> DEFINE l == command.lane
             p == command.patch
  <1>1. /\ UNCHANGED <<commits, exists, base, work, ignored, edits, added, stale, fresh, inside>>
        /\ command' = Idle /\ lead \in Trees /\ p \in Patches
        /\ l \in vouched => p = Patch(l)
        /\ vouched' = IF l \in vouched THEN vouched ELSE {}
    BY DEF WritePatch, LanesInv, LanesTypeOK, ApplyOK
  <1>2. lead' = lead \/ lead' = Applied(p, lead)
    BY DEF WritePatch
  <1>3. /\ lead' \in Trees
        /\ \A f \in Files \ Changed(p) : lead'[f] = lead[f]
        /\ lead' = lead \/ Reverses(p, lead')
    BY <1>1, <1>2, AppliedIs
  <1>4. vouched' \subseteq vouched
    BY <1>1
  <1>5. LanesTypeOK'
    BY <1>1, <1>3, <1>4, CommandsAre DEF LanesInv, LanesTypeOK
  <1>6. Managed' = Managed /\ \A k : Patch(k)' = Patch(k) /\ Changed(Patch(k))' = Changed(Patch(k))
    BY <1>1 DEF Managed, Patch, Changed
  <1>7. BasesOK' /\ FenceOK'
    BY <1>1, <1>6 DEF LanesInv, BasesOK, FenceOK, Idle
  <1>8. ASSUME NEW k \in vouched'
        PROVE  State(Patch(k), lead)' # "conflicts"
    <2>1. k \in vouched /\ l \in vouched /\ p = Patch(l)
      BY <1>1, <1>8
    <2>2. Applies(Patch(k), lead) \/ Reverses(Patch(k), lead)
      BY <2>1, StateIs DEF LanesInv, VouchedOK
    <2>3. Applies(Patch(k), lead') \/ Reverses(Patch(k), lead')
      <3>1. CASE k = l
        BY <1>3, <2>1, <2>2, <3>1
      <3>2. CASE k # l
        <4>1. \A f \in Changed(Patch(k)) : f \in Files \ Changed(p)
          BY <2>1, <3>2 DEF LanesInv, VouchedOK, Changed
        <4> QED BY <1>3, <2>2, <4>1 DEF Applies, Reverses
      <3> QED BY <3>1, <3>2
    <2>4. State(Patch(k), lead') # "conflicts"
      BY <2>3, StateIs
    <2>5. State(Patch(k), lead)' = State(Patch(k), lead')
      BY <1>6 DEF State, Applies, Reverses
    <2> QED BY <2>4, <2>5
  <1>9. VouchedOK'
    BY <1>4, <1>6, <1>8 DEF LanesInv, VouchedOK
  <1>10. CheckOK' /\ ApplyOK' /\ RemoveOK'
    BY <1>1 DEF CheckOK, ApplyOK, RemoveOK, Idle
  <1> QED BY <1>5, <1>7, <1>9, <1>10 DEF LanesInv

-----------------------------------------------------------------------------
(* remove *)

LEMMA StartRemoveKeeps ==
    ASSUME LanesInv, NEW l \in LaneNames, NEW discard \in BOOLEAN, StartRemove(l, discard)
    PROVE  LanesInv'
  <1>1. /\ UNCHANGED <<repository, edits>> /\ UNCHANGED <<added, vouched, inside>>
        /\ UNCHANGED <<stale, fresh>> /\ l \in Managed
    BY DEF StartRemove, history
  <1>2. command' = [op |-> "remove", step |-> "ReadPatch", lane |-> l, patch |-> NoTree,
                    discard |-> discard]
    BY DEF StartRemove
  <1>3. command' \in RemoveCommand
    BY <1>2 DEF RemoveCommand, Steps
  <1>4. stale' \subseteq Files /\ fresh' \in BOOLEAN
    BY <1>1 DEF LanesInv, LanesTypeOK
  <1>5. LanesTypeOK' /\ BasesOK' /\ VouchedOK' /\ FenceOK' /\ Managed' = Managed
    BY <1>1, <1>2, <1>3, <1>4, CommandsAre, QuietKeeps
  <1>6. CheckOK' /\ ApplyOK' /\ RemoveOK'
    BY <1>1, <1>2, <1>5 DEF CheckOK, ApplyOK, RemoveOK
  <1> QED BY <1>5, <1>6 DEF LanesInv

LEMMA RemovePatchKeeps ==
    ASSUME LanesInv, RemovePatch
    PROVE  LanesInv'
  <1> DEFINE l == command.lane
  <1>1. /\ UNCHANGED <<repository, edits>> /\ UNCHANGED <<added, vouched, inside>>
        /\ stale' = {} /\ fresh' = fresh /\ command \in RemoveCommand /\ l \in Managed
        /\ command' = [command EXCEPT !.step = "Judge", !.patch = Patch(l)]
    BY CommandKinds DEF RemovePatch, LanesInv, LanesTypeOK, RemoveOK
  <1>2. Patch(l) \in Patches /\ Patch(l).from = base[l] /\ Patch(l).to = work[l]
    BY <1>1, PatchIs DEF LanesInv
  <1>3. /\ command' \in RemoveCommand /\ command'.op = "remove" /\ command'.lane = l
        /\ command'.step = "Judge" /\ command'.patch = Patch(l)
    BY <1>1, <1>2 DEF RemoveCommand, Steps
  <1>4. stale' \subseteq Files /\ fresh' \in BOOLEAN
    BY <1>1 DEF LanesInv, LanesTypeOK
  <1>5. LanesTypeOK' /\ BasesOK' /\ VouchedOK' /\ FenceOK' /\ Managed' = Managed
    BY <1>1, <1>3, <1>4, CommandsAre, QuietKeeps
  <1>6. RemoveOK'
    BY <1>1, <1>2, <1>3, <1>5 DEF RemoveOK, repository
  <1>7. CheckOK' /\ ApplyOK'
    BY <1>3 DEF CheckOK, ApplyOK
  <1> QED BY <1>5, <1>6, <1>7 DEF LanesInv

\* A lane that remove finds unapplied is not removed without --discard.
LEMMA JudgeRemoveKeeps ==
    ASSUME LanesInv, JudgeRemove
    PROVE  LanesInv'
  <1> DEFINE l == command.lane
             s == State(command.patch, lead)
  <1>1. /\ UNCHANGED <<repository, edits>> /\ UNCHANGED <<added, vouched, inside>>
        /\ UNCHANGED <<stale, fresh>> /\ command \in RemoveCommand
        /\ command.op = "remove" /\ command.step = "Judge"
    BY CommandKinds DEF JudgeRemove, history, LanesInv, LanesTypeOK
  <1>2. \/ command.discard /\ command' = [command EXCEPT !.step = "RemoveWorktree"]
        \/ s \in {"empty", "applied"} /\ command' = [command EXCEPT !.step = "ListIgnored"]
        \/ command' = Idle
    <2>1. command.discard \in BOOLEAN
      BY <1>1 DEF RemoveCommand
    <2> QED BY <2>1, Zenon DEF JudgeRemove
  <1>3. stale' \subseteq Files /\ fresh' \in BOOLEAN
    BY <1>1 DEF LanesInv, LanesTypeOK
  <1>4. CASE command' = Idle
    <2>1. LanesTypeOK' /\ BasesOK' /\ VouchedOK' /\ FenceOK'
      BY <1>1, <1>3, <1>4, CommandsAre, QuietKeeps DEF Idle
    <2> QED BY <1>4, <2>1 DEF LanesInv, CheckOK, ApplyOK, RemoveOK, Idle
  <1>5. CASE command' # Idle
    <2>1. /\ command' \in RemoveCommand /\ command'.op = "remove" /\ command'.lane = l
          /\ command'.patch = command.patch /\ command'.discard = command.discard
          /\ \/ command.discard
             \/ s \in {"empty", "applied"} /\ command'.step = "ListIgnored"
      BY <1>1, <1>2, <1>5 DEF RemoveCommand, Steps
    <2>2. LanesTypeOK' /\ BasesOK' /\ VouchedOK' /\ FenceOK' /\ Managed' = Managed
      BY <1>1, <1>3, <2>1, CommandsAre, QuietKeeps
    <2>3. UNCHANGED <<lead, base, work, ignored, stale, fresh>>
      BY <1>1 DEF repository
    <2>4. /\ l \in Managed /\ command.patch \in Patches /\ command.patch.from = base[l]
          /\ \A f \in Files \ stale : command.patch.to[f] = work[l][f]
      BY <1>1 DEF LanesInv, RemoveOK
    <2>5. s \in {"empty", "applied"} =>
            \A f \in Files \ stale : work[l][f] # base[l][f] => lead[f] = work[l][f]
      <3>1. s \in {"empty", "applied"} => Reverses(command.patch, lead)
        BY StateIs
      <3> HIDE DEF s
      <3> QED BY <2>4, <3>1 DEF Reverses, Changed
    <2>6. RemoveOK'
      <3> HIDE DEF s
      <3> QED BY <2>1, <2>2, <2>3, <2>4, <2>5 DEF RemoveOK
    <2>7. CheckOK' /\ ApplyOK'
      BY <2>1 DEF CheckOK, ApplyOK
    <2> QED BY <2>2, <2>6, <2>7 DEF LanesInv
  <1> QED BY <1>4, <1>5

LEMMA ListIgnoredKeeps ==
    ASSUME LanesInv, ListIgnored
    PROVE  LanesInv'
  <1> DEFINE l == command.lane
  <1>1. /\ UNCHANGED <<repository, edits>> /\ UNCHANGED <<added, vouched, inside>>
        /\ stale' = stale /\ fresh' = FALSE /\ command \in RemoveCommand
        /\ command.op = "remove" /\ command.step = "ListIgnored"
        /\ \/ command' = Idle
           \/ l \notin ignored /\ command' = [command EXCEPT !.step = "RemoveWorktree"]
    BY CommandKinds DEF ListIgnored, LanesInv, LanesTypeOK
  <1>2. fresh' \in BOOLEAN
    BY <1>1
  <1>3. stale' \subseteq Files
    BY <1>1 DEF LanesInv, LanesTypeOK
  <1>4. CASE command' = Idle
    <2>1. LanesTypeOK' /\ BasesOK' /\ VouchedOK' /\ FenceOK'
      BY <1>1, <1>2, <1>3, <1>4, CommandsAre, QuietKeeps DEF Idle
    <2> QED BY <1>4, <2>1 DEF LanesInv, CheckOK, ApplyOK, RemoveOK, Idle
  <1>5. CASE l \notin ignored /\ command' = [command EXCEPT !.step = "RemoveWorktree"]
    <2>1. /\ command' \in RemoveCommand /\ command'.op = "remove" /\ command'.lane = l
          /\ command'.patch = command.patch /\ command'.discard = command.discard
      BY <1>1, <1>5 DEF RemoveCommand, Steps
    <2>2. LanesTypeOK' /\ BasesOK' /\ VouchedOK' /\ FenceOK' /\ Managed' = Managed
      BY <1>1, <1>2, <1>3, <2>1, CommandsAre, QuietKeeps
    <2>3. UNCHANGED <<lead, base, work, ignored, stale>>
      BY <1>1 DEF repository
    <2>4. RemoveOK'
      BY <1>1, <1>5, <2>1, <2>2, <2>3 DEF LanesInv, RemoveOK
    <2>5. CheckOK' /\ ApplyOK'
      BY <2>1 DEF CheckOK, ApplyOK
    <2> QED BY <2>2, <2>4, <2>5 DEF LanesInv
  <1> QED BY <1>1, <1>4, <1>5

LEMMA RemoveWorktreeKeeps ==
    ASSUME LanesConstants, LanesInv, RemoveWorktree
    PROVE  LanesInv'
  <1> DEFINE l == command.lane
  <1>1. /\ exists' = exists \ {l} /\ base' = [base EXCEPT ![l] = NoTree]
        /\ work' = [work EXCEPT ![l] = [f \in Files |-> Original]]
        /\ ignored' = ignored \ {l} /\ added' = added \ {l}
        /\ vouched' = vouched \ {l} /\ inside' = inside \ {l}
        /\ command' = Idle /\ UNCHANGED <<lead, commits, edits, stale, fresh>>
    BY DEF RemoveWorktree
  <1>2. l \in LaneNames
    BY PatchIs DEF LanesInv, RemoveOK, RemoveWorktree
  <1>3. [f \in Files |-> Original] \in Trees
    BY DEF LanesConstants, Trees
  <1>4. base' \in [LaneNames -> Trees \cup {NoTree}] /\ work' \in [LaneNames -> Trees]
    BY <1>1, <1>2, <1>3 DEF LanesInv, LanesTypeOK
  <1>5. LanesTypeOK'
    BY <1>1, <1>4, CommandsAre DEF LanesInv, LanesTypeOK
  <1>6. /\ Managed' = Managed \ {l}
        /\ \A k \in Managed \ {l} : Patch(k)' = Patch(k) /\ Changed(Patch(k))' = Changed(Patch(k))
    BY <1>1, <1>2 DEF LanesInv, LanesTypeOK, Managed, Patch, Changed
  <1>7. BasesOK'
    BY <1>1, <1>2, <1>6 DEF LanesInv, LanesTypeOK, BasesOK, Idle
  <1>8. FenceOK'
    BY <1>1, <1>6 DEF LanesInv, FenceOK
  <1>9. VouchedOK'
    <2>1. vouched' \subseteq Managed'
      BY <1>1, <1>6 DEF LanesInv, VouchedOK
    <2>2. \A k \in vouched' : k \in vouched /\ k \in Managed \ {l}
      BY <1>1 DEF LanesInv, VouchedOK
    <2>3. \A k \in vouched' : State(Patch(k), lead)' = State(Patch(k), lead)
      BY <1>1, <1>6, <2>2 DEF State, Applies, Reverses
    <2> QED BY <1>6, <2>1, <2>2, <2>3 DEF LanesInv, VouchedOK
  <1>10. CheckOK' /\ ApplyOK' /\ RemoveOK'
    BY <1>1 DEF CheckOK, ApplyOK, RemoveOK, Idle
  <1> QED BY <1>5, <1>7, <1>8, <1>9, <1>10 DEF LanesInv

-----------------------------------------------------------------------------
(* The theorems *)

LEMMA NextLanesInv ==
    ASSUME LanesConstants, LanesInv, [LanesNext]_lanesVars
    PROVE  LanesInv'
  <1>1. CASE UNCHANGED lanesVars
    BY <1>1
    DEF LanesInv, LanesTypeOK, BasesOK, VouchedOK, CheckOK, ApplyOK, FenceOK, RemoveOK, Managed,
        Patch, Changed, State, Applies, Reverses, lanesVars, repository, history
  <1>2. ASSUME NEW l \in LaneNames, NEW f \in Files, NEW t \in Texts, EditLane(l, f, t)
        PROVE  LanesInv'
    BY <1>2, EditLaneKeeps
  <1>3. ASSUME NEW l \in LaneNames, NEW tree \in commits, StartAdd(l, tree)
        PROVE  LanesInv'
    BY <1>3, StartAddKeeps
  <1>4. ASSUME NEW l \in LaneNames, CheckPatch(l) \/ StartApply(l) \/ PassFence(l)
        PROVE  LanesInv'
    BY <1>4, CheckPatchKeeps, StartApplyKeeps, PassFenceKeeps
  <1>5. ASSUME NEW l \in LaneNames, NEW discard \in BOOLEAN, StartRemove(l, discard)
        PROVE  LanesInv'
    BY <1>5, StartRemoveKeeps
  <1>6. ASSUME NEW f \in Files, NEW t \in Texts, EditLead(f, t)
        PROVE  LanesInv'
    BY <1>6, EditLeadKeeps
  <1>7. CASE (\E l \in LaneNames : LeaveIgnored(l)) \/ CommitLead
    BY <1>7, OtherWorkKeeps
  <1>8. CASE AddWorktree \/ RecordBase \/ StartCheck \/ CheckTouched \/ FinishCheck \/ Kill
    BY <1>8, AddWorktreeKeeps, RecordBaseKeeps, StartCheckKeeps, CheckTouchedKeeps,
       FinishCheckKeeps, KillKeeps
  <1>9. CASE ApplyPatch \/ JudgeApply \/ WritePatch
    BY <1>9, ApplyPatchKeeps, JudgeApplyKeeps, WritePatchKeeps
  <1>10. CASE RemovePatch \/ JudgeRemove \/ ListIgnored \/ RemoveWorktree
    BY <1>10, RemovePatchKeeps, JudgeRemoveKeeps, ListIgnoredKeeps, RemoveWorktreeKeeps
  <1> QED
    BY <1>1, <1>2, <1>3, <1>4, <1>5, <1>6, <1>7, <1>8, <1>9, <1>10 DEF LanesNext

\* No step that ends a lane loses what its worker had changed when remove read it.
LEMMA StepKeepsWork ==
    ASSUME LanesInv, [LanesNext]_lanesVars
    PROVE  KeepsWork
  <1> SUFFICES ASSUME NEW l \in exists, l \notin exists', ~command.discard
               PROVE  /\ \A f \in Files \ stale : work[l][f] # base[l][f] => lead[f] = work[l][f]
                      /\ l \in ignored => fresh
    BY DEF KeepsWork
  <1>1. RemoveWorktree
    BY DEF LanesNext, lanesVars, repository, EditLane, LeaveIgnored, EditLead, CommitLead, StartAdd,
           AddWorktree, RecordBase, StartCheck, CheckPatch, CheckTouched, FinishCheck, StartApply,
           ApplyPatch, JudgeApply, WritePatch, StartRemove, RemovePatch, JudgeRemove, ListIgnored,
           PassFence, Kill
  <1>2. command.lane = l
    BY <1>1 DEF RemoveWorktree
  <1> QED BY <1>1, <1>2 DEF RemoveWorktree, LanesInv, RemoveOK

\* A patch that passed the fence is written inside it.
LEMMA StepStaysInside ==
    ASSUME LanesInv, [LanesNext]_lanesVars
    PROVE  StaysInside
  <1> SUFFICES ASSUME command.op = "apply", command.step = "Write", command.inside,
                      command' = Idle, NEW f \in Files \ Fenced
               PROVE  lead'[f] = lead[f]
    BY DEF StaysInside
  <1>1. f \in Files \ Changed(command.patch) /\ command.patch \in Patches /\ lead \in Trees
    BY DEF LanesInv, LanesTypeOK, ApplyOK
  <1>2. CASE WritePatch
    BY <1>1, <1>2, AppliedIs DEF WritePatch
  <1>3. CASE lead' = lead
    BY <1>3
  <1>4. CASE \E g \in Files, t \in Texts : EditLead(g, t)
    <2>1. command' = command
      BY <1>4 DEF EditLead, Restless
    <2> QED BY <2>1 DEF Idle
  <1> QED
    BY <1>2, <1>3, <1>4
    DEF LanesNext, lanesVars, repository, EditLane, LeaveIgnored, CommitLead, StartAdd,
        AddWorktree, RecordBase, StartCheck, CheckPatch, CheckTouched, FinishCheck, StartApply,
        ApplyPatch, JudgeApply, StartRemove, RemovePatch, JudgeRemove, ListIgnored,
        RemoveWorktree, PassFence, Kill

LEMMA LanesInvariance ==
    ASSUME LanesConstants
    PROVE  LanesSpec => []LanesInv
  BY InitLanesInv, NextLanesInv, PTL DEF LanesSpec

LEMMA LanesInvSays ==
    ASSUME LanesInv
    PROVE  LanesTypeOK /\ AddedIsManaged /\ CheckedLanesApply
  BY DEF LanesInv, BasesOK, VouchedOK, AddedIsManaged, CheckedLanesApply

\* Every lane reported as added stays managed, and every lane a check vouches for can be applied
\* in any order (lanes, cmdAdd, cmdCheck).
THEOREM LanesAreSafe ==
    ASSUME LanesConstants
    PROVE  LanesSpec => [](LanesTypeOK /\ AddedIsManaged /\ CheckedLanesApply)
  BY LanesInvariance, LanesInvSays, PTL

\* remove deletes no work it was not told to discard, and a lane that passed the fence is applied
\* inside it (cmdRemove, cmdApply).
THEOREM LanesKeepTheWork ==
    ASSUME LanesConstants
    PROVE  LanesSpec => [][KeepsWork /\ StaysInside]_lanesVars
  <1>1. LanesInv /\ [LanesNext]_lanesVars => KeepsWork /\ StaysInside
    BY StepKeepsWork, StepStaysInside
  <1> QED BY <1>1, LanesInvariance, PTL DEF LanesSpec

-----------------------------------------------------------------------------
(* Lessons: what stands behind a record, in the store and in a command that has loaded it *)

Stands(l) ==
    /\ l.surface = "check" /\ l.proof # NoLesson => l.proof \in CaughtThere
    /\ l.surface = "check" /\ l.status \in {"proven", "promoted"} => l.proof # NoLesson
    /\ l.status = "promoted" => l.proof # NoLesson \/ l.sources >= 2

AddTask ==
    [op : {"add"}, at : {"create", "write"}, id : LessonIds, surface : Surfaces, sources : 1..2]
ProveTask ==
    [op : {"prove"}, at : {"past", "now", "save"}, id : LessonIds, proof : Checks \cup {"ab"},
     loaded : LessonRecords]
PromoteTask == [op : {"promote"}, at : {"verify", "save"}, id : LessonIds, loaded : LessonRecords]
RetireTask  == [op : {"retire"}, at : {"save"}, id : LessonIds, loaded : LessonRecords]
Tasks == {Done} \cup AddTask \cup ProveTask \cup PromoteTask \cup RetireTask

\* A command that saves was given a lesson fit for it, and the check it is about to record failed
\* at the old commit.
ReadyToSave(t) ==
    t.op \in {"prove", "promote", "retire"} =>
      /\ Stands(t.loaded)
      /\ t.op # "retire" => t.loaded.status # "retired"
      /\ t.op = "prove" /\ t.at # "past" /\ t.loaded.surface = "check" => t.proof \in CaughtThere
      /\ t.op = "promote" => t.loaded.proof # NoLesson \/ t.loaded.sources >= 2
      /\ t.op = "promote" /\ t.loaded.surface = "check" => t.loaded.proof # NoLesson

\* The file of a command that loaded one is a lesson still, and a file that is being written is
\* torn, and one curator's.
FilesOK ==
    \A s \in Curators :
      /\ task[s].op \in {"prove", "promote", "retire"} => Saved(task[s].id)
      /\ task[s].op = "add" /\ task[s].at = "write" =>
           /\ ledger[task[s].id] = Torn
           /\ \A z \in Curators \ {s} :
                task[z].op = "add" /\ task[z].at = "write" => task[z].id # task[s].id

StoreOK ==
    /\ ledger \in [LessonIds -> LessonRecords \cup {NoLesson, Torn}]
    /\ task \in [Curators -> Tasks]

LessonsInv ==
    /\ LessonsTypeOK /\ StoreOK /\ FilesOK /\ RecurringIsReal
    /\ \A i \in LessonIds : Saved(i) => Stands(ledger[i])
    /\ \A s \in Curators : ReadyToSave(task[s])

LEMMA TaskKinds ==
    ASSUME NEW t \in Tasks
    PROVE  /\ t = Done \/ t.op \in {"add", "prove", "promote", "retire"}
           /\ t.op = "add" => t \in AddTask
           /\ t.op = "prove" => t \in ProveTask
           /\ t.op = "promote" => t \in PromoteTask
           /\ t.op = "retire" => t \in RetireTask
  BY DEF Tasks, Done, AddTask, ProveTask, PromoteTask, RetireTask

LEMMA TasksAre ==
    /\ AddTask \subseteq Tasks /\ ProveTask \subseteq Tasks
    /\ PromoteTask \subseteq Tasks /\ RetireTask \subseteq Tasks
    /\ Done \in Tasks /\ Done.op = "none"
  BY DEF Tasks, Done, AddTask, ProveTask, PromoteTask, RetireTask

LEMMA InitLessonsInv ==
    ASSUME LessonsConstants, LessonsInit
    PROVE  LessonsInv
  <1>1. StoreOK
    BY TasksAre DEF LessonsInit, StoreOK
  <1>2. \A i \in LessonIds : ~Saved(i)
    BY DEF LessonsInit, Saved
  <1>3. \A s \in Curators : task[s].op = "none"
    BY TasksAre DEF LessonsInit
  <1>4. LessonsTypeOK
    <2>1. day \in 1..LastDay /\ started \in 0..MaxCommands
      BY DEF LessonsInit, LessonsConstants
    <2>2. green \subseteq Checks /\ recurred \subseteq 1..LastDay
      BY DEF LessonsInit
    <2>3. anchored \in BOOLEAN
      BY DEF LessonsInit
    <2>4. overlapped \in BOOLEAN
      BY DEF LessonsInit
    <2> QED BY <1>2, <2>1, <2>2, <2>3, <2>4 DEF LessonsTypeOK
  <1>5. FilesOK /\ \A s \in Curators : ReadyToSave(task[s])
    BY <1>3 DEF FilesOK, ReadyToSave
  <1>6. RecurringIsReal
    BY DEF LessonsInit, RecurringIsReal
  <1> QED BY <1>1, <1>2, <1>4, <1>5, <1>6 DEF LessonsInv

\* The project moves on, the store and the commands stay.
LEMMA WorldKeeps ==
    ASSUME LessonsConstants, LessonsInv, NextDay \/ Recur \/ EditTree \/ EditTarget
    PROVE  LessonsInv'
  <1>1. review' = Done /\ UNCHANGED <<ledger, task, started, overlapped>>
    BY DEF NextDay, Recur, EditTree, EditTarget, World
  <1>2. /\ \A i \in LessonIds : Saved(i)' = Saved(i) /\ ledger'[i] = ledger[i]
        /\ \A s \in Curators : task'[s] = task[s]
    BY <1>1 DEF Saved
  <1>3. day' \in 1..LastDay
    BY DEF LessonsConstants, LessonsInv, LessonsTypeOK, NextDay, Recur, EditTree, EditTarget, World
  <1>4. recurred' \subseteq 1..LastDay
    BY DEF LessonsInv, LessonsTypeOK, NextDay, Recur, EditTree, EditTarget, World
  <1>5. green' \subseteq Checks
    BY DEF LessonsInv, LessonsTypeOK, NextDay, Recur, EditTree, EditTarget, World
  <1>6. anchored' \in BOOLEAN
    BY DEF LessonsInv, LessonsTypeOK, NextDay, Recur, EditTree, EditTarget, World
  <1>7. LessonsTypeOK'
    BY <1>1, <1>2, <1>3, <1>4, <1>5, <1>6 DEF LessonsInv, LessonsTypeOK
  <1>8. RecurringIsReal'
    BY <1>1 DEF RecurringIsReal
  <1>9. StoreOK' /\ FilesOK'
    BY <1>1, <1>2 DEF LessonsInv, StoreOK, FilesOK, Saved
  <1>10. \A s \in Curators : ReadyToSave(task[s])'
    BY <1>2 DEF LessonsInv, ReadyToSave, Stands
  <1>11. \A i \in LessonIds : Saved(i)' => Stands(ledger[i])'
    BY <1>2 DEF LessonsInv, Stands
  <1> QED BY <1>7, <1>8, <1>9, <1>10, <1>11 DEF LessonsInv

\* A command takes a step and leaves the store alone.
LEMMA MoveKeeps ==
    ASSUME LessonsInv, NEW s \in Curators, NEW t \in Tasks,
           task' = [task EXCEPT ![s] = t], ledger' = ledger, Quiet, started' \in 0..MaxCommands,
           ReadyToSave(t), t.op \in {"prove", "promote", "retire"} => Saved(t.id),
           t.op = "add" => t.at # "write"
    PROVE  LessonsInv'
  <1>1. /\ task' \in [Curators -> Tasks] /\ task'[s] = t
        /\ \A z \in Curators \ {s} : task'[z] = task[z]
    BY DEF LessonsInv, StoreOK
  <1>2. \A i \in LessonIds : Saved(i)' = Saved(i) /\ ledger'[i] = ledger[i]
    BY DEF Saved
  <1>3. LessonsTypeOK' /\ RecurringIsReal'
    BY <1>2 DEF LessonsInv, LessonsTypeOK, RecurringIsReal, Quiet, world
  <1>4. StoreOK'
    BY <1>1 DEF LessonsInv, StoreOK
  <1>5. FilesOK'
    BY <1>1, <1>2 DEF LessonsInv, FilesOK, Saved
  <1>6. \A z \in Curators : ReadyToSave(task[z])'
    BY <1>1 DEF LessonsInv, ReadyToSave, Stands
  <1>7. \A i \in LessonIds : Saved(i)' => Stands(ledger[i])'
    BY <1>2 DEF LessonsInv, Stands
  <1> QED BY <1>3, <1>4, <1>5, <1>6, <1>7 DEF LessonsInv

LEMMA GotoKeeps ==
    ASSUME LessonsInv, NEW s \in Curators, NEW t \in Tasks, Goto(s, t), ReadyToSave(t),
           t.op \in {"prove", "promote", "retire"} => Saved(t.id), t.op = "add" => t.at # "write"
    PROVE  LessonsInv'
  <1>1. started' \in 0..MaxCommands
    BY DEF Goto, LessonsInv, LessonsTypeOK
  <1> QED BY <1>1, MoveKeeps DEF Goto

LEMMA StartKeeps ==
    ASSUME LessonsConstants, LessonsInv, NEW s \in Curators, NEW t \in Tasks, Start(s, t),
           ReadyToSave(t), t.op \in {"prove", "promote", "retire"} => Saved(t.id),
           t.op = "add" => t.at # "write"
    PROVE  LessonsInv'
  <1>1. started' \in 0..MaxCommands
    BY DEF Start, LessonsConstants, LessonsInv, LessonsTypeOK
  <1> QED BY <1>1, MoveKeeps DEF Start

LEMMA KillCuratorKeeps ==
    ASSUME LessonsInv, NEW s \in Curators, KillCurator(s)
    PROVE  LessonsInv'
  BY TasksAre, GotoKeeps DEF KillCurator, ReadyToSave

LEMMA StartAddLessonKeeps ==
    ASSUME LessonsConstants, LessonsInv, NEW s \in Curators, StartAddLesson(s)
    PROVE  LessonsInv'
  <1>1. PICK i \in LessonIds, surface \in Surfaces, sources \in 1..2 :
          Start(s, [op |-> "add", at |-> "create", id |-> i, surface |-> surface,
                    sources |-> sources])
    BY DEF StartAddLesson
  <1> DEFINE t == [op |-> "add", at |-> "create",
                   id |-> i, surface |-> surface, sources |-> sources]
  <1>2. t \in AddTask /\ t.op = "add" /\ t.at = "create"
    BY DEF AddTask
  <1>3. t \in Tasks /\ ReadyToSave(t)
    BY <1>2, TasksAre DEF ReadyToSave
  <1> HIDE DEF t
  <1> QED BY <1>1, <1>2, <1>3, StartKeeps DEF t

LEMMA LoadableIs ==
    ASSUME LessonsInv, NEW i \in LessonIds, NEW op, Loadable(op, i)
    PROVE  /\ Saved(i) /\ ledger[i] \in LessonRecords /\ Stands(ledger[i])
           /\ op # "retire" => ledger[i].status # "retired"
  BY DEF LessonsInv, LessonsTypeOK, Loadable, Saved

LEMMA StartProveKeeps ==
    ASSUME LessonsConstants, LessonsInv, NEW s \in Curators, StartProve(s)
    PROVE  LessonsInv'
  <1>1. PICK i \in LessonIds, proof \in Checks \cup {"ab"} :
          /\ Loadable("prove", i) /\ (proof = "ab") = (ledger[i].surface # "check")
          /\ Start(s, [op |-> "prove", at |-> IF proof = "ab" THEN "save" ELSE "past", id |-> i,
                       proof |-> proof, loaded |-> ledger[i]])
    BY DEF StartProve
  <1> DEFINE at == IF proof = "ab" THEN "save" ELSE "past"
             t == [op |-> "prove", at |-> at, id |-> i, proof |-> proof, loaded |-> ledger[i]]
  <1>2. /\ Saved(i) /\ ledger[i] \in LessonRecords /\ Stands(ledger[i])
        /\ ledger[i].status # "retired"
    BY <1>1, LoadableIs
  <1>3. /\ t \in ProveTask /\ t.op = "prove" /\ t.at = at /\ t.id = i /\ t.loaded = ledger[i]
        /\ t.proof = proof
    BY <1>2 DEF ProveTask
  <1> HIDE DEF t
  <1>4. t \in Tasks /\ ReadyToSave(t)
    BY <1>1, <1>2, <1>3, TasksAre DEF ReadyToSave
  <1> QED BY <1>1, <1>2, <1>3, <1>4, StartKeeps DEF t

LEMMA StartPromoteKeeps ==
    ASSUME LessonsConstants, LessonsInv, NEW s \in Curators, StartPromote(s)
    PROVE  LessonsInv'
  <1>1. PICK i \in LessonIds :
          /\ Loadable("promote", i)
          /\ ledger[i].proof # NoLesson \/ ledger[i].sources >= 2
          /\ ledger[i].surface = "check" => ledger[i].proof \in Checks
          /\ Start(s, [op |-> "promote", at |-> "verify", id |-> i, loaded |-> ledger[i]])
    BY DEF StartPromote
  <1> DEFINE t == [op |-> "promote", at |-> "verify", id |-> i, loaded |-> ledger[i]]
  <1>2. /\ Saved(i) /\ ledger[i] \in LessonRecords /\ Stands(ledger[i])
        /\ ledger[i].status # "retired"
    BY <1>1, LoadableIs
  <1>3. t \in PromoteTask /\ t.op = "promote" /\ t.id = i /\ t.loaded = ledger[i]
    BY <1>2 DEF PromoteTask
  <1> HIDE DEF t
  <1>4. t \in Tasks /\ ReadyToSave(t)
    BY <1>1, <1>2, <1>3, TasksAre DEF ReadyToSave, LessonsConstants
  <1> QED BY <1>1, <1>2, <1>3, <1>4, StartKeeps DEF t

LEMMA StartRetireKeeps ==
    ASSUME LessonsConstants, LessonsInv, NEW s \in Curators, StartRetire(s)
    PROVE  LessonsInv'
  <1>1. PICK i \in LessonIds :
          /\ Loadable("retire", i)
          /\ Start(s, [op |-> "retire", at |-> "save", id |-> i, loaded |-> ledger[i]])
    BY DEF StartRetire
  <1> DEFINE t == [op |-> "retire", at |-> "save", id |-> i, loaded |-> ledger[i]]
  <1>2. Saved(i) /\ ledger[i] \in LessonRecords /\ Stands(ledger[i])
    BY <1>1, LoadableIs
  <1>3. t \in RetireTask /\ t.op = "retire" /\ t.id = i /\ t.loaded = ledger[i]
    BY <1>2 DEF RetireTask
  <1> HIDE DEF t
  <1>4. t \in Tasks /\ ReadyToSave(t)
    BY <1>2, <1>3, TasksAre DEF ReadyToSave
  <1> QED BY <1>1, <1>2, <1>3, <1>4, StartKeeps DEF t

\* prove goes on only if the check fails at the old commit and passes now, promote only if the
\* lesson is in force.
LEMMA RunsKeep ==
    ASSUME LessonsInv, NEW s \in Curators, RunPast(s) \/ RunNow(s) \/ VerifyPromotion(s)
    PROVE  LessonsInv'
  <1>1. task[s] \in Tasks /\ ReadyToSave(task[s])
    BY DEF LessonsInv, StoreOK
  <1>2. task[s].op \in {"prove", "promote"} /\ Saved(task[s].id)
    BY DEF LessonsInv, FilesOK, RunPast, RunNow, VerifyPromotion
  <1>3. CASE Goto(s, Done)
    BY <1>3, TasksAre, GotoKeeps DEF ReadyToSave
  <1>4. CASE RunPast(s) /\ task[s].proof \in CaughtThere
    <2> DEFINE t == [task[s] EXCEPT !.at = "now"]
    <2>1. Goto(s, t) /\ task[s].op = "prove"
      BY <1>4 DEF RunPast
    <2>2. /\ t \in ProveTask /\ t.op = "prove" /\ t.id = task[s].id /\ t.at = "now"
          /\ t.loaded = task[s].loaded /\ t.proof = task[s].proof
      BY <1>1, <2>1, TaskKinds DEF ProveTask
    <2> HIDE DEF t
    <2>3. t \in Tasks /\ ReadyToSave(t)
      BY <1>1, <1>4, <2>1, <2>2, TasksAre DEF ReadyToSave
    <2> QED BY <1>2, <2>1, <2>2, <2>3, GotoKeeps
  <1>5. CASE RunNow(s) /\ task[s].proof \in green
    <2> DEFINE t == [task[s] EXCEPT !.at = "save"]
    <2>1. Goto(s, t) /\ task[s].op = "prove" /\ task[s].at = "now"
      BY <1>5 DEF RunNow
    <2>2. /\ t \in ProveTask /\ t.op = "prove" /\ t.id = task[s].id /\ t.at = "save"
          /\ t.loaded = task[s].loaded /\ t.proof = task[s].proof
      BY <1>1, <2>1, TaskKinds DEF ProveTask
    <2> HIDE DEF t
    <2>3. t \in Tasks /\ ReadyToSave(t)
      BY <1>1, <2>1, <2>2, TasksAre DEF ReadyToSave
    <2> QED BY <1>2, <2>1, <2>2, <2>3, GotoKeeps
  <1>6. CASE task[s].op = "promote" /\ Goto(s, [task[s] EXCEPT !.at = "save"])
    <2> DEFINE t == [task[s] EXCEPT !.at = "save"]
    <2>2. /\ t \in PromoteTask /\ t.op = "promote" /\ t.id = task[s].id
          /\ t.loaded = task[s].loaded
      BY <1>1, <1>6, TaskKinds DEF PromoteTask
    <2>1. Goto(s, t)
      BY <1>6
    <2> HIDE DEF t
    <2>3. t \in Tasks /\ ReadyToSave(t)
      BY <1>1, <1>6, <2>2, TasksAre DEF ReadyToSave
    <2> QED BY <1>2, <2>1, <2>2, <2>3, GotoKeeps
  <1> QED BY <1>3, <1>4, <1>5, <1>6 DEF RunPast, RunNow, VerifyPromotion

\* A file that is created is its creator's: nobody has loaded it.
LEMMA CreateLessonKeeps ==
    ASSUME LessonsConstants, LessonsInv, NEW s \in Curators, CreateLesson(s)
    PROVE  LessonsInv'
  <1> DEFINE t == task[s]
             w == [t EXCEPT !.at = "write"]
  <1>1. t \in AddTask /\ t.id \in LessonIds /\ t.op = "add" /\ t.at = "create"
    BY TaskKinds DEF LessonsInv, StoreOK, CreateLesson, AddTask
  <1>2. PICK i \in LessonIds : t.id = i
    BY <1>1
  <1>3. Quiet /\ started' = started /\ started \in 0..MaxCommands
    BY DEF CreateLesson, LessonsInv, LessonsTypeOK
  <1>4. CASE ledger[i] # NoLesson
    <2>1. ledger' = ledger /\ task' = [task EXCEPT ![s] = Done]
      BY <1>2, <1>4 DEF CreateLesson
    <2> QED BY <1>3, <2>1, TasksAre, MoveKeeps DEF ReadyToSave
  <1>5. CASE ledger[i] = NoLesson
    <2>1. ledger' = [ledger EXCEPT ![i] = Torn] /\ task' = [task EXCEPT ![s] = w]
      BY <1>2, <1>5 DEF CreateLesson, LessonsInv, StoreOK
    <2>2. w \in AddTask /\ w.op = "add" /\ w.at = "write" /\ w.id = i
      BY <1>1, <1>2 DEF AddTask
    <2> HIDE DEF w
    <2>3. StoreOK'
      BY <2>1, <2>2, TasksAre DEF LessonsInv, StoreOK
    <2>4. /\ task'[s] = w /\ \A z \in Curators \ {s} : task'[z] = task[z]
          /\ ledger'[i] = Torn /\ \A k \in LessonIds \ {i} : ledger'[k] = ledger[k]
      BY <2>1 DEF LessonsInv, StoreOK
    <2>5. /\ ~Saved(i) /\ ~Saved(i)'
          /\ \A k \in LessonIds \ {i} : Saved(k)' = Saved(k)
      BY <1>5, <2>4 DEF Saved
    <2>6. LessonsTypeOK'
      BY <1>3, <2>4, <2>5 DEF LessonsInv, LessonsTypeOK, Quiet, world
    <2>7. RecurringIsReal'
      BY <1>3 DEF Quiet, RecurringIsReal
    <2>8. \A z \in Curators : task[z].op # "none" => task[z].id \in LessonIds
      BY TaskKinds, TasksAre DEF LessonsInv, StoreOK, AddTask, ProveTask, PromoteTask, RetireTask
    <2>9. FilesOK'
      <3>1. ASSUME NEW z \in Curators, task'[z].op \in {"prove", "promote", "retire"}
            PROVE  Saved(task[z].id)'
        <4>1. z # s /\ task'[z] = task[z] /\ Saved(task[z].id) /\ task[z].id \in LessonIds
          BY <2>2, <2>4, <2>8, <3>1 DEF LessonsInv, FilesOK
        <4> QED BY <2>5, <4>1
      <3>2. ASSUME NEW z \in Curators \ {s}, task[z].op = "add", task[z].at = "write"
            PROVE  task[z].id \in LessonIds \ {i} /\ ledger'[task[z].id] = Torn
        <4>1. ledger[task[z].id] = Torn /\ task[z].id \in LessonIds
          BY <2>8, <3>2 DEF LessonsInv, FilesOK
        <4> QED BY <1>5, <2>4, <4>1 DEF LessonsConstants
      <3> QED BY <2>2, <2>4, <3>1, <3>2 DEF LessonsInv, FilesOK
    <2>10. \A z \in Curators : ReadyToSave(task[z])'
      BY <2>2, <2>4 DEF LessonsInv, ReadyToSave, Stands
    <2>11. \A k \in LessonIds : Saved(k)' => Stands(ledger[k])'
      BY <2>4, <2>5 DEF LessonsInv, Stands
    <2> QED BY <2>3, <2>6, <2>7, <2>9, <2>10, <2>11 DEF LessonsInv
  <1> QED BY <1>4, <1>5

\* A command ends and leaves a lesson in its file.
LEMMA EndKeeps ==
    ASSUME LessonsConstants, LessonsInv, NEW s \in Curators, task[s].op # "none",
           NEW record \in LessonRecords, Stands(record),
           ledger' = [ledger EXCEPT ![task[s].id] = record], task' = [task EXCEPT ![s] = Done],
           UNCHANGED <<started, world>>, overlapped' \in BOOLEAN, review' = Done,
           \A z \in Curators \ {s} :
             task[z].op = "add" /\ task[z].at = "write" => task[z].id # task[s].id
    PROVE  LessonsInv'
  <1>1. \A z \in Curators : task[z].op # "none" => task[z].id \in LessonIds
    BY TaskKinds, TasksAre DEF LessonsInv, StoreOK, AddTask, ProveTask, PromoteTask, RetireTask
  <1>2. PICK i \in LessonIds : task[s].id = i
    BY <1>1
  <1>3. StoreOK'
    BY <1>2, TasksAre DEF LessonsInv, StoreOK
  <1>4. /\ task'[s] = Done /\ \A z \in Curators \ {s} : task'[z] = task[z]
        /\ ledger'[i] = record /\ \A k \in LessonIds \ {i} : ledger'[k] = ledger[k]
    BY <1>2 DEF LessonsInv, StoreOK
  <1>5. Saved(i)' /\ \A k \in LessonIds \ {i} : Saved(k)' = Saved(k)
    BY <1>4 DEF Saved, LessonsConstants
  <1>6. LessonsTypeOK'
    BY <1>4, <1>5 DEF LessonsInv, LessonsTypeOK, world
  <1>7. RecurringIsReal'
    BY DEF RecurringIsReal
  <1>8. FilesOK'
    <2>1. ASSUME NEW z \in Curators, task'[z].op \in {"prove", "promote", "retire"}
          PROVE  Saved(task[z].id)'
      <3>1. z # s /\ task'[z] = task[z] /\ Saved(task[z].id) /\ task[z].id \in LessonIds
        BY <1>1, <1>4, <2>1, TasksAre DEF LessonsInv, FilesOK
      <3> QED BY <1>5, <3>1
    <2>2. ASSUME NEW z \in Curators, task'[z].op = "add", task'[z].at = "write"
          PROVE  /\ z # s /\ task'[z] = task[z] /\ ledger'[task[z].id] = Torn
      <3>1. z # s /\ task'[z] = task[z]
        BY <1>4, <2>2, TasksAre
      <3>2. task[z].id \in LessonIds \ {i} /\ ledger[task[z].id] = Torn
        BY <1>1, <1>2, <2>2, <3>1 DEF LessonsInv, FilesOK
      <3> QED BY <1>4, <3>1, <3>2
    <2> QED BY <1>4, <2>1, <2>2 DEF LessonsInv, FilesOK
  <1>9. \A z \in Curators : ReadyToSave(task[z])'
    BY <1>4, TasksAre DEF LessonsInv, ReadyToSave, Stands
  <1>10. \A k \in LessonIds : Saved(k)' => Stands(ledger[k])'
    BY <1>4, <1>5 DEF LessonsInv, Stands
  <1> QED BY <1>3, <1>6, <1>7, <1>8, <1>9, <1>10 DEF LessonsInv

LEMMA WriteLessonKeeps ==
    ASSUME LessonsConstants, LessonsInv, NEW s \in Curators, WriteLesson(s)
    PROVE  LessonsInv'
  <1> DEFINE r == [surface |-> task[s].surface, sources |-> task[s].sources, status |-> "candidate",
                   proof |-> NoLesson, created |-> day, promotedAt |-> 0, steps |-> 1]
  <1>1. task[s] \in AddTask /\ task[s].op = "add" /\ task[s].at = "write"
    BY TaskKinds DEF LessonsInv, StoreOK, WriteLesson
  <1>2. day \in 1..LastDay /\ 0 \in 0..LastDay
    BY DEF LessonsInv, LessonsTypeOK, LessonsConstants
  <1>3. r \in LessonRecords /\ r.proof = NoLesson /\ r.status = "candidate"
    BY <1>1, <1>2 DEF LessonRecords, AddTask, Statuses
  <1>4. Stands(r)
    BY <1>3 DEF Stands
  <1>5. /\ ledger' = [ledger EXCEPT ![task[s].id] = r] /\ task' = [task EXCEPT ![s] = Done]
        /\ UNCHANGED <<started, world>> /\ overlapped' = overlapped /\ review' = Done
    BY DEF WriteLesson, Quiet
  <1>6. overlapped' \in BOOLEAN
    BY <1>5 DEF LessonsInv, LessonsTypeOK
  <1>7. \A z \in Curators \ {s} :
          task[z].op = "add" /\ task[z].at = "write" => task[z].id # task[s].id
    BY <1>1 DEF LessonsInv, FilesOK
  <1> HIDE DEF r
  <1> QED BY <1>1, <1>3, <1>4, <1>5, <1>6, <1>7, EndKeeps

\* What a command saves: the lesson it loaded, one step on, and a lesson that was retired only
\* retired again.
LEMMA OutcomeIs ==
    ASSUME LessonsConstants, LessonsTypeOK, NEW t \in Tasks, ReadyToSave(t),
           t.op \in {"prove", "promote", "retire"}, t.at = "save"
    PROVE  /\ Outcome(t) \in LessonRecords /\ Stands(Outcome(t))
           /\ t.loaded \in LessonRecords /\ t.id \in LessonIds
           /\ Outcome(t).steps = t.loaded.steps + 1
           /\ t.loaded.status = "retired" => Outcome(t).status = "retired"
  <1> DEFINE l == [t.loaded EXCEPT !.steps = @ + 1]
  <1>1. t.loaded \in LessonRecords /\ t.id \in LessonIds
    BY TaskKinds DEF ProveTask, PromoteTask, RetireTask
  <1>2. /\ l \in LessonRecords /\ l.steps = t.loaded.steps + 1 /\ l.surface = t.loaded.surface
        /\ l.sources = t.loaded.sources /\ l.status = t.loaded.status
        /\ l.proof = t.loaded.proof
    BY <1>1 DEF LessonRecords
  <1> HIDE DEF l
  <1>3. CASE t.op = "prove"
    <2> DEFINE o == [l EXCEPT !.proof = t.proof, !.status = IF @ = "candidate" THEN "proven" ELSE @]
    <2>1. Outcome(t) = o
      BY <1>3 DEF Outcome, l
    <2>2. t.proof \in Checks \cup {"ab"}
      BY <1>3, TaskKinds DEF ProveTask
    <2>3. /\ o \in LessonRecords /\ o.steps = l.steps /\ o.proof = t.proof
          /\ o.surface = l.surface /\ o.sources = l.sources
      BY <1>2, <2>2 DEF LessonRecords, Statuses
    <2>4. t.proof # NoLesson /\ (t.loaded.surface = "check" => t.proof \in CaughtThere)
      BY <1>3, <2>2 DEF LessonsConstants, ReadyToSave
    <2>5. t.loaded.status # "retired"
      BY <1>3 DEF ReadyToSave
    <2> HIDE DEF o
    <2>6. Stands(o)
      BY <1>2, <2>3, <2>4 DEF Stands
    <2> QED BY <1>1, <1>2, <2>1, <2>3, <2>5, <2>6
  <1>4. CASE t.op = "promote"
    <2> DEFINE o == [l EXCEPT !.status = "promoted", !.promotedAt = day]
    <2>1. Outcome(t) = o
      BY <1>4 DEF Outcome, l
    <2>2. day \in 0..LastDay
      BY DEF LessonsTypeOK
    <2>3. /\ o \in LessonRecords /\ o.steps = l.steps /\ o.proof = l.proof
          /\ o.surface = l.surface /\ o.sources = l.sources /\ o.status = "promoted"
      BY <1>2, <2>2 DEF LessonRecords, Statuses
    <2>4. t.loaded.status # "retired" /\ Stands(t.loaded)
      BY <1>4 DEF ReadyToSave
    <2>5. /\ t.loaded.proof # NoLesson \/ t.loaded.sources >= 2
          /\ t.loaded.surface = "check" => t.loaded.proof # NoLesson
      BY <1>4 DEF ReadyToSave
    <2> HIDE DEF o
    <2>6. Stands(o)
      BY <1>2, <2>3, <2>4, <2>5 DEF Stands
    <2> QED BY <1>1, <1>2, <2>1, <2>3, <2>4, <2>6
  <1>5. CASE t.op = "retire"
    <2> DEFINE o == [l EXCEPT !.status = "retired"]
    <2>1. Outcome(t) = o
      BY <1>5 DEF Outcome, l
    <2>2. /\ o \in LessonRecords /\ o.steps = l.steps /\ o.proof = l.proof
          /\ o.surface = l.surface /\ o.sources = l.sources /\ o.status = "retired"
      BY <1>2 DEF LessonRecords, Statuses
    <2>3. Stands(t.loaded)
      BY <1>5 DEF ReadyToSave
    <2> HIDE DEF o
    <2>4. Stands(o)
      BY <1>2, <2>2, <2>3 DEF Stands
    <2> QED BY <1>1, <1>2, <2>1, <2>2, <2>4
  <1> QED BY <1>3, <1>4, <1>5

LEMMA SaveKeeps ==
    ASSUME LessonsConstants, LessonsInv, NEW s \in Curators, Save(s)
    PROVE  LessonsInv'
  <1>1. /\ task[s] \in Tasks /\ ReadyToSave(task[s]) /\ LessonsTypeOK
        /\ task[s].op \in {"prove", "promote", "retire"} /\ task[s].at = "save"
    BY DEF LessonsInv, StoreOK, Save
  <1>2. Outcome(task[s]) \in LessonRecords /\ Stands(Outcome(task[s]))
    BY <1>1, OutcomeIs
  <1>3. /\ ledger' = [ledger EXCEPT ![task[s].id] = Outcome(task[s])]
        /\ task' = [task EXCEPT ![s] = Done] /\ UNCHANGED <<started, world>> /\ review' = Done
    BY DEF Save
  <1>4. overlapped' \in BOOLEAN
    BY DEF Save, LessonsInv, LessonsTypeOK
  <1>5. \A z \in Curators \ {s} :
          task[z].op = "add" /\ task[z].at = "write" => task[z].id # task[s].id
    BY <1>1 DEF LessonsInv, FilesOK, Saved
  <1> QED BY <1>1, <1>2, <1>3, <1>4, <1>5, EndKeeps

\* A review calls a lesson recurring only over a window that starts after its promotion.
LEMMA RecurringSeen ==
    ASSUME LessonsInv, NEW i \in LessonIds, Saved(i), NEW card \in Scorecards,
           VerdictOf(ledger[i], card) = "recurring"
    PROVE  \E d \in recurred : d >= ledger[i].promotedAt
  <1> DEFINE l == ledger[i]
             seen == {d \in recurred : card.since <= d /\ d <= card.made}
  <1>1. l \in LessonRecords /\ recurred \subseteq 1..LastDay
    BY DEF LessonsInv, LessonsTypeOK
  <1>2. l.promotedAt \in Int /\ card.since \in Int /\ l.status \in Statuses
    BY <1>1 DEF LessonRecords, Scorecards
  <1>3. l.status = "promoted"
    <2>1. CASE l.status = "retired"
      <3>1. VerdictOf(l, card) = "skipped"
        BY <2>1, Zenon DEF VerdictOf
      <3> QED BY <3>1
    <2>2. CASE l.status \in {"candidate", "proven"}
      <3>1. l.status # "retired" /\ l.status # "promoted"
        BY <2>2
      <3>2. VerdictOf(l, card) = IF day - l.created > MaxAge THEN "expired" ELSE "waiting"
        BY <3>1, Zenon DEF VerdictOf
      <3> QED BY <3>2
    <2> QED BY <1>2, <2>1, <2>2 DEF Statuses
  <1>4. Judge(l, card) = "recurring"
    <2>1. VerdictOf(l, card) = Judge(l, card)
      <3>1. l.status # "retired"
        BY <1>3
      <3> QED BY <1>3, <3>1, Zenon DEF VerdictOf
    <2> QED BY <2>1
  <1>5. card.since >= l.promotedAt /\ Recurrences(card) > 0
    <2> DEFINE unknown == card.since < l.promotedAt
               since == card.since >= l.promotedAt
               some == Recurrences(card) > 0
               none == Recurrences(card) = 0
               late == day - l.promotedAt > MaxAge
    <2>1. CASE unknown
      <3>1. Judge(l, card) = "unknown"
        <4>1. ~since
          BY <1>2, <2>1
        <4> QED BY <2>1, <4>1, Zenon DEF Judge
      <3> QED BY <1>4, <3>1
    <2>2. CASE ~unknown /\ ~some
      <3>1. CASE none /\ late
        <4>1. since
          BY <1>2, <2>2
        <4>2. Judge(l, card) = "stale"
          BY <2>2, <3>1, <4>1, Zenon DEF Judge
        <4> QED BY <1>4, <4>2
      <3>2. CASE ~(none /\ late)
        <4>2. Judge(l, card) = "holding"
          BY <2>2, <3>2, Zenon DEF Judge
        <4> QED BY <1>4, <4>2
      <3> QED BY <3>1, <3>2
    <2> QED BY <1>2, <2>1, <2>2
  <1>6. PICK d \in recurred : card.since <= d
    <2>1. seen = {} => Recurrences(card) = 0
      BY FS_EmptySet DEF Recurrences
    <2>2. seen # {}
      BY <1>5, <2>1
    <2> QED BY <2>2
  <1> QED BY <1>1, <1>2, <1>5, <1>6

LEMMA ReviewKeeps ==
    ASSUME LessonsInv, NEW card \in Scorecards, Review(card)
    PROVE  LessonsInv'
  <1>1. UNCHANGED <<ledger, task, world, started, overlapped>>
    BY DEF Review
  <1>2. /\ \A i \in LessonIds : Saved(i)' = Saved(i) /\ ledger'[i] = ledger[i]
        /\ \A s \in Curators : task'[s] = task[s]
    BY <1>1 DEF Saved
  <1>3. LessonsTypeOK' /\ StoreOK' /\ FilesOK'
    BY <1>1, <1>2 DEF LessonsInv, LessonsTypeOK, StoreOK, FilesOK, world, Saved
  <1>4. /\ \A s \in Curators : ReadyToSave(task[s])'
        /\ \A i \in LessonIds : Saved(i)' => Stands(ledger[i])'
    BY <1>2 DEF LessonsInv, ReadyToSave, Stands
  <1>5. ASSUME NEW i \in LessonIds, review'.verdicts # Torn, review'.verdicts[i] = "recurring"
        PROVE  \E d \in recurred : d >= ledger[i].promotedAt
    <2> DEFINE said == [k \in LessonIds |->
                          IF ledger[k] = NoLesson THEN "skipped" ELSE VerdictOf(ledger[k], card)]
               torn == \E k \in LessonIds : ledger[k] = Torn
    <2>1. review'.verdicts = IF torn THEN Torn ELSE said
      BY DEF Review
    <2>2. ~torn /\ said[i] = "recurring"
      BY <1>5, <2>1
    <2>3. Saved(i) /\ VerdictOf(ledger[i], card) = "recurring"
      BY <2>2 DEF Saved
    <2> QED BY <2>3, RecurringSeen
  <1>6. RecurringIsReal'
    BY <1>1, <1>2, <1>5 DEF RecurringIsReal, world
  <1> QED BY <1>3, <1>4, <1>6 DEF LessonsInv

LEMMA NextLessonsInv ==
    ASSUME LessonsConstants, LessonsInv, [LessonsNext]_lessonVars
    PROVE  LessonsInv'
  <1>1. CASE UNCHANGED lessonVars
    BY <1>1
    DEF LessonsInv, LessonsTypeOK, StoreOK, FilesOK, RecurringIsReal, ReadyToSave, Stands, Saved,
        lessonVars, world
  <1>2. CASE NextDay \/ Recur \/ EditTree \/ EditTarget
    BY <1>2, WorldKeeps
  <1>3. ASSUME NEW s \in Curators,
               \/ StartAddLesson(s) \/ StartProve(s) \/ StartPromote(s) \/ StartRetire(s)
               \/ RunPast(s) \/ RunNow(s) \/ VerifyPromotion(s) \/ KillCurator(s)
        PROVE  LessonsInv'
    BY <1>3, StartAddLessonKeeps, StartProveKeeps, StartPromoteKeeps, StartRetireKeeps, RunsKeep,
       KillCuratorKeeps
  <1>4. ASSUME NEW s \in Curators, CreateLesson(s) \/ WriteLesson(s) \/ Save(s)
        PROVE  LessonsInv'
    BY <1>4, CreateLessonKeeps, WriteLessonKeeps, SaveKeeps
  <1>5. ASSUME NEW card \in Scorecards, Review(card)
        PROVE  LessonsInv'
    BY <1>5, ReviewKeeps
  <1> QED BY <1>1, <1>2, <1>3, <1>4, <1>5 DEF LessonsNext

\* Only writing, saving and creating change a file.
LEMMA StepsOnFiles ==
    ASSUME LessonsInv, [LessonsNext]_lessonVars
    PROVE  ledger' = ledger \/ \E s \in Curators : CreateLesson(s) \/ WriteLesson(s) \/ Save(s)
  BY DEF LessonsNext, lessonVars, NextDay, Recur, EditTree, EditTarget, World, StartAddLesson,
         StartProve, StartPromote, StartRetire, RunPast, RunNow, VerifyPromotion, KillCurator,
         Start, Goto, Review

LEMMA StepKeepsHistory ==
    ASSUME LessonsConstants, LessonsInv, [LessonsNext]_lessonVars
    PROVE  StaysWhole /\ KeepsHistory
  <1> SUFFICES ASSUME NEW i \in LessonIds, Saved(i)
               PROVE  /\ Saved(i)'
                      /\ ledger'[i] # ledger[i] /\ ~overlapped' =>
                           /\ ledger[i].status # "retired" \/ ledger'[i].status = "retired"
                           /\ ledger'[i].steps = ledger[i].steps + 1
    BY DEF StaysWhole, KeepsHistory
  <1>1. CASE ledger'[i] = ledger[i]
    BY <1>1 DEF Saved
  <1>2. CASE ledger'[i] # ledger[i]
    <2>1. PICK s \in Curators : CreateLesson(s) \/ WriteLesson(s) \/ Save(s)
      BY <1>2, StepsOnFiles
    <2>2. /\ task[s] \in Tasks /\ ReadyToSave(task[s]) /\ LessonsTypeOK
          /\ ledger \in [LessonIds -> LessonRecords \cup {NoLesson, Torn}]
      BY DEF LessonsInv, StoreOK
    <2>3. CASE CreateLesson(s)
      BY <1>2, <2>2, <2>3 DEF CreateLesson, Saved
    <2>4. CASE WriteLesson(s)
      <3>1. ledger[task[s].id] = Torn
        BY <2>4 DEF LessonsInv, FilesOK, WriteLesson
      <3> QED BY <1>2, <2>2, <2>4, <3>1 DEF WriteLesson, Saved
    <2>5. CASE Save(s)
      <3>1. /\ task[s].op \in {"prove", "promote", "retire"} /\ task[s].at = "save"
            /\ ledger' = [ledger EXCEPT ![task[s].id] = Outcome(task[s])]
            /\ ~overlapped' => ledger[task[s].id] = task[s].loaded
        BY <2>5 DEF Save
      <3>2. task[s].id = i /\ ledger'[i] = Outcome(task[s])
        BY <1>2, <2>2, <3>1
      <3>3. /\ Outcome(task[s]) \in LessonRecords
            /\ Outcome(task[s]).steps = task[s].loaded.steps + 1
            /\ task[s].loaded.status = "retired" => Outcome(task[s]).status = "retired"
        BY <2>2, <3>1, OutcomeIs
      <3>4. Saved(i)'
        BY <3>2, <3>3 DEF Saved, LessonsConstants
      <3> QED BY <3>1, <3>2, <3>3, <3>4
    <2> QED BY <2>1, <2>3, <2>4, <2>5
  <1> QED BY <1>1, <1>2

LEMMA LessonsInvariance ==
    ASSUME LessonsConstants
    PROVE  LessonsSpec => []LessonsInv
  BY InitLessonsInv, NextLessonsInv, PTL DEF LessonsSpec

LEMMA LessonsInvSays ==
    ASSUME LessonsInv
    PROVE  LessonsTypeOK /\ ProofStandsBehind /\ RecurringIsReal
  BY DEF LessonsInv, Stands, ProofStandsBehind

\* What counts as proven or promoted has its proof behind it, and what a review calls recurring
\* did recur (cmdProve, cmdPromote, cmdReview).
THEOREM LessonsAreProven ==
    ASSUME LessonsConstants
    PROVE  LessonsSpec => [](LessonsTypeOK /\ ProofStandsBehind /\ RecurringIsReal)
  BY LessonsInvariance, LessonsInvSays, PTL

\* A lesson is never torn or lost, and without overlapping commands a retired one stays retired
\* and every change adds one step to its history (save, cmdRetire).
THEOREM LessonsStayWhole ==
    ASSUME LessonsConstants
    PROVE  LessonsSpec => [][StaysWhole /\ KeepsHistory]_lessonVars
  <1>1. LessonsInv /\ [LessonsNext]_lessonVars => StaysWhole /\ KeepsHistory
    BY StepKeepsHistory
  <1> QED BY <1>1, LessonsInvariance, PTL DEF LessonsSpec

-----------------------------------------------------------------------------
(* ReleasePipeline: what was attested, and what is installed *)

Hash == Commits \cup {NoCommit}
JobRecord == [at : {"queued", "verified", "smoked", "passed", "failed"}, head : Hash]
PublishRecord ==
    [at : {"waiting", "resolved", "found", "ready", "published", "failed"}, head : Hash]
Pipeline ==
    [tag : ReleaseTags, event : {"push", "dispatch"}, expected : Hash, sha : Hash,
     jobs : [Profiles -> JobRecord], publish : PublishRecord]

Attested(c) == c \in SignedCommits /\ \E a \in artifacts : a.sha = c /\ a.tag = TagFor[c]

TypesOK ==
    /\ tags \in [ReleaseTags -> [commit : Hash, signed : BOOLEAN]]
    /\ branch \in Hash
    /\ reruns \in 0..MaxReruns
    /\ \E n \in Nat : pipelines \in [1..n -> Pipeline]

\* A job that is past its verification works on a signed commit; one that has passed has told
\* the run its commit, or another job has told it another.
JobsOK ==
    \A r \in DOMAIN pipelines, p \in Profiles :
      /\ Job(r, p).at \in {"verified", "smoked", "passed"} =>
           Job(r, p).head \in Commits \cap SignedCommits
      /\ Job(r, p).at = "passed" => pipelines[r].sha # NoCommit

\* What a run's publish job is told, and what it goes on with, has an attestation.
RunsOK ==
    \A r \in DOMAIN pipelines :
      /\ pipelines[r].sha # NoCommit =>
           /\ Attested(pipelines[r].sha)
           /\ \E p \in Profiles : Job(r, p).at = "passed" /\ Job(r, p).head = pipelines[r].sha
      /\ pipelines[r].publish.at \in {"resolved", "found", "ready", "published"} =>
           pipelines[r].publish.head # NoCommit /\ Attested(pipelines[r].publish.head)

ReleaseInv == TypesOK /\ JobsOK /\ RunsOK /\ InstallsAreAttested

-----------------------------------------------------------------------------

LEMMA InitReleaseInv ==
    ASSUME ReleaseConstants, ReleaseInit
    PROVE  ReleaseInv
  <1>1. pipelines = << >> /\ << >> \in [1..0 -> Pipeline] /\ DOMAIN << >> = {}
    BY DEF ReleaseInit
  <1>2. TypesOK
    BY <1>1 DEF ReleaseConstants, ReleaseInit, TypesOK, Hash
  <1> QED BY <1>1, <1>2 DEF ReleaseInit, ReleaseInv, JobsOK, RunsOK, InstallsAreAttested

\* A new run has told nothing yet.
LEMMA NewRun ==
    ASSUME ReleaseConstants, ReleaseInv, NEW t \in ReleaseTags, NEW event \in {"push", "dispatch"},
           NEW expected \in Hash, StartPipeline(t, event, expected),
           UNCHANGED <<branch, artifacts, reruns>>,
           tags' \in [ReleaseTags -> [commit : Hash, signed : BOOLEAN]]
    PROVE  ReleaseInv'
  <1>1. PICK n \in Nat : pipelines \in [1..n -> Pipeline]
    BY DEF ReleaseInv, TypesOK
  <1>2. DOMAIN pipelines = 1..n /\ Cardinality(DOMAIN pipelines) = n
    BY <1>1, FS_Interval
  <1> DEFINE new == NewPipeline(t, event, expected)
  <1>3. pipelines' = [i \in 1..n + 1 |-> IF i \in 1..n THEN pipelines[i] ELSE new]
    BY <1>2 DEF StartPipeline
  <1>4. new \in Pipeline
    BY DEF NewPipeline, Pipeline, IdleJob, IdlePublish, JobRecord, PublishRecord, Hash
  <1>5. TypesOK'
    BY <1>1, <1>3, <1>4 DEF ReleaseInv, TypesOK
  <1>6. ASSUME NEW r \in DOMAIN pipelines'
        PROVE  \/ r \in DOMAIN pipelines /\ pipelines'[r] = pipelines[r]
               \/ pipelines'[r] = new
    BY <1>2, <1>3, <1>6
  <1>7. JobsOK'
    BY <1>6 DEF ReleaseInv, JobsOK, Job, NewPipeline, IdleJob
  <1>8. RunsOK'
    BY <1>6 DEF ReleaseInv, RunsOK, Attested, Job, NewPipeline, IdlePublish
  <1> QED BY <1>5, <1>7, <1>8 DEF ReleaseInv, InstallsAreAttested

\* A step of job p of run r leaves the publish jobs alone.
LEMMA JobStep ==
    ASSUME ReleaseConstants, ReleaseInv, NEW r \in DOMAIN pipelines, NEW p \in Profiles,
           Verify(r, p) \/ SmokeClaude(r, p) \/ Attest(r, p) \/ FailJob(r, p)
    PROVE  ReleaseInv'
  <1>1. PICK n \in Nat : pipelines \in [1..n -> Pipeline]
    BY DEF ReleaseInv, TypesOK
  <1>2. pipelines[r] \in Pipeline /\ Job(r, p) \in JobRecord
    BY <1>1 DEF Pipeline, Job
  <1>3. CASE Verify(r, p) \/ SmokeClaude(r, p) \/ FailJob(r, p)
    <2>1. PICK job \in JobRecord :
            /\ SetJob(r, p, job) /\ Job(r, p).at # "passed" /\ job.at # "passed"
            /\ job.at \in {"verified", "smoked"} => job.head \in Commits \cap SignedCommits
      <3>1. CASE Verify(r, p)
        <4> DEFINE tag == tags[pipelines[r].tag]
                   job == [Job(r, p) EXCEPT !.at = "verified", !.head = tag.commit]
        <4>1. tag.commit \in Hash /\ tag.commit # NoCommit /\ tag.commit \in SignedCommits
          BY <3>1, <1>2 DEF Verify, Verified, Pipeline, ReleaseInv, TypesOK
        <4>2. job \in JobRecord /\ job.at = "verified" /\ job.head \in Commits \cap SignedCommits
          BY <4>1, <1>2 DEF JobRecord, Hash
        <4>3. SetJob(r, p, job) /\ Job(r, p).at = "queued"
          BY <3>1 DEF Verify
        <4> QED BY <4>2, <4>3
      <3>2. CASE SmokeClaude(r, p)
        <4> DEFINE job == [Job(r, p) EXCEPT !.at = "smoked"]
        <4>1. SetJob(r, p, job) /\ Job(r, p).at = "verified"
          BY <3>2 DEF SmokeClaude
        <4>2. job \in JobRecord /\ job.at = "smoked" /\ job.head \in Commits \cap SignedCommits
          BY <4>1, <1>2 DEF JobRecord, ReleaseInv, JobsOK
        <4> QED BY <4>1, <4>2
      <3>3. CASE FailJob(r, p)
        BY <3>3, <1>2 DEF FailJob, JobRecord, IdleJob, Hash
      <3> QED BY <1>3, <3>1, <3>2, <3>3
    <2>2. UNCHANGED <<tags, branch, artifacts, reruns>>
      BY <1>3 DEF Verify, SmokeClaude, FailJob
    <2>3. /\ pipelines' \in [1..n -> Pipeline]
          /\ \A s \in 1..n : /\ pipelines'[s].sha = pipelines[s].sha
                             /\ pipelines'[s].publish = pipelines[s].publish
                             /\ \A q \in Profiles :
                                  pipelines'[s].jobs[q] = IF s = r /\ q = p THEN job ELSE pipelines[s].jobs[q]
      BY <1>1, <2>1 DEF SetJob, Pipeline
    <2>4. TypesOK'
      BY <2>2, <2>3 DEF ReleaseInv, TypesOK
    <2>5. JobsOK'
      BY <1>1, <2>1, <2>3 DEF ReleaseInv, JobsOK, Job
    <2>6. RunsOK'
      BY <1>1, <2>1, <2>2, <2>3 DEF ReleaseInv, RunsOK, Attested, Job
    <2> QED BY <2>2, <2>4, <2>5, <2>6 DEF ReleaseInv, InstallsAreAttested
  <1>4. CASE Attest(r, p)
    <2>a. PICK head, tag : head = Job(r, p).head /\ tag = pipelines[r].tag
      OBVIOUS
    <2> DEFINE a == [sha |-> head, profile |-> p, tag |-> tag]
    <2>1. /\ head \in Commits \cap SignedCommits /\ TagFor[head] = tag
          /\ artifacts' = artifacts \cup {a}
          /\ UNCHANGED <<tags, branch, reruns>>
      BY <1>4, <2>a DEF Attest, ReleaseInv, JobsOK
    <2>2. /\ pipelines' \in [1..n -> Pipeline]
          /\ \A s \in 1..n :
               /\ pipelines'[s].sha = IF s = r THEN head ELSE pipelines[s].sha
               /\ pipelines'[s].publish = pipelines[s].publish
               /\ \A q \in Profiles :
                    pipelines'[s].jobs[q] = IF s = r /\ q = p THEN [at |-> "passed", head |-> head]
                                            ELSE pipelines[s].jobs[q]
      <3>1. [at |-> "passed", head |-> head] \in JobRecord /\ head \in Hash
        BY <2>1 DEF JobRecord, Hash
      <3>2. pipelines[r].jobs \in [Profiles -> JobRecord] /\ pipelines[r].jobs[p] \in JobRecord
        BY <1>2 DEF Pipeline
      <3>3. [pipelines[r].jobs EXCEPT ![p].at = "passed"] =
              [pipelines[r].jobs EXCEPT ![p] = [at |-> "passed", head |-> head]]
        <4>1. \A job \in JobRecord :
                [job EXCEPT !.at = "passed"] = [at |-> "passed", head |-> job.head]
          BY DEF JobRecord
        <4> QED BY <3>2, <4>1, <2>a DEF Job
      <3> DEFINE run == [pipelines[r] EXCEPT !.sha = head,
                           !.jobs = [@ EXCEPT ![p] = [at |-> "passed", head |-> head]]]
      <3>4. run \in Pipeline /\ run.sha = head /\ run.publish = pipelines[r].publish
            /\ run.jobs = [pipelines[r].jobs EXCEPT ![p] = [at |-> "passed", head |-> head]]
        BY <3>1, <3>2, <1>2 DEF Pipeline
      <3>5. pipelines' = [pipelines EXCEPT ![r] = run]
        BY <3>3, <1>1, <1>2, <1>4, <2>a DEF Attest, Pipeline
      <3> QED BY <1>1, <3>2, <3>4, <3>5
    <2>3. Attested(head)' /\ \A c : Attested(c) => Attested(c)'
      <3>1. a \in artifacts' /\ a.sha = head /\ a.tag = TagFor[head]
        BY <2>1
      <3>2. \E b \in artifacts' : b.sha = head /\ b.tag = TagFor[head]
        BY <3>1
      <3> QED BY <2>1, <3>2 DEF Attested
    <2>4. TypesOK'
      BY <2>1, <2>2 DEF ReleaseInv, TypesOK
    <2>5. JobsOK'
      BY <1>1, <2>1, <2>2 DEF ReleaseInv, JobsOK, Job, ReleaseConstants
    <2>6. RunsOK'
      BY <1>1, <2>1, <2>2, <2>3 DEF ReleaseInv, RunsOK, Job
    <2>7. InstallsAreAttested'
      BY <2>1, <2>3 DEF ReleaseInv, InstallsAreAttested, Attested
    <2> QED BY <2>4, <2>5, <2>6, <2>7 DEF ReleaseInv
  <1> QED BY <1>3, <1>4

\* Publishing goes on with the commit the run was told, which is attested.
LEMMA PublishStep ==
    ASSUME ReleaseConstants, ReleaseInv, NEW r \in DOMAIN pipelines,
           Resolve(r) \/ LookRemote(r) \/ FetchRemote(r) \/ Push(r)
    PROVE  ReleaseInv'
  <1>1. PICK n \in Nat : pipelines \in [1..n -> Pipeline]
    BY DEF ReleaseInv, TypesOK
  <1>2. pipelines[r] \in Pipeline /\ pipelines[r].publish \in PublishRecord
    BY <1>1 DEF Pipeline
  <1>3. UNCHANGED <<tags, artifacts, reruns>>
    BY DEF Resolve, LookRemote, FetchRemote, Push
  <1>4. PICK publish \in PublishRecord :
          /\ pipelines' = [pipelines EXCEPT ![r].publish = publish]
          /\ publish.at \in {"resolved", "found", "ready", "published"} =>
               publish.head # NoCommit /\ Attested(publish.head)
    <2>1. ASSUME NEW at \in {"found", "ready", "published", "failed"}, Becomes(r, at),
                 at = "failed" \/ pipelines[r].publish.at \in {"resolved", "found", "ready"}
          PROVE  \E publish \in PublishRecord :
                   /\ pipelines' = [pipelines EXCEPT ![r].publish = publish]
                   /\ publish.at \in {"resolved", "found", "ready", "published"} =>
                        publish.head # NoCommit /\ Attested(publish.head)
      <3> DEFINE publish == [pipelines[r].publish EXCEPT !.at = at]
      <3>1. publish \in PublishRecord /\ publish.at = at /\ publish.head = pipelines[r].publish.head
        BY <1>2 DEF PublishRecord
      <3>2. pipelines' = [pipelines EXCEPT ![r].publish = publish]
        BY <1>1, <1>2, <2>1 DEF Becomes, Pipeline
      <3>3. at # "failed" => publish.head # NoCommit /\ Attested(publish.head)
        BY <2>1, <3>1 DEF ReleaseInv, RunsOK
      <3> QED BY <3>1, <3>2, <3>3
    <2>2. CASE Resolve(r)
      <3> DEFINE head == tags[pipelines[r].tag].commit
                 publish == [at |-> "resolved", head |-> head]
      <3>1. CASE head = pipelines[r].sha
        <4>1. \E p \in Profiles : Job(r, p).at = "passed"
          BY <2>2 DEF Resolve, Publishing, ReleaseConstants
        <4>2. head # NoCommit /\ Attested(head)
          BY <3>1, <4>1 DEF ReleaseInv, JobsOK, RunsOK
        <4>3. publish \in PublishRecord
          BY <1>2, <3>1 DEF PublishRecord, Pipeline
        <4>4. pipelines' = [pipelines EXCEPT ![r].publish = publish]
          BY <2>2, <3>1 DEF Resolve
        <4> QED BY <4>2, <4>3, <4>4
      <3>2. CASE head # pipelines[r].sha
        BY <2>1, <2>2, <3>2 DEF Resolve
      <3> QED BY <3>1, <3>2
    <2>3. CASE LookRemote(r)
      BY <2>1, <2>3 DEF LookRemote
    <2>4. CASE FetchRemote(r)
      BY <2>1, <2>4 DEF FetchRemote
    <2>5. CASE Push(r)
      BY <2>1, <2>5 DEF Push
    <2> QED BY <2>2, <2>3, <2>4, <2>5
  <1>5. /\ pipelines' \in [1..n -> Pipeline]
        /\ \A s \in 1..n :
             /\ pipelines'[s].sha = pipelines[s].sha
             /\ pipelines'[s].jobs = pipelines[s].jobs
             /\ pipelines'[s].publish = IF s = r THEN publish ELSE pipelines[s].publish
    BY <1>1, <1>4 DEF Pipeline
  <1>6. branch' \in Hash /\ InstallsAreAttested'
    <2>1. CASE branch' = branch
      BY <1>3, <2>1 DEF ReleaseInv, TypesOK, InstallsAreAttested
    <2>2. CASE branch' # branch
      <3>1. branch' = pipelines[r].publish.head /\ pipelines[r].publish.at = "ready"
        BY <2>2 DEF Resolve, LookRemote, FetchRemote, Push
      <3>2. Attested(pipelines[r].publish.head) /\ pipelines[r].publish.head \in Hash
        BY <1>2, <3>1 DEF ReleaseInv, RunsOK, PublishRecord
      <3> QED BY <1>3, <3>1, <3>2 DEF Attested, InstallsAreAttested
    <2> QED BY <2>1, <2>2
  <1>7. TypesOK'
    BY <1>3, <1>5, <1>6 DEF ReleaseInv, TypesOK
  <1>8. JobsOK'
    BY <1>1, <1>5 DEF ReleaseInv, JobsOK, Job
  <1>9. RunsOK'
    BY <1>1, <1>3, <1>4, <1>5 DEF ReleaseInv, RunsOK, Job, Attested
  <1> QED BY <1>6, <1>7, <1>8, <1>9 DEF ReleaseInv

\* What has passed stays; a publish job that failed starts over.
LEMMA RerunStep ==
    ASSUME ReleaseConstants, ReleaseInv, NEW r \in DOMAIN pipelines, Rerun(r)
    PROVE  ReleaseInv'
  <1>1. PICK n \in Nat : pipelines \in [1..n -> Pipeline]
    BY DEF ReleaseInv, TypesOK
  <1> DEFINE run == pipelines[r]
             jobs == [p \in Profiles |-> IF run.jobs[p].at = "failed" THEN IdleJob ELSE run.jobs[p]]
             publish == IF run.publish.at = "failed" THEN IdlePublish ELSE run.publish
  <1>2. run \in Pipeline
    BY <1>1
  <1>3. jobs \in [Profiles -> JobRecord] /\ publish \in PublishRecord
    BY <1>2 DEF Pipeline, JobRecord, PublishRecord, IdleJob, IdlePublish, Hash
  <1>4. pipelines' = [pipelines EXCEPT ![r] = [run EXCEPT !.jobs = jobs, !.publish = publish]]
    BY <1>1, <1>2 DEF Rerun, Pipeline
  <1>5. [run EXCEPT !.jobs = jobs, !.publish = publish] \in Pipeline
    BY <1>2, <1>3 DEF Pipeline
  <1>6. /\ pipelines' \in [1..n -> Pipeline]
        /\ \A s \in 1..n :
             /\ pipelines'[s].sha = pipelines[s].sha
             /\ pipelines'[s].jobs = IF s = r THEN jobs ELSE pipelines[s].jobs
             /\ pipelines'[s].publish = IF s = r THEN publish ELSE pipelines[s].publish
    BY <1>1, <1>2, <1>4, <1>5 DEF Pipeline
  <1>7. /\ UNCHANGED <<tags, branch, artifacts>> /\ reruns' = reruns + 1 /\ reruns < MaxReruns
    BY DEF Rerun
  <1>8. TypesOK'
    <2>1. reruns \in 0..MaxReruns /\ MaxReruns \in Nat
      BY DEF ReleaseInv, TypesOK, ReleaseConstants
    <2>2. reruns' \in 0..MaxReruns
      BY <1>7, <2>1
    <2>3. \E m \in Nat : pipelines' \in [1..m -> Pipeline]
      BY <1>6
    <2> QED BY <1>7, <2>2, <2>3 DEF ReleaseInv, TypesOK
  <1>9. /\ \A p \in Profiles : jobs[p] = run.jobs[p] \/ jobs[p].at = "queued"
        /\ \A p \in Profiles : run.jobs[p].at # "failed" => jobs[p] = run.jobs[p]
        /\ publish = run.publish \/ publish.at = "waiting"
    <2>1. \A p \in Profiles :
            jobs[p] = IF run.jobs[p].at = "failed" THEN IdleJob ELSE run.jobs[p]
      OBVIOUS
    <2>2. IdleJob.at = "queued" /\ IdlePublish.at = "waiting"
      BY DEF IdleJob, IdlePublish
    <2> QED BY <2>1, <2>2
  <1> HIDE DEF jobs, publish
  <1>10. JobsOK'
    BY <1>1, <1>6, <1>9 DEF ReleaseInv, JobsOK, Job
  <1>11. RunsOK'
    <2> SUFFICES ASSUME NEW s \in 1..n
                 PROVE  /\ pipelines'[s].sha # NoCommit =>
                             /\ Attested(pipelines[s].sha)
                             /\ \E p \in Profiles : /\ pipelines'[s].jobs[p].at = "passed"
                                                   /\ pipelines'[s].jobs[p].head = pipelines[s].sha
                        /\ pipelines'[s].publish.at \in {"resolved", "found", "ready", "published"} =>
                             /\ pipelines'[s].publish = pipelines[s].publish
                             /\ pipelines[s].publish.head # NoCommit
                             /\ Attested(pipelines[s].publish.head)
      BY <1>6, <1>7 DEF RunsOK, Job, Attested
    <2>1. \A p \in Profiles : pipelines[s].jobs[p].at = "passed" =>
                              pipelines'[s].jobs[p] = pipelines[s].jobs[p]
      BY <1>6, <1>9
    <2>2. \/ pipelines'[s].publish = pipelines[s].publish
          \/ pipelines'[s].publish.at = "waiting"
      BY <1>6, <1>9
    <2>3. pipelines'[s].sha = pipelines[s].sha /\ s \in DOMAIN pipelines
      BY <1>1, <1>6
    <2> QED BY <2>1, <2>2, <2>3 DEF ReleaseInv, RunsOK, Job
  <1> QED BY <1>7, <1>8, <1>10, <1>11 DEF ReleaseInv, InstallsAreAttested, Attested

LEMMA NextReleaseInv ==
    ASSUME ReleaseConstants, ReleaseInv, [ReleaseNext]_releaseVars
    PROVE  ReleaseInv'
  <1>1. CASE PushTag
    <2>1. PICK t \in ReleaseTags, c \in Commits, signed \in BOOLEAN :
            /\ tags' = [tags EXCEPT ![t] = [commit |-> c, signed |-> signed]]
            /\ StartPipeline(t, "push", NoCommit)
      BY <1>1 DEF PushTag
    <2>2. tags' \in [ReleaseTags -> [commit : Hash, signed : BOOLEAN]]
      BY <2>1 DEF ReleaseInv, TypesOK, Hash
    <2> QED BY <1>1, <2>1, <2>2, NewRun DEF PushTag, Hash
  <1>2. CASE Dispatch
    <2>1. PICK t \in ReleaseTags, expected \in Hash : StartPipeline(t, "dispatch", expected)
      BY <1>2 DEF Dispatch, Hash
    <2>2. UNCHANGED <<tags, branch, artifacts, reruns>>
      BY <1>2 DEF Dispatch
    <2>3. tags' \in [ReleaseTags -> [commit : Hash, signed : BOOLEAN]]
      BY <2>2 DEF ReleaseInv, TypesOK
    <2> QED BY <2>1, <2>2, <2>3, NewRun
  <1>3. ASSUME NEW r \in DOMAIN pipelines, NEW p \in Profiles,
               Verify(r, p) \/ SmokeClaude(r, p) \/ Attest(r, p) \/ FailJob(r, p)
        PROVE  ReleaseInv'
    BY <1>3, JobStep
  <1>4. ASSUME NEW r \in DOMAIN pipelines, Resolve(r) \/ LookRemote(r) \/ FetchRemote(r) \/ Push(r)
        PROVE  ReleaseInv'
    BY <1>4, PublishStep
  <1>5. ASSUME NEW r \in DOMAIN pipelines, Rerun(r)
        PROVE  ReleaseInv'
    BY <1>5, RerunStep
  <1>6. CASE UNCHANGED releaseVars
    BY <1>6 DEF releaseVars, ReleaseInv, TypesOK, JobsOK, RunsOK, InstallsAreAttested, Attested, Job
  <1> QED BY <1>1, <1>2, <1>3, <1>4, <1>5, <1>6 DEF ReleaseNext

-----------------------------------------------------------------------------

\* Every reachable state satisfies the inductive invariant.
LEMMA ReleaseInvariance ==
    ASSUME ReleaseConstants
    PROVE  ReleaseSpec => []ReleaseInv
  BY InitReleaseInv, NextReleaseInv, PTL DEF ReleaseSpec

LEMMA ReleaseInvSays ==
    ASSUME ReleaseInv
    PROVE  ReleaseTypeOK /\ InstallsAreAttested
  <1>1. PICK n \in Nat : pipelines \in [1..n -> Pipeline]
    BY DEF ReleaseInv, TypesOK
  <1>2. \A r \in DOMAIN pipelines : pipelines[r] \in Pipeline
    BY <1>1
  <1>3. \A r \in DOMAIN pipelines :
          /\ \A p \in Profiles : Job(r, p) \in JobRecord
          /\ pipelines[r].publish \in PublishRecord
    BY <1>2 DEF Job, Pipeline
  <1> QED BY <1>3 DEF ReleaseInv, TypesOK, RunsOK, ReleaseTypeOK, JobRecord, PublishRecord, Hash

LEMMA ForwardSays ==
    ASSUME ReleaseInv, [ReleaseNext]_releaseVars
    PROVE  Forward
  <1> SUFFICES ASSUME branch' # branch
               PROVE  branch' # NoCommit /\ branch \in Ancestors[branch'] \cup {NoCommit}
    BY DEF Forward
  <1>2. ~PushTag /\ ~Dispatch /\ ~UNCHANGED releaseVars
    BY DEF PushTag, Dispatch, releaseVars
  <1>3. \A r \in DOMAIN pipelines, p \in Profiles :
          ~Verify(r, p) /\ ~SmokeClaude(r, p) /\ ~Attest(r, p) /\ ~FailJob(r, p)
    BY DEF Verify, SmokeClaude, Attest, FailJob
  <1>4. \A r \in DOMAIN pipelines :
          ~Resolve(r) /\ ~LookRemote(r) /\ ~FetchRemote(r) /\ ~Rerun(r)
    BY DEF Resolve, LookRemote, FetchRemote, Rerun
  <1>1. PICK r \in DOMAIN pipelines : Push(r)
    BY <1>2, <1>3, <1>4 DEF ReleaseNext
  <1> QED BY <1>1 DEF Push, ReleaseInv, RunsOK

\* Runs, jobs and the published branch are well-formed, and the commit a run tells its
\* publish job is one that a job of that run passed (release.yml's output of the matrix).
THEOREM ReleaseTypeCorrect ==
    ASSUME ReleaseConstants
    PROVE  ReleaseSpec => []ReleaseTypeOK
  BY ReleaseInvariance, ReleaseInvSays, PTL

\* Whatever tags are moved, whichever runs race and are run again: what the release branch
\* holds is a signed commit with an attestation under its own version (fastForwardRelease).
THEOREM InstallsAlwaysAttested ==
    ASSUME ReleaseConstants
    PROVE  ReleaseSpec => []InstallsAreAttested
  BY ReleaseInvariance, PTL DEF ReleaseInv

\* The release branch is never taken back, and it moves only to a commit that has what it
\* held before among its ancestors.
THEOREM BranchOnlyForward ==
    ASSUME ReleaseConstants
    PROVE  ReleaseSpec => [][Forward]_releaseVars
  <1>1. ReleaseInv /\ [ReleaseNext]_releaseVars => Forward
    BY ForwardSays
  <1> QED BY <1>1, ReleaseInvariance, PTL DEF ReleaseSpec

-----------------------------------------------------------------------------
(* BarGuard: what was read of a tree that nobody touched *)

FileChanges ==
    [path : BarFiles, before : BarContents \cup {NoFile}, after : BarContents \cup {NoFile},
     now : BarContents \cup {NoFile}]

\* What git diff shows of the work tree, the same read again, and what the index does not list.
Listed == [f \in BarFiles |-> IF staged[f] = NoFile THEN NoFile ELSE working[f]]
WorkView ==
    {[path |-> f, before |-> mergeBase[f], after |-> Listed[f], now |-> working[f]] :
       f \in {g \in BarFiles : mergeBase[g] # Listed[g]}}
NewFiles == {f \in BarFiles : staged[f] = NoFile /\ working[f] # NoFile}
NewView ==
    {[path |-> f, before |-> NoFile, after |-> working[f], now |-> NoFile] : f \in NewFiles}

BarStagesOK ==
    /\ bar \in {"idle", "work", "read work", "index", "read index", "untracked",
                "read untracked", "inspect", "done"}
    /\ views \in [work : SUBSET FileChanges, index : SUBSET FileChanges]
    /\ moved \in BOOLEAN

\* While nothing moves, each view is that of the trees as they are.
ViewsOK ==
    ~moved =>
      /\ bar = "read work" => views.work = Differing(Listed)
      /\ bar \in {"index", "read index", "untracked", "read untracked"} => views.work = WorkView
      /\ bar = "read untracked" => names = NewFiles
      /\ bar = "inspect" \/ exit \in {"clean", "findings"} => views.work = WorkView \cup NewView
      /\ bar \in {"read index", "untracked", "read untracked", "inspect"}
           \/ exit \in {"clean", "findings"} => views.index = Differing(staged)

\* The exit status is that of the views that were read.
ExitOK ==
    /\ exit = "clean" => Passes(views.work) /\ Passes(views.index)
    /\ exit = "findings" => Fails(views.work) \/ Fails(views.index)

BarInv == BarTypeOK /\ BarStagesOK /\ ViewsOK /\ ExitOK

LEMMA DifferingTyped ==
    ASSUME mergeBase \in BarTrees, NEW tree \in BarTrees
    PROVE  /\ Differing(tree) \in SUBSET FileChanges
           /\ \A c \in Differing(tree) : c.before # NoFile \/ c.after # NoFile
  BY DEF BarTrees, Differing, Change, FileChanges

LEMMA RereadTyped ==
    ASSUME NEW view \in SUBSET FileChanges, NEW tree \in BarTrees
    PROVE  LET again == {[f EXCEPT !.now = tree[f.path]] : f \in view} IN
           /\ again \in SUBSET FileChanges
           /\ (\A c \in view : c.before # NoFile \/ c.after # NoFile)
                => \A c \in again : c.before # NoFile \/ c.after # NoFile
  BY DEF BarTrees, FileChanges

LEMMA RereadIs ==
    ASSUME mergeBase \in BarTrees, NEW tree \in BarTrees, NEW now \in BarTrees
    PROVE  {[f EXCEPT !.now = now[f.path]] : f \in Differing(tree)}
             = {[path |-> f, before |-> mergeBase[f], after |-> tree[f], now |-> now[f]] :
                  f \in {g \in BarFiles : mergeBase[g] # tree[g]}}
  <1> DEFINE again(c) == [c EXCEPT !.now = now[c.path]]
             is(f) == [path |-> f, before |-> mergeBase[f], after |-> tree[f], now |-> now[f]]
             moving == {g \in BarFiles : mergeBase[g] # tree[g]}
  <1>1. \A f \in moving : again(Change(f, tree)) = is(f)
    BY DEF Change
  <1> HIDE DEF again, is
  <1>2. {again(c) : c \in {Change(f, tree) : f \in moving}} = {is(f) : f \in moving}
    BY <1>1
  <1> QED BY <1>2 DEF again, is, Differing

LEMMA ListedIsTree ==
    ASSUME staged \in BarTrees, working \in BarTrees
    PROVE  Listed \in BarTrees
  BY DEF Listed, BarTrees

LEMMA NewViewTyped ==
    ASSUME BarTypeOK, NEW created \in SUBSET BarFiles, \A f \in created : working[f] # NoFile
    PROVE  LET gained == {[path |-> f, before |-> NoFile, after |-> working[f], now |-> NoFile] :
                           f \in created} IN
           /\ gained \in SUBSET FileChanges
           /\ \A c \in gained : c.before # NoFile \/ c.after # NoFile
  BY DEF BarTypeOK, BarTrees, FileChanges

LEMMA InitBarInv ==
    ASSUME BarConstants, BarInit
    PROVE  BarInv
  <1>1. BarTypeOK
    BY DEF BarConstants, BarInit, BarTypeOK
  <1>2. BarStagesOK
    BY DEF BarInit, BarStagesOK
  <1>3. ViewsOK /\ ExitOK
    BY DEF BarInit, ViewsOK, ExitOK
  <1> QED BY <1>1, <1>2, <1>3 DEF BarInv

LEMMA ReadInv ==
    ASSUME BarConstants, BarInv, Tool, ~Inspect, ~StartBar
    PROVE  BarInv'
  <1>0. UNCHANGED <<mergeBase, staged, working, touches>>
    BY DEF Tool
  <1>1. BarTypeOK /\ BarStagesOK /\ mergeBase \in BarTrees /\ staged \in BarTrees
        /\ working \in BarTrees /\ Listed \in BarTrees
    BY ListedIsTree DEF BarInv, BarTypeOK
  <1>2. UNCHANGED <<Listed, WorkView, NewFiles, NewView, Differing(Listed), Differing(staged)>>
    BY <1>0 DEF Listed, WorkView, NewFiles, NewView, Differing, Change
  <1>3. CASE DiffWork
    <2>1. exit = "none"
      BY <1>1, <1>3 DEF DiffWork, BarTypeOK
    <2>2. /\ bar' = "read work" /\ UNCHANGED <<names, moved, exit>>
          /\ views' = [views EXCEPT !.work = Differing(Listed)]
      BY <1>3 DEF DiffWork, Go, Listed
    <2>3. views' \in [work : SUBSET FileChanges, index : SUBSET FileChanges]
          /\ views'.work = Differing(Listed) /\ views'.index = views.index
      BY <1>1, <2>2, DifferingTyped DEF BarStagesOK
    <2>4. \A c \in views'.work \cup views'.index : c.before # NoFile \/ c.after # NoFile
      BY <1>1, <2>3, DifferingTyped DEF BarTypeOK
    <2>5. BarTypeOK'
      BY <1>0, <1>1, <2>1, <2>2, <2>4 DEF BarTypeOK
    <2>6. BarStagesOK'
      BY <1>1, <2>2, <2>3 DEF BarStagesOK
    <2>7. ViewsOK'
      BY <1>2, <2>1, <2>2, <2>3 DEF ViewsOK
    <2>8. ExitOK'
      BY <2>1, <2>2 DEF ExitOK
    <2> QED BY <2>5, <2>6, <2>7, <2>8 DEF BarInv
  <1>4. CASE DiffIndex
    <2>1. exit = "none"
      BY <1>1, <1>4 DEF DiffIndex, BarTypeOK
    <2>2. /\ bar = "index" /\ bar' = "read index" /\ UNCHANGED <<names, moved, exit>>
          /\ views' = [views EXCEPT !.index = Differing(staged)]
      BY <1>4 DEF DiffIndex, Go
    <2>3. views' \in [work : SUBSET FileChanges, index : SUBSET FileChanges]
          /\ views'.index = Differing(staged) /\ views'.work = views.work
      BY <1>1, <2>2, DifferingTyped DEF BarStagesOK
    <2>4. \A c \in views'.work \cup views'.index : c.before # NoFile \/ c.after # NoFile
      BY <1>1, <2>3, DifferingTyped DEF BarTypeOK
    <2>5. BarTypeOK'
      BY <1>0, <1>1, <2>1, <2>2, <2>4 DEF BarTypeOK
    <2>6. BarStagesOK'
      BY <1>1, <2>2, <2>3 DEF BarStagesOK
    <2>7. ViewsOK'
      BY <1>2, <2>1, <2>2, <2>3 DEF ViewsOK, BarInv
    <2>8. ExitOK'
      BY <2>1, <2>2 DEF ExitOK
    <2> QED BY <2>5, <2>6, <2>7, <2>8 DEF BarInv
  <1>5. CASE ReadWork
    <2>1. bar = "read work" /\ exit = "none"
      BY <1>1, <1>5 DEF ReadWork, BarTypeOK
    <2>2. CASE Trouble
      BY <1>0, <1>1, <1>5, <2>1, <2>2
      DEF ReadWork, Trouble, Go, BarInv, BarTypeOK, BarStagesOK, ViewsOK, ExitOK
    <2>3. CASE ~Trouble
      <3> DEFINE again == {[f EXCEPT !.now = working[f.path]] : f \in views.work}
      <3>1. bar' = "index" /\ UNCHANGED <<names, moved, exit>>
            /\ views' = [views EXCEPT !.work = again]
        BY <1>5, <2>3 DEF ReadWork, Go
      <3>2. again \in SUBSET FileChanges /\ \A c \in again : c.before # NoFile \/ c.after # NoFile
        BY <1>1, RereadTyped DEF BarTypeOK, BarStagesOK
      <3>3. ~moved => again = WorkView
        BY <1>1, <2>1, RereadIs DEF WorkView, BarInv, ViewsOK
      <3> HIDE DEF again
      <3>4. views' \in [work : SUBSET FileChanges, index : SUBSET FileChanges]
            /\ views'.work = again /\ views'.index = views.index
        BY <1>1, <3>1, <3>2 DEF BarStagesOK
      <3>5. BarTypeOK'
        BY <1>0, <1>1, <2>1, <3>1, <3>2, <3>4 DEF BarTypeOK
      <3>6. BarStagesOK'
        BY <1>1, <3>1, <3>4 DEF BarStagesOK
      <3>7. ViewsOK'
        BY <1>2, <2>1, <3>1, <3>3, <3>4 DEF ViewsOK
      <3>8. ExitOK'
        BY <2>1, <3>1 DEF ExitOK
      <3> QED BY <3>5, <3>6, <3>7, <3>8 DEF BarInv
    <2> QED BY <2>2, <2>3
  <1>6. CASE ReadIndex
    <2>1. bar = "read index" /\ exit = "none"
      BY <1>1, <1>6 DEF ReadIndex, BarTypeOK
    <2>2. CASE Trouble
      BY <1>0, <1>1, <1>6, <2>1, <2>2
      DEF ReadIndex, Trouble, Go, BarInv, BarTypeOK, BarStagesOK, ViewsOK, ExitOK
    <2>3. CASE ~Trouble
      <3> DEFINE again == {[f EXCEPT !.now = staged[f.path]] : f \in views.index}
      <3>1. bar' = "untracked" /\ UNCHANGED <<names, moved, exit>>
            /\ views' = [views EXCEPT !.index = again]
        BY <1>6, <2>3 DEF ReadIndex, Go
      <3>2. again \in SUBSET FileChanges /\ \A c \in again : c.before # NoFile \/ c.after # NoFile
        BY <1>1, RereadTyped DEF BarTypeOK, BarStagesOK
      <3>3. ~moved => again = Differing(staged)
        BY <1>1, <2>1, RereadIs DEF Differing, Change, BarInv, ViewsOK
      <3> HIDE DEF again
      <3>4. views' \in [work : SUBSET FileChanges, index : SUBSET FileChanges]
            /\ views'.index = again /\ views'.work = views.work
        BY <1>1, <3>1, <3>2 DEF BarStagesOK
      <3>5. BarTypeOK'
        BY <1>0, <1>1, <2>1, <3>1, <3>2, <3>4 DEF BarTypeOK
      <3>6. BarStagesOK'
        BY <1>1, <3>1, <3>4 DEF BarStagesOK
      <3>7. ViewsOK'
        BY <1>2, <2>1, <3>1, <3>3, <3>4 DEF ViewsOK, BarInv
      <3>8. ExitOK'
        BY <2>1, <3>1 DEF ExitOK
      <3> QED BY <3>5, <3>6, <3>7, <3>8 DEF BarInv
    <2> QED BY <2>2, <2>3
  <1>7. CASE ListUntracked
    <2>1. /\ bar = "untracked" /\ exit = "none" /\ bar' = "read untracked"
          /\ names' = NewFiles /\ UNCHANGED <<views, moved, exit>>
      BY <1>1, <1>7 DEF ListUntracked, Go, NewFiles, BarTypeOK
    <2>2. NewFiles \subseteq BarFiles
      BY DEF NewFiles
    <2>3. BarTypeOK'
      BY <1>0, <1>1, <2>1, <2>2 DEF BarTypeOK
    <2>4. BarStagesOK'
      BY <1>1, <2>1 DEF BarStagesOK
    <2>5. ViewsOK'
      BY <1>2, <2>1 DEF ViewsOK, BarInv
    <2>6. ExitOK'
      BY <2>1 DEF ExitOK
    <2> QED BY <2>3, <2>4, <2>5, <2>6 DEF BarInv
  <1>8. CASE ReadNewFiles
    <2>1. bar = "read untracked" /\ exit = "none"
      BY <1>1, <1>8 DEF ReadNewFiles, BarTypeOK
    <2>2. CASE Trouble
      BY <1>0, <1>1, <1>8, <2>1, <2>2
      DEF ReadNewFiles, Trouble, Go, BarInv, BarTypeOK, BarStagesOK, ViewsOK, ExitOK
    <2>3. CASE ~Trouble
      <3> DEFINE gained == {[path |-> f, before |-> NoFile, after |-> working[f], now |-> NoFile] :
                             f \in names}
      <3>1. /\ bar' = "inspect" /\ names' = {} /\ UNCHANGED <<moved, exit>>
            /\ views' = [views EXCEPT !.work = views.work \cup gained]
            /\ \A f \in names : working[f] # NoFile
        BY <1>8, <2>3 DEF ReadNewFiles, Go
      <3>2. gained \in SUBSET FileChanges /\ \A c \in gained : c.before # NoFile \/ c.after # NoFile
        BY <1>1, <3>1, NewViewTyped DEF BarTypeOK
      <3>3. ~moved => views.work = WorkView /\ gained = NewView
        BY <2>1 DEF NewView, BarInv, ViewsOK
      <3> HIDE DEF gained
      <3>4. views' \in [work : SUBSET FileChanges, index : SUBSET FileChanges]
            /\ views'.work = views.work \cup gained /\ views'.index = views.index
        BY <1>1, <3>1, <3>2 DEF BarStagesOK
      <3>5. BarTypeOK'
        BY <1>0, <1>1, <2>1, <3>1, <3>2, <3>4 DEF BarTypeOK
      <3>6. BarStagesOK'
        BY <1>1, <3>1, <3>4 DEF BarStagesOK
      <3>7. ViewsOK'
        BY <1>2, <2>1, <3>1, <3>3, <3>4 DEF ViewsOK, BarInv
      <3>8. ExitOK'
        BY <2>1, <3>1 DEF ExitOK
      <3> QED BY <3>5, <3>6, <3>7, <3>8 DEF BarInv
    <2> QED BY <2>2, <2>3
  <1> QED BY <1>3, <1>4, <1>5, <1>6, <1>7, <1>8 DEF Tool

LEMMA NextBarInv ==
    ASSUME BarConstants, BarInv, [BarNext]_barVars
    PROVE  BarInv'
  <1>1. CASE StartBar /\ Tool
    BY <1>1 DEF StartBar, Tool, Go, BarInv, BarTypeOK, BarStagesOK, ViewsOK, ExitOK
  <1>2. CASE Inspect /\ Tool
    <2>1. /\ bar = "inspect" /\ exit = "none" /\ bar' = "done"
          /\ UNCHANGED <<views, names, moved, mergeBase, staged, working, touches>>
          /\ \/ Passes(views.work) /\ Passes(views.index) /\ exit' = "clean"
             \/ (Fails(views.work) \/ Fails(views.index)) /\ exit' = "findings"
      BY <1>2 DEF Inspect, Tool, Go, BarInv, BarTypeOK
    <2>2. UNCHANGED <<WorkView, NewView, Differing(staged)>>
      BY <2>1 DEF Listed, WorkView, NewFiles, NewView, Differing, Change
    <2>3. Passes(views.work)' = Passes(views.work) /\ Passes(views.index)' = Passes(views.index)
          /\ Fails(views.work)' = Fails(views.work) /\ Fails(views.index)' = Fails(views.index)
      BY <2>1
    <2>4. BarTypeOK' /\ BarStagesOK'
      BY <2>1 DEF BarInv, BarTypeOK, BarStagesOK
    <2>5. ViewsOK'
      BY <2>1, <2>2 DEF BarInv, ViewsOK
    <2>6. ExitOK'
      BY <2>1, <2>3 DEF ExitOK
    <2> QED BY <2>4, <2>5, <2>6 DEF BarInv
  <1>3. CASE Tool /\ ~StartBar /\ ~Inspect
    BY <1>3, ReadInv
  <1>4. CASE Somebody
    <2>1. /\ touches' \in 0..MaxTouches /\ moved' = TRUE /\ bar # "done"
          /\ UNCHANGED <<mergeBase, bar, views, names, exit>>
      BY <1>4 DEF Somebody, BarInv, BarTypeOK, BarConstants
    <2>2. staged' \in BarTrees /\ working' \in BarTrees
      BY <1>4 DEF Somebody, EditWorking, StageWorking, BarInv, BarTypeOK, BarTrees
    <2>3. exit = "none"
      BY <2>1 DEF BarInv, BarTypeOK
    <2> QED
      BY <2>1, <2>2, <2>3 DEF BarInv, BarTypeOK, BarStagesOK, ViewsOK, ExitOK
  <1>5. CASE UNCHANGED barVars
    <2>1. UNCHANGED <<Listed, WorkView, NewFiles, NewView, Differing(Listed), Differing(staged)>>
      BY <1>5 DEF barVars, Listed, WorkView, NewFiles, NewView, Differing, Change
    <2>2. Passes(views.work)' = Passes(views.work) /\ Passes(views.index)' = Passes(views.index)
          /\ Fails(views.work)' = Fails(views.work) /\ Fails(views.index)' = Fails(views.index)
      BY <1>5 DEF barVars
    <2> QED
      BY <1>5, <2>1, <2>2 DEF barVars, BarInv, BarTypeOK, BarStagesOK, ViewsOK, ExitOK
  <1> QED BY <1>1, <1>2, <1>3, <1>4, <1>5 DEF BarNext

\* A view shows what a tree has of the files the index lists, and the others as new ones.
ListedOf(tree, f) == IF staged[f] = NoFile THEN NoFile ELSE tree[f]
Shows(view, tree) ==
    /\ \A f \in BarFiles : mergeBase[f] # ListedOf(tree, f) =>
         [path |-> f, before |-> mergeBase[f], after |-> ListedOf(tree, f), now |-> tree[f]] \in view
    /\ \A f \in BarFiles : ListedOf(tree, f) # tree[f] =>
         \E c \in view : c.path = f /\ c.before = NoFile /\ c.after = tree[f]
    /\ \A c \in view : c.path \in BarFiles /\ LinesOf(c.after) \subseteq LinesOf(tree[c.path])

LEMMA ViewsShow ==
    ASSUME BarInv, exit \in {"clean", "findings"}, ~moved
    PROVE  Shows(views.work, working) /\ Shows(views.index, staged)
  <1>1. views.work = WorkView \cup NewView /\ views.index = Differing(staged)
    BY DEF BarInv, ViewsOK
  <1>2. \A f \in BarFiles : Listed[f] = ListedOf(working, f) /\ staged[f] = ListedOf(staged, f)
    BY DEF Listed, ListedOf
  <1>3. Shows(WorkView \cup NewView, working)
    <2>1. \A f \in BarFiles : mergeBase[f] # ListedOf(working, f) =>
            [path |-> f, before |-> mergeBase[f], after |-> ListedOf(working, f),
             now |-> working[f]] \in WorkView
      BY <1>2 DEF WorkView
    <2>2. ASSUME NEW f \in BarFiles, ListedOf(working, f) # working[f]
          PROVE  [path |-> f, before |-> NoFile, after |-> working[f], now |-> NoFile] \in NewView
      BY <2>2 DEF ListedOf, NewFiles, NewView
    <2>3. \A c \in WorkView \cup NewView :
            c.path \in BarFiles /\ LinesOf(c.after) \subseteq LinesOf(working[c.path])
      BY <1>2 DEF WorkView, NewView, NewFiles, ListedOf, LinesOf
    <2>4. ASSUME NEW f \in BarFiles, ListedOf(working, f) # working[f]
          PROVE  \E c \in WorkView \cup NewView :
                   c.path = f /\ c.before = NoFile /\ c.after = working[f]
      <3> DEFINE new == [path |-> f, before |-> NoFile, after |-> working[f], now |-> NoFile]
      <3>1. new \in WorkView \cup NewView
        BY <2>2, <2>4
      <3> QED BY <3>1
    <2> QED BY <2>1, <2>3, <2>4 DEF Shows
  <1>4. Shows(Differing(staged), staged)
    <2>1. \A f \in BarFiles : mergeBase[f] # ListedOf(staged, f) =>
            [path |-> f, before |-> mergeBase[f], after |-> ListedOf(staged, f),
             now |-> staged[f]] \in Differing(staged)
      BY <1>2 DEF Differing, Change
    <2>2. \A c \in Differing(staged) :
            c.path \in BarFiles /\ LinesOf(c.after) \subseteq LinesOf(staged[c.path])
      BY DEF Differing, Change
    <2> QED BY <1>2, <2>1, <2>2 DEF Shows
  <1> QED BY <1>1, <1>3, <1>4

\* What a view that passes has waived.
LEMMA DeletionIsWaived ==
    ASSUME NEW view, Passes(view), NEW c \in view,
           c.after = NoFile, c.path \in TestFiles, c.before # NoFile
    PROVE  \E l \in LinesOf(c.before) : l.waived
  <1>1. PICK found \in FindingsOf(c, view) : \A l \in found : l.waived
    BY DEF Passes
  <1>2. CASE c.before = {}
    <2>1. found = {[waived |-> FALSE]}
      BY <1>1, <1>2 DEF FindingsOf
    <2> QED BY <1>1, <2>1
  <1>3. CASE c.before # {}
    <2>1. \E l \in c.before : found = {l}
      BY <1>1, <1>3 DEF FindingsOf
    <2> QED BY <1>1, <2>1 DEF LinesOf
  <1> QED BY <1>2, <1>3

LEMMA ChangeIsWaived ==
    ASSUME NEW view, Passes(view), NEW c \in view, c.after # NoFile
    PROVE  /\ \A l \in OfKind(AddedLines(c), "skip") \cup Loosened(c) \cup Emptied(c) : l.waived
           /\ c.path \in TestFiles =>
                /\ \A l \in TestsRemoved(c, view) : l.waived
                /\ \E lost \in LostAssertions(c) : \A l \in lost : l.waived
  <1>1. PICK found \in FindingsOf(c, view) : \A l \in found : l.waived
    BY DEF Passes
  <1> DEFINE always == OfKind(AddedLines(c), "skip") \cup Loosened(c) \cup Emptied(c)
  <1>2. CASE c.path \in TestFiles
    <2>1. \E lost \in LostAssertions(c) : found = always \cup TestsRemoved(c, view) \cup lost
      BY <1>1, <1>2 DEF FindingsOf
    <2> HIDE DEF always
    <2>2. (\A l \in always : l.waived) /\ (\A l \in TestsRemoved(c, view) : l.waived)
          /\ \E lost \in LostAssertions(c) : \A l \in lost : l.waived
      BY <1>1, <2>1
    <2> QED BY <2>2 DEF always
  <1>3. CASE c.path \notin TestFiles
    BY <1>1, <1>3 DEF FindingsOf
  <1> QED BY <1>2, <1>3

LEMMA AssertionsAreKept ==
    ASSUME NEW c, IsFiniteSet(LinesOf(c.before)), IsFiniteSet(LinesOf(c.after)),
           NEW lost \in LostAssertions(c), \A l \in lost : l.waived
    PROVE  \/ Cardinality(OfKind(LinesOf(c.after), "assertion"))
                >= Cardinality(OfKind(LinesOf(c.before), "assertion"))
           \/ \E l \in LinesOf(c.before) : l.waived
  <1> DEFINE taken == OfKind(RemovedLines(c), "assertion")
             gained == OfKind(AddedLines(c), "assertion")
             old == OfKind(LinesOf(c.before), "assertion")
             new == OfKind(LinesOf(c.after), "assertion")
             kept == old \cap new
  <1>1. /\ taken \subseteq LinesOf(c.before) /\ gained \subseteq LinesOf(c.after)
        /\ old = taken \cup kept /\ taken \cap kept = {}
        /\ new = gained \cup kept /\ gained \cap kept = {}
    BY DEF OfKind, RemovedLines, AddedLines
  <1>2. lost \in kSubset(IF Cardinality(taken) > Cardinality(gained)
                         THEN Cardinality(taken) - Cardinality(gained) ELSE 0, taken)
    BY DEF LostAssertions
  <1>3. IsFiniteSet(taken) /\ IsFiniteSet(gained) /\ IsFiniteSet(kept)
    <2>1. kept \subseteq LinesOf(c.before)
      BY DEF OfKind
    <2> QED BY <1>1, <2>1, FS_Subset
  <1> HIDE DEF taken, gained, old, new, kept
  <1>4. /\ Cardinality(taken) \in Nat /\ Cardinality(gained) \in Nat /\ Cardinality(kept) \in Nat
        /\ Cardinality(old) = Cardinality(taken) + Cardinality(kept)
        /\ Cardinality(new) = Cardinality(gained) + Cardinality(kept)
    <2>1. Cardinality(taken \cap kept) = 0 /\ Cardinality(gained \cap kept) = 0
      BY <1>1, FS_EmptySet
    <2>2. /\ Cardinality(taken) \in Nat /\ Cardinality(gained) \in Nat
          /\ Cardinality(kept) \in Nat
      BY <1>3, FS_CardinalityType
    <2>3. Cardinality(old) = Cardinality(taken) + Cardinality(kept) - Cardinality(taken \cap kept)
      BY <1>1, <1>3, FS_Union
    <2>4. Cardinality(new) = Cardinality(gained) + Cardinality(kept) - Cardinality(gained \cap kept)
      BY <1>1, <1>3, FS_Union
    <2> QED BY <2>1, <2>2, <2>3, <2>4
  <1>5. CASE Cardinality(taken) > Cardinality(gained)
    <2>1. lost \subseteq taken /\ Cardinality(lost) # 0
      BY <1>2, <1>4, <1>5 DEF kSubset
    <2>2. \E l \in lost : TRUE
      BY <2>1, FS_EmptySet
    <2> QED BY <1>1, <2>1, <2>2
  <1>6. CASE ~(Cardinality(taken) > Cardinality(gained))
    BY <1>4, <1>6 DEF old, new
  <1> QED BY <1>5, <1>6

LEMMA PassedIsUnweakened ==
    ASSUME BarConstants, BarTypeOK, NEW tree \in BarTrees, NEW view,
           Shows(view, tree), Passes(view)
    PROVE  Unweakened(tree)
  <1> DEFINE change(f) ==
               [path |-> f, before |-> mergeBase[f], after |-> ListedOf(tree, f), now |-> tree[f]]
  <1>0. \A f \in BarFiles : mergeBase[f] \in BarContents \cup {NoFile}
                            /\ tree[f] \in BarContents \cup {NoFile}
    BY DEF BarTypeOK, BarTrees
  <1>1. ASSUME NEW f \in TestFiles, mergeBase[f] # NoFile, ListedOf(tree, f) = NoFile
        PROVE  Waivable(f)
    <2>1. f \in BarFiles
      BY DEF BarFiles
    <2>2. change(f) \in view
      BY <1>1, <2>1 DEF Shows
    <2> QED BY <1>1, <2>2, DeletionIsWaived DEF Waivable
  <1>2. ASSUME NEW f \in BarFiles, tree[f] # NoFile, NEW l \in tree[f], l \notin LinesOf(mergeBase[f]),
               l.kind = "skip"
        PROVE  l.waived
    <2>1. \E c \in view : c.after # NoFile /\ l \in OfKind(AddedLines(c), "skip")
      <3>1. CASE ListedOf(tree, f) # tree[f]
        BY <1>2, <3>1 DEF Shows, AddedLines, OfKind, LinesOf
      <3>2. CASE ListedOf(tree, f) = tree[f]
        <4>1. change(f) \in view
          BY <1>2, <3>2 DEF Shows, LinesOf
        <4> QED BY <1>2, <3>2, <4>1 DEF AddedLines, OfKind, LinesOf
      <3> QED BY <3>1, <3>2
    <2> QED BY <2>1, ChangeIsWaived
  <1>3. ASSUME NEW name \in Tests(mergeBase) \ Tests(tree)
        PROVE  \E f \in TestFiles :
                 name \in NamesOf(OfKind(LinesOf(mergeBase[f]), "test")) /\ Waivable(f)
    <2>1. \E f \in TestFiles : \E l \in OfKind(LinesOf(mergeBase[f]), "test") : l.name = name
      BY <1>3 DEF Tests, NamesOf
    <2> PICK f \in TestFiles : \E l \in OfKind(LinesOf(mergeBase[f]), "test") : l.name = name
      BY <2>1
    <2> PICK l \in OfKind(LinesOf(mergeBase[f]), "test") : l.name = name
      OBVIOUS
    <2>2. f \in BarFiles /\ l \in LinesOf(mergeBase[f]) /\ l.kind = "test" /\ mergeBase[f] # NoFile
      BY DEF BarFiles, OfKind, LinesOf
    <2>3. \A g \in TestFiles : \A k \in LinesOf(tree[g]) : k.kind = "test" => k.name # name
      BY <1>3 DEF Tests, NamesOf, OfKind
    <2>4. CASE ListedOf(tree, f) = NoFile
      BY <1>1, <2>1, <2>2, <2>4 DEF NamesOf
    <2>5. CASE ListedOf(tree, f) # NoFile
      <3>1. ListedOf(tree, f) = tree[f] /\ l \notin LinesOf(tree[f])
        BY <2>1, <2>2, <2>3, <2>5 DEF ListedOf
      <3>2. change(f) \in view
        BY <2>2, <3>1 DEF Shows
      <3>3. name \notin AddedTests(view)
        BY <2>3 DEF Shows, AddedTests, NamesOf, OfKind, AddedLines
      <3>4. l \in TestsRemoved(change(f), view)
        BY <2>1, <2>2, <3>1, <3>3 DEF TestsRemoved, OfKind, RemovedLines
      <3>5. l.waived
        BY <2>5, <3>2, <3>4, ChangeIsWaived
      <3> QED BY <2>1, <2>2, <3>5 DEF NamesOf, Waivable
    <2> QED BY <2>4, <2>5
  <1>4. ASSUME NEW f \in TestFiles, tree[f] # NoFile
        PROVE  Asserts(tree, f) >= Asserts(mergeBase, f) \/ Waivable(f)
    <2>0. f \in BarFiles
      BY DEF BarFiles
    <2>1. IsFiniteSet(LinesOf(tree[f])) /\ IsFiniteSet(LinesOf(mergeBase[f]))
      BY <1>0, <2>0, FS_EmptySet DEF BarConstants, LinesOf
    <2>2. Asserts(tree, f) \in Nat
      <3>1. OfKind(LinesOf(tree[f]), "assertion") \subseteq LinesOf(tree[f])
        BY DEF OfKind
      <3> QED BY <2>1, <3>1, FS_Subset, FS_CardinalityType DEF Asserts
    <2>3. CASE mergeBase[f] = NoFile
      <3>1. OfKind(LinesOf(mergeBase[f]), "assertion") = {}
        BY <2>3 DEF OfKind, LinesOf
      <3> QED BY <2>2, <3>1, FS_EmptySet DEF Asserts
    <2>4. CASE mergeBase[f] = tree[f]
      BY <2>2, <2>4 DEF Asserts
    <2>5. CASE mergeBase[f] # NoFile /\ ListedOf(tree, f) = NoFile
      BY <1>1, <2>5
    <2>6. CASE mergeBase[f] # tree[f] /\ ListedOf(tree, f) # NoFile
      <3>1. ListedOf(tree, f) = tree[f]
        BY <2>6 DEF ListedOf
      <3>2. change(f) \in view
        BY <2>0, <2>6, <3>1 DEF Shows
      <3>3. PICK lost \in LostAssertions(change(f)) : \A l \in lost : l.waived
        BY <1>4, <3>1, <3>2, ChangeIsWaived
      <3>4. change(f).before = mergeBase[f] /\ change(f).after = tree[f]
        BY <3>1
      <3> HIDE DEF change
      <3> QED BY <2>1, <3>3, <3>4, AssertionsAreKept DEF Asserts, Waivable
    <2> QED BY <2>3, <2>4, <2>5, <2>6
  <1>5. ASSUME NEW f \in BarFiles, tree[f] # NoFile, staged[f] # NoFile,
               NEW new \in tree[f], NEW old \in LinesOf(mergeBase[f]),
               Maxima(tree[f], new.name) = {new},
               Maxima(LinesOf(mergeBase[f]), new.name) = {old}, new.value > old.value
        PROVE  new.waived
    <2>1. CASE new = old
      <3>1. new.value \in Int
        BY <1>0, <1>5 DEF BarConstants
      <3> QED BY <1>5, <2>1, <3>1
    <2>2. CASE new # old
      <3>1. new \notin LinesOf(mergeBase[f]) /\ old \notin tree[f]
            /\ new.kind = "maximum" /\ old.kind = "maximum" /\ old.name = new.name
        BY <1>5, <2>2 DEF Maxima, OfKind
      <3>2. ListedOf(tree, f) = tree[f] /\ mergeBase[f] # tree[f] /\ LinesOf(tree[f]) = tree[f]
        BY <1>5, <3>1 DEF ListedOf, LinesOf
      <3>3. change(f) \in view
        BY <3>2 DEF Shows
      <3>4. new \in Loosened(change(f))
        <4>1. AddedLines(change(f)) = tree[f] \ LinesOf(mergeBase[f])
              /\ RemovedLines(change(f)) = LinesOf(mergeBase[f]) \ tree[f]
          BY <3>2 DEF AddedLines, RemovedLines
        <4>2. Maxima(AddedLines(change(f)), new.name) = {new}
          BY <1>5, <3>1, <4>1 DEF Maxima, OfKind
        <4>3. Maxima(RemovedLines(change(f)), new.name) = {old}
          BY <1>5, <3>1, <4>1 DEF Maxima, OfKind
        <4> HIDE DEF change
        <4>4. new \in AddedLines(change(f)) /\ old \in RemovedLines(change(f))
          BY <3>1, <4>1
        <4> QED BY <1>5, <4>2, <4>3, <4>4 DEF Loosened
      <3> QED BY <1>5, <3>2, <3>3, <3>4, ChangeIsWaived
    <2> QED BY <2>1, <2>2
  <1>6. ASSUME NEW f \in BarFiles, tree[f] # NoFile, staged[f] # NoFile,
               NEW h \in tree[f] \cap LinesOf(mergeBase[f]), h.kind = "handler",
               NEW l \in LinesOf(mergeBase[f]), l.kind = "body", l.name = h.name,
               ~ \E k \in OfKind(tree[f], "body") : k.name = h.name
        PROVE  h.waived
    <2>1. ListedOf(tree, f) = tree[f] /\ mergeBase[f] # tree[f] /\ LinesOf(tree[f]) = tree[f]
      BY <1>6 DEF ListedOf, LinesOf, OfKind
    <2>2. change(f) \in view
      BY <2>1 DEF Shows
    <2>3. h \in Emptied(change(f))
      BY <1>6, <2>1 DEF Emptied, OfKind, RemovedLines
    <2> QED BY <1>6, <2>1, <2>2, <2>3, ChangeIsWaived
  <1>7. \A f \in TestFiles :
          mergeBase[f] # NoFile /\ (tree[f] = NoFile \/ staged[f] = NoFile) => Waivable(f)
    BY <1>1 DEF ListedOf
  <1>8. \A f \in BarFiles : tree[f] # NoFile =>
          /\ \A l \in OfKind(tree[f], "skip") : l.waived \/ l \in LinesOf(mergeBase[f])
          /\ f \in TestFiles => Asserts(tree, f) >= Asserts(mergeBase, f) \/ Waivable(f)
    BY <1>2, <1>4 DEF OfKind
  <1>9. ASSUME NEW f \in BarFiles, tree[f] # NoFile, staged[f] # NoFile
        PROVE  \A h \in OfKind(tree[f] \cap LinesOf(mergeBase[f]), "handler") :
                 \/ h.waived
                 \/ \E l \in OfKind(tree[f], "body") : l.name = h.name
                 \/ ~ \E l \in OfKind(LinesOf(mergeBase[f]), "body") : l.name = h.name
    BY <1>6, <1>9 DEF OfKind
  <1> HIDE DEF change
  <1> QED BY <1>3, <1>5, <1>7, <1>8, <1>9 DEF Unweakened

LEMMA BarInvSays ==
    ASSUME BarConstants, BarInv
    PROVE  BarTypeOK /\ CleanIsUnweakened /\ FindingsNeedChange
  <1>1. BarTypeOK /\ staged \in BarTrees /\ working \in BarTrees /\ mergeBase \in BarTrees
    BY DEF BarInv, BarTypeOK
  <1>2. CleanIsUnweakened
    BY <1>1, ViewsShow, PassedIsUnweakened DEF CleanIsUnweakened, BarInv, ExitOK
  <1>3. FindingsNeedChange
    <2> SUFFICES ASSUME exit = "findings", ~moved, working = mergeBase, staged = mergeBase
                 PROVE  FALSE
      BY DEF FindingsNeedChange
    <2>1. \A f \in BarFiles : Listed[f] = mergeBase[f]
      BY DEF Listed
    <2>2. WorkView = {} /\ NewView = {} /\ Differing(staged) = {}
      BY <2>1 DEF WorkView, NewView, NewFiles, Differing
    <2>3. views.work = {} /\ views.index = {}
      BY <2>2 DEF BarInv, ViewsOK
    <2> QED BY <2>3 DEF BarInv, ExitOK, Fails
  <1> QED BY <1>1, <1>2, <1>3

\* For any files and contents: a tree that passes and was left alone meanwhile is no weaker
\* than its merge base but where a waiver stands, and only a change is found fault with
\* (workingChanges, inspect).
THEOREM BarHolds ==
    ASSUME BarConstants
    PROVE  BarSpec => [](BarTypeOK /\ CleanIsUnweakened /\ FindingsNeedChange)
  <1>1. BarInit => BarInv
    BY InitBarInv
  <1>2. BarInv /\ [BarNext]_barVars => BarInv'
    BY NextBarInv
  <1>3. BarInv => BarTypeOK /\ CleanIsUnweakened /\ FindingsNeedChange
    BY BarInvSays
  <1> QED BY <1>1, <1>2, <1>3, PTL DEF BarSpec

-----------------------------------------------------------------------------
(* DiffParser: what the parser knows of the lines it has read *)

PatchFiles ==
    [hunks : Nat, text : BOOLEAN, metadata : BOOLEAN, empty : BOOLEAN,
     index : {"none", "index", "empty index"}, binary : BOOLEAN]

PatchTypesOK ==
    /\ lines \in Seq(PatchLines) /\ files \in Seq(PatchFiles)
    /\ pending \in BOOLEAN /\ headers \in BOOLEAN

\* The hunk that is open is the last one, and what it still has is what its lines lack.
HunksOK(ls, rest) ==
    IF rest = <<0, 0>>
    THEN \A h \in HunksOf(ls) : EndsOf(ls, h) # {}
    ELSE \E h \in HunksOf(ls) :
           /\ \A g \in HunksOf(ls) : g # h => EndsOf(ls, g) # {}
           /\ \A i \in h + 1..Len(ls) : Removes(ls[i].kind) \/ Adds(ls[i].kind)
           /\ Cardinality(RemovedIn(ls, h, Len(ls))) + rest[1] = ls[h].counts[1]
           /\ Cardinality(AddedIn(ls, h, Len(ls))) + rest[2] = ls[h].counts[2]

\* What it knows of the line of structure it read last.
StructureOK(ls, fs, pend, heads) ==
    LET last == PreviousOf(ls, Len(ls) + 1) IN
      /\ pend <=> last = "---"
      /\ heads <=> last \in {"+++", "@@"}
      /\ fs = << >> <=> last = "none"
      /\ fs # << >> /\ ~heads => fs[Len(fs)].hunks = 0

Describes(f, ls, s) ==
    /\ f.hunks > 0 <=> HasKind(ls, s, "@@")
    /\ f.text <=> HasKind(ls, s, "+++")
    /\ f.metadata <=> HasKind(ls, s, "deleted") \/ HasKind(ls, s, "mode") \/ HasKind(ls, s, "binary")
    /\ f.empty <=> HasKind(ls, s, "deleted")
    /\ f.binary <=> HasKind(ls, s, "binary")
    /\ f.index = IndexOf(ls, s)

\* Each file is one start's, in order; only the last one can have half of its headers.
FilesAt(at, ls, fs, pend) ==
    /\ \A k \in 1..Len(fs) : at[k] \in StartsOf(ls) /\ Describes(fs[k], ls, at[k])
    /\ \A s \in StartsOf(ls) : \E k \in 1..Len(fs) : at[k] = s
    /\ \A j, k \in 1..Len(fs) : j < k => at[j] < at[k]
    /\ \A k \in 1..Len(fs) : HasKind(ls, at[k], "---") <=> fs[k].text \/ (pend /\ k = Len(fs))

Reading(ls, fs, pend, heads, rest) ==
    /\ HunksOK(ls, rest)
    /\ InOrder(ls)
    /\ StructureOK(ls, fs, pend, heads)
    /\ \E at \in [1..Len(fs) -> Nat] : FilesAt(at, ls, fs, pend)

PatchInv ==
    /\ ParserTypeOK /\ PatchTypesOK
    /\ result = "reading" => Reading(lines, files, pending, headers, left)
    /\ OnlyWholePatches

-----------------------------------------------------------------------------
(* One line more *)

Longer(ls, more) ==
    /\ Len(ls) \in Nat /\ Len(more) = Len(ls) + 1
    /\ DOMAIN ls = 1..Len(ls) /\ DOMAIN more = 1..Len(ls) + 1
    /\ \A i \in 1..Len(ls) : more[i] = ls[i]
    /\ \A i \in 1..Len(ls) + 1 : more[i] \in PatchLines

LEMMA LineTypes ==
    ASSUME ParserConstants, NEW l \in PatchLines
    PROVE  l.kind \in Plain \cup {"@@"} /\ l.counts \in Nat \X Nat
  BY DEF ParserConstants, PatchLines, Line

LEMMA AppendIsLonger ==
    ASSUME NEW ls \in Seq(PatchLines), NEW l \in PatchLines
    PROVE  /\ Longer(ls, Append(ls, l)) /\ Append(ls, l)[Len(ls) + 1] = l
           /\ Append(ls, l) \in Seq(PatchLines)
  BY DEF Longer

LEMMA LastExists ==
    ASSUME NEW n \in Nat, NEW S \in SUBSET (1..n), S # {}
    PROVE  LastOf(S) \in S /\ \A k \in S : k <= LastOf(S)
  <1> DEFINE T == {n - k : k \in S}
             R == OpToRel(<, Nat)
  <1>1. T \subseteq Nat
    <2>1. \A k \in S : n - k \in Nat
      OBVIOUS
    <2> QED BY <2>1
  <1>2. T # {}
    OBVIOUS
  <1>3. IsWellFoundedOn(R, Nat)
    BY NatLessThanWellFounded
  <1> HIDE DEF R
  <1>4. PICK m \in T : \A t \in T : ~(<<t, m>> \in R)
    BY <1>1, <1>2, <1>3, WFMin
  <1>5. \A t \in T : ~(t < m)
    BY <1>1, <1>4, Zenon DEF OpToRel, R
  <1>6. PICK j \in S : m = n - j
    BY <1>4
  <1>7. ASSUME NEW k \in S PROVE k <= j
    <2>1. n - k \in T
      OBVIOUS
    <2>2. ~(n - k < n - j)
      BY <1>5, <1>6, <2>1
    <2>3. k \in Int /\ j \in Int
      OBVIOUS
    <2> HIDE DEF T
    <2> QED BY <2>2, <2>3
  <1> QED BY <1>6, <1>7 DEF LastOf

LEMMA LastIs ==
    ASSUME NEW n \in Nat, NEW S \in SUBSET (1..n), NEW j \in S, \A k \in S : k <= j
    PROVE  LastOf(S) = j
  <1>1. \A i \in S : (\A k \in S : k <= i) => i = j
    OBVIOUS
  <1> QED BY <1>1 DEF LastOf
-----------------------------------------------------------------------------
(* The lines of a hunk *)

LEMMA CountsAreFinite ==
    ASSUME NEW ls, NEW h \in Nat, NEW to \in Nat
    PROVE  /\ IsFiniteSet(RemovedIn(ls, h, to)) /\ Cardinality(RemovedIn(ls, h, to)) \in Nat
           /\ IsFiniteSet(AddedIn(ls, h, to)) /\ Cardinality(AddedIn(ls, h, to)) \in Nat
  <1>1. IsFiniteSet(h + 1..to)
    BY FS_Interval
  <1>2. RemovedIn(ls, h, to) \subseteq h + 1..to /\ AddedIn(ls, h, to) \subseteq h + 1..to
    BY DEF RemovedIn, AddedIn
  <1> QED BY <1>1, <1>2, FS_Subset, FS_CardinalityType

LEMMA CountsStay ==
    ASSUME NEW ls, NEW more, Longer(ls, more), NEW h \in 1..Len(ls), NEW to \in h..Len(ls)
    PROVE  RemovedIn(more, h, to) = RemovedIn(ls, h, to) /\ AddedIn(more, h, to) = AddedIn(ls, h, to)
  BY DEF Longer, RemovedIn, AddedIn

LEMMA CountsGrow ==
    ASSUME NEW ls, NEW more, Longer(ls, more), NEW h \in 1..Len(ls)
    PROVE  LET n == Len(ls)  kind == more[Len(ls) + 1].kind IN
           /\ Cardinality(RemovedIn(more, h, n + 1))
                = Cardinality(RemovedIn(ls, h, n)) + (IF Removes(kind) THEN 1 ELSE 0)
           /\ Cardinality(AddedIn(more, h, n + 1))
                = Cardinality(AddedIn(ls, h, n)) + (IF Adds(kind) THEN 1 ELSE 0)
  <1> DEFINE n == Len(ls)
             kind == more[n + 1].kind
             minus == RemovedIn(ls, h, n)
             plus == AddedIn(ls, h, n)
  <1>1. n \in Nat /\ h \in Nat
    BY DEF Longer
  <1>2. RemovedIn(more, h, n + 1) = IF Removes(kind) THEN minus \cup {n + 1} ELSE minus
    BY <1>1 DEF Longer, RemovedIn
  <1>3. AddedIn(more, h, n + 1) = IF Adds(kind) THEN plus \cup {n + 1} ELSE plus
    BY <1>1 DEF Longer, AddedIn
  <1>4. n + 1 \notin minus /\ n + 1 \notin plus
    BY <1>1 DEF RemovedIn, AddedIn
  <1>5. IsFiniteSet(minus) /\ Cardinality(minus) \in Nat /\ IsFiniteSet(plus) /\ Cardinality(plus) \in Nat
    BY <1>1, CountsAreFinite
  <1> HIDE DEF kind, minus, plus
  <1>6. Cardinality(minus \cup {n + 1}) = Cardinality(minus) + 1 /\ Cardinality(plus \cup {n + 1}) = Cardinality(plus) + 1
    BY <1>4, <1>5, FS_AddElement
  <1>7. Cardinality(RemovedIn(more, h, n + 1)) = Cardinality(minus) + (IF Removes(kind) THEN 1 ELSE 0)
    <2>1. CASE Removes(kind)
      BY <1>2, <1>6, <2>1
    <2>2. CASE ~Removes(kind)
      BY <1>2, <1>5, <2>2
    <2> QED BY <2>1, <2>2
  <1>8. Cardinality(AddedIn(more, h, n + 1)) = Cardinality(plus) + (IF Adds(kind) THEN 1 ELSE 0)
    <2>1. CASE Adds(kind)
      BY <1>3, <1>6, <2>1
    <2>2. CASE ~Adds(kind)
      BY <1>3, <1>5, <2>2
    <2> QED BY <2>1, <2>2
  <1> QED BY <1>7, <1>8 DEF kind, minus, plus

LEMMA NoSecondEnd ==
    ASSUME NEW ls, Len(ls) \in Nat, NEW h \in 1..Len(ls),
           NEW a \in EndsOf(ls, h), NEW b \in EndsOf(ls, h)
    PROVE  ~(a < b)
  <1> SUFFICES ASSUME a < b PROVE FALSE
    OBVIOUS
  <1>1. a \in Nat /\ b \in Nat /\ h \in Nat /\ h <= a /\ a + 1 \in h + 1..b
    BY DEF EndsOf
  <1>2. Removes(ls[a + 1].kind) \/ Adds(ls[a + 1].kind)
    BY <1>1 DEF EndsOf
  <1>3. /\ Cardinality(RemovedIn(ls, h, a)) = Cardinality(RemovedIn(ls, h, b))
        /\ Cardinality(AddedIn(ls, h, a)) = Cardinality(AddedIn(ls, h, b))
    BY DEF EndsOf
  <1>4. RemovedIn(ls, h, a) \subseteq RemovedIn(ls, h, b) /\ AddedIn(ls, h, a) \subseteq AddedIn(ls, h, b)
    BY <1>1 DEF RemovedIn, AddedIn
  <1>5. RemovedIn(ls, h, a) = RemovedIn(ls, h, b) /\ AddedIn(ls, h, a) = AddedIn(ls, h, b)
    BY <1>1, <1>3, <1>4, CountsAreFinite, FS_Subset
  <1>6. a + 1 \notin RemovedIn(ls, h, a) /\ a + 1 \notin AddedIn(ls, h, a)
    BY <1>1 DEF RemovedIn, AddedIn
  <1>7. a + 1 \in RemovedIn(ls, h, b) \/ a + 1 \in AddedIn(ls, h, b)
    BY <1>1, <1>2 DEF RemovedIn, AddedIn
  <1> QED BY <1>5, <1>6, <1>7

LEMMA EndIsOne ==
    ASSUME NEW ls, Len(ls) \in Nat, NEW h \in 1..Len(ls),
           NEW a \in EndsOf(ls, h), NEW b \in EndsOf(ls, h)
    PROVE  a = b
  <1>1. ~(a < b) /\ ~(b < a)
    BY NoSecondEnd
  <1>2. a \in Nat /\ b \in Nat
    BY DEF EndsOf
  <1> QED BY <1>1, <1>2

LEMMA EndsStay ==
    ASSUME NEW ls, NEW more, Longer(ls, more), NEW h \in 1..Len(ls)
    PROVE  /\ EndsOf(more, h) \cap (1..Len(ls)) = EndsOf(ls, h)
           /\ EndsOf(ls, h) # {} => EndsOf(more, h) = EndsOf(ls, h)
  <1> DEFINE n == Len(ls)
  <1>1. n \in Nat /\ Len(more) = n + 1 /\ h \in Nat
    BY DEF Longer
  <1>2. \A to \in h..n : to \in EndsOf(more, h) <=> to \in EndsOf(ls, h)
    <2> SUFFICES ASSUME NEW to \in h..n PROVE to \in EndsOf(more, h) <=> to \in EndsOf(ls, h)
      OBVIOUS
    <2>1. RemovedIn(more, h, to) = RemovedIn(ls, h, to) /\ AddedIn(more, h, to) = AddedIn(ls, h, to)
      BY CountsStay
    <2>2. more[h] = ls[h] /\ \A i \in h + 1..to : more[i] = ls[i]
      BY <1>1 DEF Longer
    <2>3. to \in h..n + 1
      BY <1>1
    <2> QED BY <1>1, <2>1, <2>2, <2>3 DEF EndsOf
  <1>3. EndsOf(more, h) \subseteq h..n + 1 /\ EndsOf(ls, h) \subseteq h..n
    BY <1>1 DEF EndsOf
  <1>4. EndsOf(more, h) \cap (1..n) = EndsOf(ls, h)
    <2>1. \A to \in EndsOf(more, h) \cap (1..n) : to \in h..n
      BY <1>1, <1>3
    <2>2. h..n \subseteq 1..n
      BY <1>1
    <2> QED BY <1>2, <1>3, <2>1, <2>2
  <1>5. ASSUME EndsOf(ls, h) # {} PROVE EndsOf(more, h) = EndsOf(ls, h)
    <2>1. PICK to \in EndsOf(ls, h) : TRUE
      BY <1>5
    <2>2. to \in EndsOf(more, h)
      BY <1>4
    <2>3. h \in 1..Len(more) /\ Len(more) \in Nat
      BY <1>1
    <2>4. \A b \in EndsOf(more, h) : b = to
      BY <2>2, <2>3, EndIsOne
    <2> QED BY <1>4, <2>1, <2>2, <2>4
  <1> QED BY <1>4, <1>5

LEMMA HunksGrow ==
    ASSUME NEW ls, NEW more, Longer(ls, more)
    PROVE  /\ HunksOf(more) \cap (1..Len(ls)) = HunksOf(ls)
           /\ Len(ls) + 1 \in HunksOf(more) <=> more[Len(ls) + 1].kind = "@@"
           /\ HunksOf(ls) \subseteq 1..Len(ls) /\ HunksOf(more) \subseteq 1..Len(ls) + 1
           /\ more[Len(ls) + 1].kind = "@@" => HunksOf(more) = HunksOf(ls) \cup {Len(ls) + 1}
           /\ more[Len(ls) + 1].kind # "@@" => HunksOf(more) = HunksOf(ls)
  BY DEF Longer, HunksOf

\* A line after the last hunk's end is outside of all hunks.
LEMMA OuterGrows ==
    ASSUME NEW ls, NEW more, Longer(ls, more), \A h \in HunksOf(ls) : EndsOf(ls, h) # {}
    PROVE  OuterOf(more) = OuterOf(ls) \cup {Len(ls) + 1}
  <1> DEFINE n == Len(ls)
             in(xs, i) == \E h \in HunksOf(xs) : h < i /\ \A to \in EndsOf(xs, h) : i <= to
  <1>1. n \in Nat /\ DOMAIN ls = 1..n /\ DOMAIN more = 1..n + 1
    BY DEF Longer
  <1>2. \A h \in HunksOf(ls) : h \in 1..n /\ EndsOf(more, h) = EndsOf(ls, h)
    BY EndsStay, HunksGrow
  <1>3. ASSUME NEW i \in 1..n PROVE in(more, i) <=> in(ls, i)
    <2>1. \A h \in HunksOf(more) : h < i => h \in HunksOf(ls)
      BY <1>1, HunksGrow
    <2>2. \A h \in HunksOf(ls) : h \in HunksOf(more)
      BY HunksGrow
    <2> QED BY <1>2, <2>1, <2>2
  <1>4. ~in(more, n + 1)
    <2> SUFFICES ASSUME NEW h \in HunksOf(more), h < n + 1
                 PROVE  \E to \in EndsOf(more, h) : ~(n + 1 <= to)
      OBVIOUS
    <2>1. h \in HunksOf(ls)
      BY <1>1, HunksGrow
    <2>2. PICK to \in EndsOf(ls, h) : TRUE
      BY <2>1
    <2>3. to \in EndsOf(more, h) /\ to \in h..n /\ h \in 1..n
      BY <1>2, <2>1 DEF EndsOf
    <2> QED BY <1>1, <2>3
  <1> QED BY <1>1, <1>3, <1>4 DEF OuterOf

\* A line of a hunk that goes on is not.
LEMMA OuterStays ==
    ASSUME NEW ls, NEW more, Longer(ls, more), NEW open \in HunksOf(ls), EndsOf(ls, open) = {},
           \A h \in HunksOf(ls) : h # open => EndsOf(ls, h) # {}
    PROVE  OuterOf(more) = OuterOf(ls)
  <1> DEFINE n == Len(ls)
             in(xs, i) == \E h \in HunksOf(xs) : h < i /\ \A to \in EndsOf(xs, h) : i <= to
  <1>1. n \in Nat /\ DOMAIN ls = 1..n /\ DOMAIN more = 1..n + 1 /\ open \in 1..n
    BY HunksGrow DEF Longer
  <1>2. \A h \in HunksOf(ls) : h # open => h \in 1..n /\ EndsOf(more, h) = EndsOf(ls, h)
    BY EndsStay, HunksGrow
  <1>3. \A to \in EndsOf(more, open) : to = n + 1
    <2>1. EndsOf(more, open) \cap (1..n) = {}
      BY <1>1, EndsStay
    <2>2. EndsOf(more, open) \subseteq 1..n + 1
      BY <1>1 DEF EndsOf, Longer
    <2> QED BY <1>1, <2>1, <2>2
  <1>4. ASSUME NEW i \in 1..n PROVE in(more, i) <=> in(ls, i)
    <2>1. \A h \in HunksOf(more) : h < i => h \in HunksOf(ls)
      BY <1>1, HunksGrow
    <2>2. \A h \in HunksOf(ls) : h \in HunksOf(more)
      BY HunksGrow
    <2>3. (\A to \in EndsOf(more, open) : i <= to) /\ (\A to \in EndsOf(ls, open) : i <= to)
      BY <1>1, <1>3
    <2> QED BY <1>2, <2>1, <2>2, <2>3
  <1>5. in(more, n + 1)
    <2>1. open \in HunksOf(more) /\ open < n + 1
      BY <1>1, HunksGrow
    <2>2. \A to \in EndsOf(more, open) : n + 1 <= to
      BY <1>1, <1>3
    <2> QED BY <2>1, <2>2
  <1>6. OuterOf(more) = {i \in 1..n + 1 : ~in(more, i)} /\ OuterOf(ls) = {i \in 1..n : ~in(ls, i)}
    BY <1>1 DEF OuterOf
  <1> HIDE DEF in
  <1> QED BY <1>1, <1>4, <1>5, <1>6

-----------------------------------------------------------------------------
(* The lines of structure *)

Structural == {"git", "---", "+++", "@@"}

LEMMA PlacesAreLines ==
    ASSUME NEW ls, NEW n \in Nat, DOMAIN ls = 1..n
    PROVE  /\ OuterOf(ls) \in SUBSET (1..n) /\ StructureOf(ls) \in SUBSET (1..n)
           /\ StructureOf(ls) \subseteq OuterOf(ls) /\ StartsOf(ls) \subseteq StructureOf(ls)
           /\ StartsOf(ls) \in SUBSET (1..n)
           /\ \A s : FileOf(ls, s) \subseteq OuterOf(ls) /\ IndexesOf(ls, s) \in SUBSET (1..n)
  BY DEF OuterOf, StructureOf, StartsOf, FileOf, IndexesOf

\* The line before is one that both have.
LEMMA PreviousStays ==
    ASSUME NEW ls, NEW more, Longer(ls, more), NEW i, NEW j,
           {k \in StructureOf(more) : k < j} = {k \in StructureOf(ls) : k < i}
    PROVE  PreviousOf(more, j) = PreviousOf(ls, i)
  <1> DEFINE before == {k \in StructureOf(ls) : k < i}
  <1>1. Len(ls) \in Nat /\ DOMAIN ls = 1..Len(ls) /\ \A k \in 1..Len(ls) : more[k] = ls[k]
    BY DEF Longer
  <1>2. before \in SUBSET (1..Len(ls))
    BY <1>1, PlacesAreLines
  <1>3. CASE before = {}
    BY <1>3 DEF PreviousOf
  <1>4. CASE before # {}
    <2>1. LastOf(before) \in 1..Len(ls)
      BY <1>1, <1>2, <1>4, LastExists
    <2> HIDE DEF before
    <2>2. more[LastOf(before)].kind = ls[LastOf(before)].kind
      BY <1>1, <2>1
    <2> QED BY <1>4, <2>2 DEF PreviousOf, before
  <1> QED BY <1>3, <1>4

\* A line of a hunk changes nothing outside of it.
LEMMA SameStructure ==
    ASSUME NEW ls, NEW more, Longer(ls, more), OuterOf(more) = OuterOf(ls)
    PROVE  /\ StructureOf(more) = StructureOf(ls)
           /\ \A i : PreviousOf(more, i) = PreviousOf(ls, i)
           /\ PreviousOf(more, Len(more) + 1) = PreviousOf(ls, Len(ls) + 1)
           /\ StartsOf(more) = StartsOf(ls)
  <1>1. /\ Len(ls) \in Nat /\ DOMAIN ls = 1..Len(ls) /\ Len(more) = Len(ls) + 1
        /\ \A k \in 1..Len(ls) : more[k] = ls[k]
    BY DEF Longer
  <1>2. StructureOf(ls) \in SUBSET (1..Len(ls)) /\ OuterOf(ls) \in SUBSET (1..Len(ls))
    BY <1>1, PlacesAreLines
  <1>3. StructureOf(more) = StructureOf(ls)
    BY <1>1, <1>2 DEF StructureOf
  <1>4. \A i : PreviousOf(more, i) = PreviousOf(ls, i)
    BY <1>3, PreviousStays
  <1>5. {k \in StructureOf(more) : k < Len(more) + 1} = {k \in StructureOf(ls) : k < Len(ls) + 1}
    BY <1>1, <1>2, <1>3
  <1>6. PreviousOf(more, Len(more) + 1) = PreviousOf(ls, Len(ls) + 1)
    BY <1>5, PreviousStays
  <1>7. \A i \in StructureOf(ls) : more[i] = ls[i]
    BY <1>1, <1>2
  <1> QED BY <1>3, <1>4, <1>6, <1>7 DEF StartsOf

\* A line outside of the hunks is one of structure or not, and comes after all others.
LEMMA StructureGrows ==
    ASSUME NEW ls, NEW more, Longer(ls, more), OuterOf(more) = OuterOf(ls) \cup {Len(ls) + 1}
    PROVE  LET n == Len(ls)  kind == more[Len(ls) + 1].kind  last == PreviousOf(ls, Len(ls) + 1) IN
           /\ StructureOf(more) = IF kind \in Structural THEN StructureOf(ls) \cup {n + 1}
                                                         ELSE StructureOf(ls)
           /\ \A i \in 1..n + 1 : PreviousOf(more, i) = PreviousOf(ls, i)
           /\ PreviousOf(more, Len(more) + 1) = IF kind \in Structural THEN kind ELSE last
           /\ StartsOf(more) = IF kind = "git" \/ (kind = "---" /\ last # "git")
                               THEN StartsOf(ls) \cup {n + 1} ELSE StartsOf(ls)
  <1> DEFINE n == Len(ls)
             kind == more[n + 1].kind
             last == PreviousOf(ls, n + 1)
  <1>1. /\ n \in Nat /\ DOMAIN ls = 1..n /\ Len(more) = n + 1
        /\ DOMAIN more = 1..n + 1 /\ \A k \in 1..n : more[k] = ls[k]
    BY DEF Longer
  <1>2. StructureOf(ls) \in SUBSET (1..n) /\ OuterOf(ls) \in SUBSET (1..n)
    BY <1>1, PlacesAreLines
  <1>3. StructureOf(more) = IF kind \in Structural THEN StructureOf(ls) \cup {n + 1}
                                                   ELSE StructureOf(ls)
    <2>1. \A i \in OuterOf(ls) : more[i] = ls[i]
      BY <1>1, <1>2
    <2>2. StructureOf(more) = {i \in OuterOf(more) : more[i].kind \in Structural}
      BY DEF StructureOf, Structural
    <2>3. StructureOf(ls) = {i \in OuterOf(ls) : ls[i].kind \in Structural}
      BY DEF StructureOf, Structural
    <2> QED BY <2>1, <2>2, <2>3
  <1> HIDE DEF kind
  <1>4. ASSUME NEW i \in 1..n + 1 PROVE PreviousOf(more, i) = PreviousOf(ls, i)
    <2>1. {k \in StructureOf(more) : k < i} = {k \in StructureOf(ls) : k < i}
      BY <1>1, <1>2, <1>3
    <2> QED BY <2>1, PreviousStays
  <1>5. PreviousOf(more, Len(more) + 1) = IF kind \in Structural THEN kind ELSE last
    <2>1. CASE kind \in Structural
      <3> DEFINE before == {k \in StructureOf(more) : k < Len(more) + 1}
      <3>1. before \in SUBSET (1..n + 1) /\ n + 1 \in before /\ \A k \in before : k <= n + 1
        BY <1>1, <1>2, <1>3, <2>1
      <3>2. n + 1 \in Nat
        BY <1>1
      <3>3. LastOf(before) = n + 1 /\ before # {}
        BY <3>1, <3>2, LastIs
      <3> HIDE DEF before
      <3>4. PreviousOf(more, Len(more) + 1) = more[LastOf(before)].kind
        BY <3>3 DEF PreviousOf, before
      <3> QED BY <2>1, <3>3, <3>4 DEF kind
    <2>2. CASE kind \notin Structural
      <3>1. {k \in StructureOf(more) : k < Len(more) + 1} = {k \in StructureOf(ls) : k < n + 1}
        BY <1>1, <1>2, <1>3, <2>2
      <3>2. PreviousOf(more, Len(more) + 1) = last
        BY <3>1, PreviousStays
      <3> QED BY <2>2, <3>2
    <2> QED BY <2>1, <2>2
  <1>6. StartsOf(more) = IF kind = "git" \/ (kind = "---" /\ last # "git")
                         THEN StartsOf(ls) \cup {n + 1} ELSE StartsOf(ls)
    <2>1. ASSUME NEW i \in StructureOf(ls) PROVE i \in StartsOf(more) <=> i \in StartsOf(ls)
      <3>1. i \in 1..n + 1 /\ more[i] = ls[i] /\ i \in StructureOf(more)
        BY <1>1, <1>2, <1>3
      <3>2. PreviousOf(more, i) = PreviousOf(ls, i)
        BY <1>4, <3>1
      <3> QED BY <3>1, <3>2 DEF StartsOf
    <2>2. n + 1 \in StartsOf(more) <=> kind = "git" \/ (kind = "---" /\ last # "git")
      <3>1. n + 1 \in 1..n + 1 /\ n + 1 \notin StructureOf(ls)
        BY <1>1, <1>2
      <3>2. PreviousOf(more, n + 1) = last
        BY <1>4, <3>1
      <3>3. n + 1 \in StructureOf(more) <=> kind \in Structural
        BY <1>3, <3>1
      <3> QED BY <3>2, <3>3 DEF StartsOf, Structural, kind
    <2>3. StartsOf(ls) \subseteq StructureOf(ls) /\ StartsOf(more) \subseteq StructureOf(more)
      BY DEF StartsOf
    <2>4. StartsOf(more) \subseteq StructureOf(ls) \cup {n + 1}
      BY <1>3, <2>3
    <2> QED BY <2>1, <2>2, <2>3, <2>4
  <1> QED BY <1>3, <1>4, <1>5, <1>6 DEF kind

\* What has to be so of a line of that kind.
Fits(ls, kind) ==
    LET last == PreviousOf(ls, Len(ls) + 1) IN
      /\ kind \notin {"-", "+", " ", "other"}
      /\ StartsOf(ls) # {} \/ kind = "git" \/ (kind = "---" /\ last # "git")
      /\ kind \in Structural => (kind = "+++" <=> last = "---")
      /\ kind = "@@" => last \in {"+++", "@@"}

LEMMA OrderGrows ==
    ASSUME NEW ls, NEW more, Longer(ls, more), OuterOf(more) = OuterOf(ls) \cup {Len(ls) + 1}
    PROVE  InOrder(more) <=> InOrder(ls) /\ Fits(ls, more[Len(ls) + 1].kind)
  <1> DEFINE n == Len(ls)
             kind == more[n + 1].kind
             last == PreviousOf(ls, n + 1)
  <1>1. /\ n \in Nat /\ DOMAIN ls = 1..n /\ \A k \in 1..n : more[k] = ls[k]
    BY DEF Longer
  <1>2. /\ StructureOf(ls) \in SUBSET (1..n) /\ OuterOf(ls) \in SUBSET (1..n)
        /\ StartsOf(ls) \in SUBSET (1..n)
    BY <1>1, PlacesAreLines
  <1>3. /\ StructureOf(more) = IF kind \in Structural THEN StructureOf(ls) \cup {n + 1}
                                                      ELSE StructureOf(ls)
        /\ \A i \in 1..n + 1 : PreviousOf(more, i) = PreviousOf(ls, i)
        /\ StartsOf(more) = IF kind = "git" \/ (kind = "---" /\ last # "git")
                            THEN StartsOf(ls) \cup {n + 1} ELSE StartsOf(ls)
    BY StructureGrows
  <1> HIDE DEF kind, last
  <1>4. (\A i \in OuterOf(more) : more[i].kind \notin {"-", "+", " ", "other"}) <=>
        (\A i \in OuterOf(ls) : ls[i].kind \notin {"-", "+", " ", "other"})
          /\ kind \notin {"-", "+", " ", "other"}
    BY <1>1, <1>2 DEF kind
  <1>5. (\A i \in OuterOf(more) : \E s \in StartsOf(more) : s <= i) <=>
        (\A i \in OuterOf(ls) : \E s \in StartsOf(ls) : s <= i)
          /\ (StartsOf(ls) # {} \/ kind = "git" \/ (kind = "---" /\ last # "git"))
    <2>1. \A i \in OuterOf(ls) : ~(n + 1 <= i)
      BY <1>1, <1>2
    <2>2. \A i \in OuterOf(ls) :
            (\E s \in StartsOf(more) : s <= i) <=> (\E s \in StartsOf(ls) : s <= i)
      BY <1>3, <2>1
    <2>3. \A s \in StartsOf(ls) : s <= n + 1
      BY <1>1, <1>2
    <2>4. (\E s \in StartsOf(more) : s <= n + 1) <=>
          (StartsOf(ls) # {} \/ kind = "git" \/ (kind = "---" /\ last # "git"))
      BY <1>1, <1>3, <2>3
    <2> QED BY <2>2, <2>4
  <1>6. ASSUME NEW i \in StructureOf(ls)
        PROVE  more[i] = ls[i] /\ PreviousOf(more, i) = PreviousOf(ls, i)
    <2>1. i \in 1..n /\ i \in 1..n + 1
      BY <1>1, <1>2
    <2> QED BY <1>1, <1>3, <2>1
  <1>7. PreviousOf(more, n + 1) = last
    <2>1. n + 1 \in 1..n + 1
      BY <1>1
    <2> QED BY <1>3, <2>1 DEF last
  <1>8. (\A i \in StructureOf(more) : more[i].kind = "+++" <=> PreviousOf(more, i) = "---") <=>
        (\A i \in StructureOf(ls) : ls[i].kind = "+++" <=> PreviousOf(ls, i) = "---")
          /\ (kind \in Structural => (kind = "+++" <=> last = "---"))
    BY <1>3, <1>6, <1>7 DEF kind
  <1>9. (\A i \in StructureOf(more) : more[i].kind = "@@" => PreviousOf(more, i) \in {"+++", "@@"}) <=>
        (\A i \in StructureOf(ls) : ls[i].kind = "@@" => PreviousOf(ls, i) \in {"+++", "@@"})
          /\ (kind = "@@" => last \in {"+++", "@@"})
    BY <1>3, <1>6, <1>7 DEF kind, Structural
  <1> QED BY <1>4, <1>5, <1>8, <1>9 DEF InOrder, Fits, kind, last

-----------------------------------------------------------------------------
(* The files *)

LEMMA FileStays ==
    ASSUME NEW ls, NEW more, Longer(ls, more), NEW s, FileOf(more, s) = FileOf(ls, s)
    PROVE  /\ \A kind : HasKind(more, s, kind) <=> HasKind(ls, s, kind)
           /\ IndexOf(more, s) = IndexOf(ls, s)
  <1>1. Len(ls) \in Nat /\ DOMAIN ls = 1..Len(ls) /\ \A k \in 1..Len(ls) : more[k] = ls[k]
    BY DEF Longer
  <1>2. FileOf(ls, s) \in SUBSET (1..Len(ls)) /\ IndexesOf(ls, s) \in SUBSET (1..Len(ls))
    BY <1>1, PlacesAreLines
  <1>3. \A i \in FileOf(ls, s) : more[i] = ls[i]
    BY <1>1, <1>2
  <1>4. IndexesOf(more, s) = IndexesOf(ls, s)
    BY <1>3 DEF IndexesOf
  <1>5. IndexesOf(ls, s) # {} => more[LastOf(IndexesOf(ls, s))] = ls[LastOf(IndexesOf(ls, s))]
    <2>1. IndexesOf(ls, s) # {} => LastOf(IndexesOf(ls, s)) \in 1..Len(ls)
      BY <1>1, <1>2, LastExists
    <2> QED BY <1>1, <2>1
  <1>6. IndexOf(more, s) = IndexOf(ls, s)
    BY <1>4, <1>5 DEF IndexOf
  <1> QED BY <1>3, <1>6 DEF HasKind

LEMMA FileGrows ==
    ASSUME NEW ls, NEW more, Longer(ls, more), NEW s,
           FileOf(more, s) = FileOf(ls, s) \cup {Len(ls) + 1}
    PROVE  LET now == more[Len(ls) + 1].kind IN
           /\ \A kind : HasKind(more, s, kind) <=> HasKind(ls, s, kind) \/ kind = now
           /\ IndexOf(more, s) = IF now \in {"index", "empty index"} THEN now ELSE IndexOf(ls, s)
  <1> DEFINE n == Len(ls)
             now == more[n + 1].kind
  <1>1. n \in Nat /\ DOMAIN ls = 1..n /\ \A k \in 1..n : more[k] = ls[k]
    BY DEF Longer
  <1>2. FileOf(ls, s) \in SUBSET (1..n) /\ IndexesOf(ls, s) \in SUBSET (1..n)
    BY <1>1, PlacesAreLines
  <1>3. \A i \in FileOf(ls, s) : more[i] = ls[i]
    BY <1>1, <1>2
  <1>4. \A kind : HasKind(more, s, kind) <=> HasKind(ls, s, kind) \/ kind = now
    BY <1>3 DEF HasKind
  <1>5. CASE now \in {"index", "empty index"}
    <2>1. IndexesOf(more, s) = IndexesOf(ls, s) \cup {n + 1}
      BY <1>3, <1>5 DEF IndexesOf
    <2>2. n + 1 \in Nat /\ IndexesOf(more, s) \in SUBSET (1..n + 1)
          /\ \A k \in IndexesOf(more, s) : k <= n + 1
      BY <1>1, <1>2, <2>1
    <2>3. LastOf(IndexesOf(more, s)) = n + 1
      BY <2>1, <2>2, LastIs
    <2>4. IndexOf(more, s) = now
      BY <2>1, <2>3 DEF IndexOf
    <2> QED BY <1>4, <1>5, <2>4
  <1>6. CASE now \notin {"index", "empty index"}
    <2>1. IndexesOf(more, s) = IndexesOf(ls, s)
      BY <1>3, <1>6 DEF IndexesOf
    <2>2. IndexesOf(ls, s) # {} => LastOf(IndexesOf(ls, s)) \in 1..n
      BY <1>1, <1>2, LastExists
    <2>3. IndexOf(more, s) = IndexOf(ls, s)
      BY <1>1, <2>1, <2>2 DEF IndexOf
    <2> QED BY <1>4, <1>6, <2>3
  <1> QED BY <1>5, <1>6

\* A line of a hunk belongs to no file.
LEMMA SameFiles ==
    ASSUME NEW ls, NEW more, Longer(ls, more), OuterOf(more) = OuterOf(ls)
    PROVE  \A s : FileOf(more, s) = FileOf(ls, s)
  BY SameStructure DEF FileOf

LEMMA SameOrder ==
    ASSUME NEW ls, NEW more, Longer(ls, more), OuterOf(more) = OuterOf(ls)
    PROVE  InOrder(more) <=> InOrder(ls)
  <1>1. Len(ls) \in Nat /\ DOMAIN ls = 1..Len(ls) /\ \A k \in 1..Len(ls) : more[k] = ls[k]
    BY DEF Longer
  <1>2. StructureOf(ls) \subseteq 1..Len(ls) /\ OuterOf(ls) \subseteq 1..Len(ls)
    BY <1>1, PlacesAreLines
  <1>3. /\ \A i \in OuterOf(ls) : more[i] = ls[i]
        /\ \A i \in StructureOf(ls) : more[i] = ls[i]
    BY <1>1, <1>2
  <1>4. /\ StructureOf(more) = StructureOf(ls) /\ StartsOf(more) = StartsOf(ls)
        /\ \A i : PreviousOf(more, i) = PreviousOf(ls, i)
    BY SameStructure
  <1>5. (\A i \in OuterOf(more) : more[i].kind \notin {"-", "+", " ", "other"}) <=>
        (\A i \in OuterOf(ls) : ls[i].kind \notin {"-", "+", " ", "other"})
    BY <1>3
  <1>6. (\A i \in OuterOf(more) : \E s \in StartsOf(more) : s <= i) <=>
        (\A i \in OuterOf(ls) : \E s \in StartsOf(ls) : s <= i)
    BY <1>4
  <1>7. (\A i \in StructureOf(more) : more[i].kind = "+++" <=> PreviousOf(more, i) = "---") <=>
        (\A i \in StructureOf(ls) : ls[i].kind = "+++" <=> PreviousOf(ls, i) = "---")
    BY <1>3, <1>4
  <1>8. (\A i \in StructureOf(more) : more[i].kind = "@@" => PreviousOf(more, i) \in {"+++", "@@"}) <=>
        (\A i \in StructureOf(ls) : ls[i].kind = "@@" => PreviousOf(ls, i) \in {"+++", "@@"})
    BY <1>3, <1>4
  <1> QED BY <1>5, <1>6, <1>7, <1>8 DEF InOrder

\* A line that starts a file ends those before it.
LEMMA FileBegins ==
    ASSUME NEW ls, NEW more, Longer(ls, more), OuterOf(more) = OuterOf(ls) \cup {Len(ls) + 1},
           StartsOf(more) = StartsOf(ls) \cup {Len(ls) + 1}
    PROVE  /\ \A s \in StartsOf(ls) : FileOf(more, s) = FileOf(ls, s)
           /\ FileOf(more, Len(ls) + 1) = {Len(ls) + 1} /\ FileOf(ls, Len(ls) + 1) = {}
  <1> DEFINE n == Len(ls)
  <1>1. n \in Nat /\ DOMAIN ls = 1..n
    BY DEF Longer
  <1>2. OuterOf(ls) \in SUBSET (1..n) /\ StartsOf(ls) \in SUBSET (1..n)
    BY <1>1, PlacesAreLines
  <1>3. ASSUME NEW s \in StartsOf(ls) PROVE FileOf(more, s) = FileOf(ls, s)
    <2>1. s \in 1..n /\ ~(n + 1 <= s) /\ ~(n + 1 < n + 1)
      BY <1>1, <1>2
    <2>2. \A i \in OuterOf(ls) : i < n + 1
      BY <1>1, <1>2
    <2> QED BY <2>1, <2>2 DEF FileOf
  <1>4. \A i \in OuterOf(ls) : ~(i >= n + 1)
    BY <1>1, <1>2
  <1>5. \A t \in StartsOf(more) : t <= n + 1
    BY <1>1, <1>2
  <1>6. n + 1 >= n + 1
    BY <1>1
  <1>7. FileOf(more, n + 1) = {n + 1}
    BY <1>4, <1>5, <1>6 DEF FileOf
  <1>8. FileOf(ls, n + 1) = {}
    BY <1>4 DEF FileOf
  <1> QED BY <1>3, <1>7, <1>8

\* Any other belongs to the last one.
LEMMA FileGoesOn ==
    ASSUME NEW ls, NEW more, Longer(ls, more), OuterOf(more) = OuterOf(ls) \cup {Len(ls) + 1},
           StartsOf(more) = StartsOf(ls), NEW s \in StartsOf(ls)
    PROVE  FileOf(more, s) = IF \A t \in StartsOf(ls) : t <= s THEN FileOf(ls, s) \cup {Len(ls) + 1}
                                                               ELSE FileOf(ls, s)
  <1> DEFINE n == Len(ls)
  <1>1. n \in Nat /\ DOMAIN ls = 1..n
    BY DEF Longer
  <1>2. StartsOf(ls) \in SUBSET (1..n)
    BY <1>1, PlacesAreLines
  <1>3. n + 1 >= s /\ \A t \in StartsOf(ls) : ~(n + 1 < t)
    BY <1>1, <1>2
  <1> QED BY <1>3 DEF FileOf

LEMMA FilesUnderHunk ==
    ASSUME NEW ls, NEW more, Longer(ls, more), OuterOf(more) = OuterOf(ls),
           NEW fs, NEW pend, NEW at, FilesAt(at, ls, fs, pend)
    PROVE  FilesAt(at, more, fs, pend)
  <1>1. StartsOf(more) = StartsOf(ls)
    BY SameStructure
  <1>2. \A s : (\A kind : HasKind(more, s, kind) <=> HasKind(ls, s, kind)) /\ IndexOf(more, s) = IndexOf(ls, s)
    BY SameFiles, FileStays
  <1>3. \A k \in 1..Len(fs) : Describes(fs[k], more, at[k]) <=> Describes(fs[k], ls, at[k])
    BY <1>2 DEF Describes
  <1> QED BY <1>1, <1>2, <1>3 DEF FilesAt

LEMMA NewFileTyped == NewFile \in PatchFiles
  BY DEF NewFile, PatchFiles

LEMMA AppendIs ==
    ASSUME NEW S, NEW seq \in Seq(S), NEW e \in S
    PROVE  /\ Append(seq, e) \in Seq(S)
           /\ Len(Append(seq, e)) = Len(seq) + 1 /\ Append(seq, e)[Len(seq) + 1] = e
           /\ \A k \in 1..Len(seq) : Append(seq, e)[k] = seq[k]
  OBVIOUS

LEMMA FilesAfterStart ==
    ASSUME NEW ls, NEW more, Longer(ls, more), OuterOf(more) = OuterOf(ls) \cup {Len(ls) + 1},
           StartsOf(more) = StartsOf(ls) \cup {Len(ls) + 1},
           more[Len(ls) + 1].kind \in {"git", "---"},
           NEW fs \in Seq(PatchFiles), NEW at \in [1..Len(fs) -> Nat], FilesAt(at, ls, fs, FALSE)
    PROVE  \E then \in [1..Len(fs) + 1 -> Nat] :
             FilesAt(then, more, Append(fs, NewFile), more[Len(ls) + 1].kind = "---")
  <1> DEFINE n == Len(ls)
             m == Len(fs)
             now == more[n + 1].kind
             then == [k \in 1..m + 1 |-> IF k = m + 1 THEN n + 1 ELSE at[k]]
             all == Append(fs, NewFile)
  <1>1. n \in Nat /\ DOMAIN ls = 1..n /\ m \in Nat
    BY DEF Longer
  <1>2. StartsOf(ls) \in SUBSET (1..n)
    BY <1>1, PlacesAreLines
  <1>3. \A s \in StartsOf(ls) :
          (\A kind : HasKind(more, s, kind) <=> HasKind(ls, s, kind)) /\ IndexOf(more, s) = IndexOf(ls, s)
    BY FileBegins, FileStays
  <1>4. FileOf(more, n + 1) = FileOf(ls, n + 1) \cup {n + 1} /\ FileOf(ls, n + 1) = {}
    BY FileBegins
  <1>5. /\ \A kind : HasKind(more, n + 1, kind) <=> kind = now
        /\ IndexOf(more, n + 1) = "none"
    <2>1. FileOf(more, n + 1) = {n + 1}
      BY <1>4
    <2>2. \A kind : HasKind(more, n + 1, kind) <=> kind = now
      BY <2>1 DEF HasKind
    <2>3. IndexesOf(more, n + 1) = {}
      BY <2>1 DEF IndexesOf
    <2> QED BY <2>2, <2>3 DEF IndexOf
  <1>6. Describes(NewFile, more, n + 1) /\ ~NewFile.text
    <2>1. now \in {"git", "---"}
      OBVIOUS
    <2> HIDE DEF now
    <2> QED BY <1>5, <2>1 DEF Describes, NewFile
  <1>7. Len(all) = m + 1 /\ all[m + 1] = NewFile /\ \A k \in 1..m : all[k] = fs[k]
    BY AppendIs, NewFileTyped
  <1>8. then \in [1..m + 1 -> Nat] /\ then[m + 1] = n + 1 /\ \A k \in 1..m : then[k] = at[k]
    BY <1>1
  <1> HIDE DEF then, all, now
  <1>9. \A k \in 1..m : at[k] \in StartsOf(ls) /\ Describes(fs[k], more, at[k])
    BY <1>3 DEF FilesAt, Describes
  <1>10. \A k \in 1..m + 1 : then[k] \in StartsOf(more) /\ Describes(all[k], more, then[k])
    BY <1>1, <1>6, <1>7, <1>8, <1>9
  <1>11. \A s \in StartsOf(more) : \E k \in 1..m + 1 : then[k] = s
    <2>1. m + 1 \in 1..m + 1 /\ \A k \in 1..m : k \in 1..m + 1
      BY <1>1
    <2>2. \A s \in StartsOf(ls) : \E k \in 1..m : then[k] = s
      BY <1>8 DEF FilesAt
    <2> QED BY <1>8, <2>1, <2>2
  <1>12. \A j, k \in 1..m + 1 : j < k => then[j] < then[k]
    <2> SUFFICES ASSUME NEW j \in 1..m + 1, NEW k \in 1..m + 1, j < k
                 PROVE  then[j] < then[k]
      OBVIOUS
    <2>1. j \in 1..m
      BY <1>1
    <2>2. CASE k = m + 1
      <3>1. at[j] \in 1..n
        BY <1>2, <1>9, <2>1
      <3> QED BY <1>1, <1>8, <2>1, <2>2, <3>1
    <2>3. CASE k # m + 1
      <3>1. k \in 1..m
        BY <1>1, <2>3
      <3> QED BY <1>8, <2>1, <3>1 DEF FilesAt
    <2> QED BY <2>2, <2>3
  <1>13. \A k \in 1..m + 1 :
           HasKind(more, then[k], "---") <=> all[k].text \/ (now = "---" /\ k = m + 1)
    <2> SUFFICES ASSUME NEW k \in 1..m + 1
                 PROVE  HasKind(more, then[k], "---") <=> all[k].text \/ (now = "---" /\ k = m + 1)
      OBVIOUS
    <2>1. CASE k = m + 1
      BY <1>5, <1>6, <1>7, <1>8, <2>1
    <2>2. CASE k # m + 1
      <3>1. k \in 1..m
        BY <1>1, <2>2
      <3>2. HasKind(more, at[k], "---") <=> HasKind(ls, at[k], "---")
        BY <1>3, <1>9, <3>1
      <3>3. HasKind(ls, at[k], "---") <=> fs[k].text
        BY <3>1 DEF FilesAt
      <3> QED BY <1>7, <1>8, <2>2, <3>1, <3>2, <3>3
    <2> QED BY <2>1, <2>2
  <1>14. FilesAt(then, more, all, now = "---")
    BY <1>7, <1>10, <1>11, <1>12, <1>13 DEF FilesAt
  <1> QED BY <1>8, <1>14 DEF all, now

\* The last file takes the line in, and stands if what the parser notes of it is right.
TakesIn(ls, more, s, now) ==
    /\ \A kind : HasKind(more, s, kind) <=> HasKind(ls, s, kind) \/ kind = now
    /\ IndexOf(more, s) = IF now \in {"index", "empty index"} THEN now ELSE IndexOf(ls, s)
StandsWith(at, more, fs) ==
    \A all : \A later \in BOOLEAN :
      /\ Len(all) = Len(fs) /\ \A k \in 1..Len(fs) : k # Len(fs) => all[k] = fs[k]
      /\ Describes(all[Len(fs)], more, at[Len(fs)])
      /\ HasKind(more, at[Len(fs)], "---") <=> all[Len(fs)].text \/ later
      => FilesAt(at, more, all, later)

LEMMA FilesAfterLine ==
    ASSUME NEW ls, NEW more, Longer(ls, more), OuterOf(more) = OuterOf(ls) \cup {Len(ls) + 1},
           StartsOf(more) = StartsOf(ls),
           NEW fs \in Seq(PatchFiles), fs # << >>, NEW at \in [1..Len(fs) -> Nat], NEW pend,
           FilesAt(at, ls, fs, pend)
    PROVE  TakesIn(ls, more, at[Len(fs)], more[Len(ls) + 1].kind) /\ StandsWith(at, more, fs)
  <1> DEFINE n == Len(ls)
             m == Len(fs)
             now == more[n + 1].kind
  <1>1. n \in Nat /\ DOMAIN ls = 1..n /\ m \in Nat /\ m \in 1..m
    BY DEF Longer
  <1>2. \A k \in 1..m : at[k] \in StartsOf(ls) /\ at[k] \in Nat
    BY DEF FilesAt
  <1>3. \A t \in StartsOf(ls) : t <= at[m]
    <2> SUFFICES ASSUME NEW k \in 1..m PROVE at[k] <= at[m]
      BY DEF FilesAt
    <2>1. k = m \/ k < m
      BY <1>1
    <2>2. k < m => at[k] < at[m]
      BY <1>1 DEF FilesAt
    <2> QED BY <1>1, <1>2, <2>1, <2>2
  <1>4. FileOf(more, at[m]) = FileOf(ls, at[m]) \cup {n + 1}
    BY <1>1, <1>2, <1>3, FileGoesOn
  <1>5. \A k \in 1..m : k # m => FileOf(more, at[k]) = FileOf(ls, at[k])
    <2> SUFFICES ASSUME NEW k \in 1..m, k # m PROVE FileOf(more, at[k]) = FileOf(ls, at[k])
      OBVIOUS
    <2>1. at[k] < at[m]
      BY <1>1 DEF FilesAt
    <2>2. ~(at[m] <= at[k])
      BY <1>1, <1>2, <2>1
    <2> QED BY <1>1, <1>2, <2>2, FileGoesOn
  <1>6. /\ \A kind : HasKind(more, at[m], kind) <=> HasKind(ls, at[m], kind) \/ kind = now
        /\ IndexOf(more, at[m]) = IF now \in {"index", "empty index"} THEN now ELSE IndexOf(ls, at[m])
    BY <1>4, FileGrows
  <1>7. \A k \in 1..m : k # m =>
          /\ \A kind : HasKind(more, at[k], kind) <=> HasKind(ls, at[k], kind)
          /\ IndexOf(more, at[k]) = IndexOf(ls, at[k])
    BY <1>5, FileStays
  <1>8. ASSUME NEW all, NEW later \in BOOLEAN,
               Len(all) = m, \A k \in 1..m : k # m => all[k] = fs[k],
               Describes(all[m], more, at[m]), HasKind(more, at[m], "---") <=> all[m].text \/ later
        PROVE  FilesAt(at, more, all, later)
    <2>1. \A k \in 1..m : Describes(all[k], more, at[k])
      <3>1. \A k \in 1..m : k # m => Describes(fs[k], more, at[k])
        BY <1>7 DEF FilesAt, Describes
      <3> QED BY <1>8, <3>1
    <2>2. \A k \in 1..m : HasKind(more, at[k], "---") <=> all[k].text \/ (later /\ k = m)
      <3> SUFFICES ASSUME NEW k \in 1..m
                   PROVE  HasKind(more, at[k], "---") <=> all[k].text \/ (later /\ k = m)
        OBVIOUS
      <3>1. CASE k = m
        BY <1>8, <3>1
      <3>2. CASE k # m
        <4>1. HasKind(ls, at[k], "---") <=> fs[k].text
          BY <3>2 DEF FilesAt
        <4> QED BY <1>7, <1>8, <3>2, <4>1
      <3> QED BY <3>1, <3>2
    <2> QED BY <1>2, <1>8, <2>1, <2>2 DEF FilesAt
  <1> QED BY <1>6, <1>8 DEF TakesIn, StandsWith

-----------------------------------------------------------------------------
(* The hunk that is open *)

LEMMA OpenHasNoEnd ==
    ASSUME NEW ls, Len(ls) \in Nat, DOMAIN ls = 1..Len(ls),
           NEW rest \in Nat \X Nat, rest # <<0, 0>>, HunksOK(ls, rest)
    PROVE  \E open \in HunksOf(ls) :
             /\ EndsOf(ls, open) = {} /\ open \in 1..Len(ls)
             /\ \A g \in HunksOf(ls) : g # open => EndsOf(ls, g) # {}
             /\ \A i \in open + 1..Len(ls) : Removes(ls[i].kind) \/ Adds(ls[i].kind)
             /\ Cardinality(RemovedIn(ls, open, Len(ls))) + rest[1] = ls[open].counts[1]
             /\ Cardinality(AddedIn(ls, open, Len(ls))) + rest[2] = ls[open].counts[2]
  <1> DEFINE n == Len(ls)
  <1>1. PICK open \in HunksOf(ls) :
          /\ \A g \in HunksOf(ls) : g # open => EndsOf(ls, g) # {}
          /\ \A i \in open + 1..n : Removes(ls[i].kind) \/ Adds(ls[i].kind)
          /\ Cardinality(RemovedIn(ls, open, n)) + rest[1] = ls[open].counts[1]
          /\ Cardinality(AddedIn(ls, open, n)) + rest[2] = ls[open].counts[2]
    BY DEF HunksOK
  <1>2. open \in 1..n /\ open \in Nat
    BY DEF HunksOf
  <1>3. ASSUME NEW to \in EndsOf(ls, open) PROVE FALSE
    <2>1. to \in open..n /\ to \in Nat
      BY <1>2 DEF EndsOf
    <2>2. /\ Cardinality(RemovedIn(ls, open, to)) = ls[open].counts[1]
          /\ Cardinality(AddedIn(ls, open, to)) = ls[open].counts[2]
      BY DEF EndsOf
    <2>3. /\ RemovedIn(ls, open, to) \subseteq RemovedIn(ls, open, n)
          /\ AddedIn(ls, open, to) \subseteq AddedIn(ls, open, n)
      BY <1>2, <2>1 DEF RemovedIn, AddedIn
    <2>4. /\ IsFiniteSet(RemovedIn(ls, open, n)) /\ Cardinality(RemovedIn(ls, open, n)) \in Nat
          /\ IsFiniteSet(AddedIn(ls, open, n)) /\ Cardinality(AddedIn(ls, open, n)) \in Nat
          /\ Cardinality(RemovedIn(ls, open, to)) \in Nat /\ Cardinality(AddedIn(ls, open, to)) \in Nat
      BY <1>2, <2>1, CountsAreFinite
    <2>5. /\ Cardinality(RemovedIn(ls, open, to)) <= Cardinality(RemovedIn(ls, open, n))
          /\ Cardinality(AddedIn(ls, open, to)) <= Cardinality(AddedIn(ls, open, n))
      BY <2>3, <2>4, FS_Subset
    <2>6. rest[1] \in Nat /\ rest[2] \in Nat /\ ~(rest[1] = 0 /\ rest[2] = 0)
      OBVIOUS
    <2> QED BY <1>1, <2>2, <2>4, <2>5, <2>6
  <1> QED BY <1>1, <1>2, <1>3

LEMMA NoHunkOpens ==
    ASSUME NEW ls, NEW more, Longer(ls, more), HunksOK(ls, <<0, 0>>)
    PROVE  /\ OuterOf(more) = OuterOf(ls) \cup {Len(ls) + 1}
           /\ more[Len(ls) + 1].kind # "@@" => HunksOK(more, <<0, 0>>)
  <1>1. \A h \in HunksOf(ls) : EndsOf(ls, h) # {} /\ h \in 1..Len(ls)
    BY HunksGrow DEF HunksOK
  <1>2. OuterOf(more) = OuterOf(ls) \cup {Len(ls) + 1}
    BY <1>1, OuterGrows
  <1>3. Len(ls) \in Nat
    BY DEF Longer
  <1>4. more[Len(ls) + 1].kind # "@@" => HunksOf(more) = HunksOf(ls)
    BY <1>3, HunksGrow
  <1>5. \A h \in HunksOf(ls) : EndsOf(more, h) # {}
    BY <1>1, EndsStay
  <1> QED BY <1>2, <1>4, <1>5 DEF HunksOK

LEMMA HunkOpens ==
    ASSUME NEW ls, NEW more, Longer(ls, more), HunksOK(ls, <<0, 0>>),
           more[Len(ls) + 1].kind = "@@", more[Len(ls) + 1].counts \in Nat \X Nat
    PROVE  HunksOK(more, more[Len(ls) + 1].counts)
  <1> DEFINE n == Len(ls)
             counts == more[n + 1].counts
  <1>1. n \in Nat /\ Len(more) = n + 1
    BY DEF Longer
  <1>2. \A h \in HunksOf(ls) : EndsOf(ls, h) # {} /\ h \in 1..n
    BY HunksGrow DEF HunksOK
  <1>3. \A h \in HunksOf(ls) : EndsOf(more, h) # {}
    BY <1>2, EndsStay
  <1>4. HunksOf(more) = HunksOf(ls) \cup {n + 1} /\ n + 1 \in HunksOf(more)
    BY <1>1, HunksGrow
  <1>5. RemovedIn(more, n + 1, n + 1) = {} /\ AddedIn(more, n + 1, n + 1) = {} /\ n + 1 + 1..n + 1 = {}
    BY <1>1 DEF RemovedIn, AddedIn
  <1>6. /\ Cardinality(RemovedIn(more, n + 1, n + 1)) = 0
        /\ Cardinality(AddedIn(more, n + 1, n + 1)) = 0
    BY <1>5, FS_EmptySet
  <1> HIDE DEF counts
  <1>7. CASE counts = <<0, 0>>
    <2>1. n + 1 \in EndsOf(more, n + 1)
      BY <1>1, <1>5, <1>6, <1>7 DEF EndsOf, counts
    <2> QED BY <1>3, <1>4, <1>7, <2>1 DEF HunksOK, counts
  <1>8. CASE counts # <<0, 0>>
    <2>1. \A g \in HunksOf(more) : g # n + 1 => EndsOf(more, g) # {}
      BY <1>3, <1>4
    <2>2. \A i \in n + 1 + 1..Len(more) : Removes(more[i].kind) \/ Adds(more[i].kind)
      BY <1>1, <1>5
    <2>3. counts[1] \in Nat /\ counts[2] \in Nat
      BY DEF counts
    <2>4. 0 + counts[1] = counts[1] /\ 0 + counts[2] = counts[2]
      BY <2>3
    <2> QED BY <1>1, <1>4, <1>6, <1>8, <2>1, <2>2, <2>4 DEF HunksOK, counts
  <1> QED BY <1>7, <1>8

LEMMA MovedOver ==
    ASSUME NEW a \in Nat, NEW b \in Nat, NEW d \in Nat
    PROVE  (a + d) + (b - d) = a + b
  OBVIOUS

LEMMA HunkGoesOn ==
    ASSUME ParserConstants, NEW ls, NEW more, Longer(ls, more), NEW rest \in Nat \X Nat, rest # <<0, 0>>,
           HunksOK(ls, rest), NEW now \in Nat \X Nat,
           Removes(more[Len(ls) + 1].kind) \/ Adds(more[Len(ls) + 1].kind),
           now = <<rest[1] - (IF Removes(more[Len(ls) + 1].kind) THEN 1 ELSE 0),
                   rest[2] - (IF Adds(more[Len(ls) + 1].kind) THEN 1 ELSE 0)>>
    PROVE  OuterOf(more) = OuterOf(ls) /\ HunksOK(more, now)
  <1> DEFINE n == Len(ls)
             kind == more[n + 1].kind
             gone == IF Removes(kind) THEN 1 ELSE 0
             come == IF Adds(kind) THEN 1 ELSE 0
  <1>1. n \in Nat /\ Len(more) = n + 1 /\ DOMAIN ls = 1..n /\ \A k \in 1..n : more[k] = ls[k]
    BY DEF Longer
  <1>2. PICK open \in HunksOf(ls) :
          /\ EndsOf(ls, open) = {} /\ open \in 1..n
          /\ \A g \in HunksOf(ls) : g # open => EndsOf(ls, g) # {}
          /\ \A i \in open + 1..n : Removes(ls[i].kind) \/ Adds(ls[i].kind)
          /\ Cardinality(RemovedIn(ls, open, n)) + rest[1] = ls[open].counts[1]
          /\ Cardinality(AddedIn(ls, open, n)) + rest[2] = ls[open].counts[2]
    BY <1>1, OpenHasNoEnd
  <1>3. OuterOf(more) = OuterOf(ls)
    BY <1>2, OuterStays
  <1>4. kind # "@@"
    BY DEF Removes, Adds
  <1>5. HunksOf(more) = HunksOf(ls)
    BY <1>1, <1>4, HunksGrow
  <1>6. \A g \in HunksOf(more) : g # open => EndsOf(more, g) # {}
    <2>1. \A g \in HunksOf(ls) : g \in 1..n
      BY HunksGrow
    <2> QED BY <1>2, <1>5, <2>1, EndsStay
  <1>7. \A i \in open + 1..n + 1 : Removes(more[i].kind) \/ Adds(more[i].kind)
    <2>1. n \in Nat /\ open \in 1..n
      BY <1>1, <1>2
    <2>2. Removes(more[n + 1].kind) \/ Adds(more[n + 1].kind)
      OBVIOUS
    <2> HIDE DEF n, kind, gone, come
    <2>3. \A i \in open + 1..n + 1 : i = n + 1 \/ (i \in open + 1..n /\ i \in 1..n)
      BY <2>1
    <2> QED BY <1>1, <1>2, <2>2, <2>3
  <1> HIDE DEF kind
  <1>8. /\ Cardinality(RemovedIn(more, open, n + 1)) = Cardinality(RemovedIn(ls, open, n)) + gone
        /\ Cardinality(AddedIn(more, open, n + 1)) = Cardinality(AddedIn(ls, open, n)) + come
    BY <1>2, CountsGrow DEF kind
  <1>9. now[1] = rest[1] - gone /\ now[2] = rest[2] - come /\ more[open] = ls[open]
    BY <1>1, <1>2 DEF kind
  <1>10. /\ Cardinality(RemovedIn(ls, open, n)) \in Nat /\ Cardinality(AddedIn(ls, open, n)) \in Nat
         /\ gone \in Nat /\ come \in Nat /\ rest[1] \in Nat /\ rest[2] \in Nat
    BY <1>1, <1>2, CountsAreFinite
  <1> HIDE DEF gone, come
  <1>11. /\ Cardinality(RemovedIn(more, open, n + 1)) + now[1] = more[open].counts[1]
         /\ Cardinality(AddedIn(more, open, n + 1)) + now[2] = more[open].counts[2]
    <2>1. Cardinality(RemovedIn(more, open, n + 1)) + now[1] = Cardinality(RemovedIn(ls, open, n)) + rest[1]
      BY <1>8, <1>9, <1>10, MovedOver
    <2>2. Cardinality(AddedIn(more, open, n + 1)) + now[2] = Cardinality(AddedIn(ls, open, n)) + rest[2]
      BY <1>8, <1>9, <1>10, MovedOver
    <2> QED BY <1>2, <1>9, <2>1, <2>2
  <1>12. CASE now = <<0, 0>>
    <2>1. more[open].counts \in Nat \X Nat
      <3>1. more[open] \in PatchLines
        BY <1>1, <1>2 DEF Longer
      <3> QED BY <3>1, LineTypes
    <2>2. /\ Cardinality(RemovedIn(more, open, n + 1)) \in Nat
          /\ Cardinality(AddedIn(more, open, n + 1)) \in Nat
      BY <1>1, <1>2, CountsAreFinite
    <2>3. now[1] = 0 /\ now[2] = 0
      BY <1>12
    <2>4. /\ Cardinality(RemovedIn(more, open, n + 1)) = more[open].counts[1]
          /\ Cardinality(AddedIn(more, open, n + 1)) = more[open].counts[2]
      BY <1>11, <2>2, <2>3
    <2>5. n + 1 \in open..n + 1
      BY <1>1, <1>2
    <2>6. n + 1 \in EndsOf(more, open)
      BY <1>1, <1>7, <2>1, <2>4, <2>5 DEF EndsOf
    <2> QED BY <1>3, <1>6, <1>12, <2>6 DEF HunksOK
  <1>13. CASE now # <<0, 0>>
    BY <1>1, <1>3, <1>5, <1>6, <1>7, <1>11, <1>13 DEF HunksOK
  <1> QED BY <1>12, <1>13

-----------------------------------------------------------------------------
(* A line that is read *)

ReadingOn ==
    /\ PatchTypesOK' /\ left' \in Nat \X Nat
    /\ Reading(lines', files', pending', headers', left')
    /\ InHunk' => headers' /\ Last(files').hunks > 0
    /\ ~(pending' /\ headers')
    /\ Len(files') <= Len(lines')

\* What every line has to go on with.
Going(line) ==
    /\ ParserConstants /\ PatchInv /\ result = "reading"
    /\ line \in PatchLines /\ lines' = Append(lines, line)

LEMMA GoingIs ==
    ASSUME NEW line, Going(line)
    PROVE  /\ Longer(lines, lines') /\ lines'[Len(lines) + 1] = line /\ lines' \in Seq(PatchLines)
           /\ Len(lines) \in Nat /\ Len(lines') = Len(lines) + 1
           /\ PatchTypesOK /\ Reading(lines, files, pending, headers, left)
           /\ left \in Nat \X Nat /\ ~(pending /\ headers) /\ Len(files) <= Len(lines)
           /\ InHunk => headers /\ Last(files).hunks > 0
  <1>1. lines \in Seq(PatchLines)
    BY DEF Going, PatchInv, PatchTypesOK
  <1>2. Len(lines) \in Nat
    BY <1>1
  <1> QED BY <1>1, <1>2, AppendIsLonger DEF Going, PatchInv, ParserTypeOK, Longer

LEMMA HunkLineReads ==
    ASSUME NEW line, Going(line), HunkLine(line)
    PROVE  ReadingOn
  <1>1. /\ Longer(lines, lines') /\ lines'[Len(lines) + 1] = line
        /\ HunksOK(lines, left) /\ left \in Nat \X Nat /\ left # <<0, 0>>
    BY GoingIs DEF Reading, HunkLine, InHunk
  <1>2. left' \in Nat \X Nat
    BY <1>1 DEF HunkLine
  <1>3. OuterOf(lines') = OuterOf(lines) /\ HunksOK(lines', left')
    BY <1>1, <1>2, HunkGoesOn DEF HunkLine, Going
  <1>4. PreviousOf(lines', Len(lines') + 1) = PreviousOf(lines, Len(lines) + 1)
    BY <1>1, <1>3, SameStructure
  <1>5. InOrder(lines')
    BY <1>1, <1>3, GoingIs, SameOrder DEF Reading
  <1>6. UNCHANGED <<files, pending, headers>>
    BY DEF HunkLine
  <1>7. StructureOK(lines', files', pending', headers')
    BY <1>4, <1>6, GoingIs DEF Reading, StructureOK
  <1>8. \E at \in [1..Len(files') -> Nat] : FilesAt(at, lines', files', pending')
    BY <1>1, <1>3, <1>6, GoingIs, FilesUnderHunk DEF Reading
  <1>9. PatchTypesOK'
    BY <1>6, GoingIs DEF PatchTypesOK
  <1>10. InHunk' => headers' /\ Last(files').hunks > 0
    BY <1>1, <1>6, GoingIs DEF InHunk
  <1>11. ~(pending' /\ headers') /\ Len(files') <= Len(lines')
    <2>1. Len(files) \in Nat
      BY GoingIs DEF PatchTypesOK
    <2> QED BY <1>6, <2>1, GoingIs
  <1> QED BY <1>2, <1>3, <1>5, <1>7, <1>8, <1>9, <1>10, <1>11 DEF ReadingOn, Reading

\* A line outside of the hunks, its place in the structure.
LEMMA OutsideIs ==
    ASSUME NEW line, Going(line), ~InHunk
    PROVE  /\ HunksOK(lines, <<0, 0>>) /\ OuterOf(lines') = OuterOf(lines) \cup {Len(lines) + 1}
           /\ line.kind # "@@" => HunksOK(lines', <<0, 0>>)
           /\ InOrder(lines') <=> Fits(lines, line.kind)
           /\ PreviousOf(lines', Len(lines') + 1) =
                IF line.kind \in Structural THEN line.kind ELSE PreviousOf(lines, Len(lines) + 1)
           /\ StartsOf(lines') =
                IF line.kind = "git" \/ (line.kind = "---" /\ PreviousOf(lines, Len(lines) + 1) # "git")
                THEN StartsOf(lines) \cup {Len(lines) + 1} ELSE StartsOf(lines)
  <1>1. HunksOK(lines, <<0, 0>>)
    BY GoingIs DEF InHunk, Reading
  <1>2. OuterOf(lines') = OuterOf(lines) \cup {Len(lines) + 1} /\ (line.kind # "@@" => HunksOK(lines', <<0, 0>>))
    BY <1>1, GoingIs, NoHunkOpens
  <1>3. InOrder(lines') <=> Fits(lines, line.kind)
    BY <1>2, GoingIs, OrderGrows DEF Reading
  <1> QED BY <1>1, <1>2, <1>3, GoingIs, StructureGrows

\* Before a line of metadata, of new names or of a hunk there is a file.
LEMMA FileIsThere ==
    ASSUME PatchTypesOK, Reading(lines, files, pending, headers, left), files # << >>
    PROVE  StartsOf(lines) # {} /\ Len(files) \in 1..Len(files) /\ Len(files) \in Nat
  <1>1. PICK at \in [1..Len(files) -> Nat] : FilesAt(at, lines, files, pending)
    BY DEF Reading
  <1>2. Len(files) \in Nat /\ Len(files) \in 1..Len(files)
    BY DEF PatchTypesOK
  <1> QED BY <1>1, <1>2 DEF FilesAt

\* A line that starts a file.
LEMMA StartReads ==
    ASSUME NEW line, Going(line), ~InHunk, ~pending,
           \/ line.kind = "git"
           \/ line.kind = "---" /\ (files = << >> \/ headers),
           files' = Append(files, NewFile), pending' = (line.kind = "---"), ~headers', UNCHANGED left,
           headers' \in BOOLEAN
    PROVE  ReadingOn
  <1> DEFINE last == PreviousOf(lines, Len(lines) + 1)
  <1>1. /\ Longer(lines, lines') /\ lines'[Len(lines) + 1] = line
        /\ StructureOK(lines, files, FALSE, headers)
    BY GoingIs DEF Reading, PatchTypesOK
  <1>2. line.kind = "---" => last # "git"
    BY <1>1 DEF StructureOK
  <1>3. last # "---"
    BY <1>1 DEF StructureOK
  <1> HIDE DEF last
  <1>4. StartsOf(lines') = StartsOf(lines) \cup {Len(lines) + 1}
    BY <1>2, OutsideIs DEF last
  <1>5. InOrder(lines')
    BY <1>2, <1>3, OutsideIs DEF Fits, last, Structural
  <1>6. PICK at \in [1..Len(files) -> Nat] : FilesAt(at, lines, files, pending)
    BY GoingIs DEF Reading
  <1>7. files \in Seq(PatchFiles) /\ pending = FALSE
    BY GoingIs DEF PatchTypesOK
  <1>8. /\ files' \in Seq(PatchFiles) /\ Len(files') = Len(files) + 1 /\ Len(files) \in Nat
        /\ files'[Len(files')] = NewFile
    BY <1>7, AppendIs, NewFileTyped
  <1>9. \E then \in [1..Len(files) + 1 -> Nat] : FilesAt(then, lines', files', pending')
    <2>1. FilesAt(at, lines, files, FALSE)
      BY <1>6, <1>7
    <2> QED BY <1>1, <1>4, <1>7, <2>1, OutsideIs, FilesAfterStart
  <1>10. StructureOK(lines', files', pending', headers')
    <2>1. PreviousOf(lines', Len(lines') + 1) = line.kind
      BY OutsideIs DEF Structural
    <2>2. files' # << >> /\ files'[Len(files')].hunks = 0
      BY <1>8 DEF NewFile
    <2> QED BY <2>1, <2>2 DEF StructureOK
  <1>11. PatchTypesOK' /\ left' \in Nat \X Nat /\ ~InHunk'
    BY <1>8, GoingIs DEF PatchTypesOK, InHunk
  <1>12. HunksOK(lines', left')
    BY OutsideIs DEF InHunk
  <1>13. Len(files') <= Len(lines')
    BY <1>8, GoingIs
  <1> QED BY <1>5, <1>8, <1>9, <1>10, <1>11, <1>12, <1>13 DEF ReadingOn, Reading

LEMMA PreviousIs ==
    ASSUME NEW ls, Len(ls) \in Nat, DOMAIN ls = 1..Len(ls), NEW i
    PROVE  PreviousOf(ls, i) \in Structural \cup {"none"}
  <1> DEFINE before == {j \in StructureOf(ls) : j < i}
  <1>1. before \in SUBSET (1..Len(ls))
    BY PlacesAreLines
  <1>2. before # {} => LastOf(before) \in StructureOf(ls)
    BY <1>1, LastExists
  <1>3. \A j \in StructureOf(ls) : ls[j].kind \in Structural
    BY DEF StructureOf, Structural
  <1> QED BY <1>2, <1>3 DEF PreviousOf

\* What the parser notes of a file agrees with its lines.
NotesOf(f, ls, s, pend) == Describes(f, ls, s) /\ (HasKind(ls, s, "---") <=> f.text \/ pend)

\* A line that goes on with the last file.
LEMMA LineReads ==
    ASSUME NEW line, Going(line), ~InHunk, files # << >>,
           NEW f \in PatchFiles, files' = [files EXCEPT ![Len(files)] = f],
           pending' \in BOOLEAN, headers' \in BOOLEAN, left' \in Nat \X Nat,
           StartsOf(lines') = StartsOf(lines), InOrder(lines'), HunksOK(lines', left'),
           LET last == PreviousOf(lines', Len(lines') + 1) IN
             /\ pending' <=> last = "---"
             /\ headers' <=> last \in {"+++", "@@"}
             /\ last # "none"
             /\ ~headers' => f.hunks = 0,
           InHunk' => headers' /\ f.hunks > 0,
           \A s : NotesOf(files[Len(files)], lines, s, pending) /\ TakesIn(lines, lines', s, line.kind)
                  => NotesOf(f, lines', s, pending')
    PROVE  ReadingOn
  <1> DEFINE m == Len(files)
  <1>1. files \in Seq(PatchFiles) /\ m \in Nat /\ m \in 1..m
    BY GoingIs, FileIsThere DEF PatchTypesOK
  <1>2. /\ files' \in Seq(PatchFiles) /\ Len(files') = m /\ files'[m] = f /\ files' # << >>
        /\ \A k \in 1..m : k # m => files'[k] = files[k]
    BY <1>1
  <1>3. \E at \in [1..Len(files') -> Nat] : FilesAt(at, lines', files', pending')
    <2>1. PICK at \in [1..m -> Nat] : FilesAt(at, lines, files, pending)
      BY GoingIs DEF Reading
    <2>2. /\ Longer(lines, lines') /\ OuterOf(lines') = OuterOf(lines) \cup {Len(lines) + 1}
          /\ lines'[Len(lines) + 1] = line
      BY GoingIs, OutsideIs
    <2>3. TakesIn(lines, lines', at[m], line.kind) /\ StandsWith(at, lines', files)
      BY <1>1, <2>1, <2>2, FilesAfterLine
    <2>4. NotesOf(files[m], lines, at[m], pending)
      BY <1>1, <2>1 DEF FilesAt, NotesOf
    <2>5. NotesOf(f, lines', at[m], pending')
      BY <2>3, <2>4
    <2>6. FilesAt(at, lines', files', pending')
      BY <1>2, <2>3, <2>5 DEF NotesOf, StandsWith
    <2> QED BY <1>2, <2>1, <2>6
  <1>4. StructureOK(lines', files', pending', headers')
    BY <1>2 DEF StructureOK
  <1>5. PatchTypesOK'
    BY <1>2, GoingIs DEF PatchTypesOK
  <1>6. InHunk' => headers' /\ Last(files').hunks > 0
    BY <1>2 DEF Last
  <1>7. ~(pending' /\ headers')
    BY <1>4 DEF StructureOK
  <1>8. Len(files') <= Len(lines')
    <2>1. m <= Len(lines) /\ Len(lines') = Len(lines) + 1 /\ Len(lines) \in Nat
      BY GoingIs
    <2>2. m <= Len(lines) + 1
      BY <1>1, <2>1
    <2> QED BY <1>2, <2>1, <2>2
  <1> QED BY <1>3, <1>4, <1>5, <1>6, <1>7, <1>8 DEF ReadingOn, Reading

\* The last file and the last line of structure, as they are before such a line.
LEMMA LastFileIs ==
    ASSUME NEW line, Going(line), ~InHunk, files # << >>
    PROVE  LET last == PreviousOf(lines, Len(lines) + 1) IN
           /\ files[Len(files)] \in PatchFiles /\ Len(files) \in 1..Len(files) /\ Len(files) \in Nat
           /\ StartsOf(lines) # {} /\ Last(files) = files[Len(files)]
           /\ pending <=> last = "---"
           /\ headers <=> last \in {"+++", "@@"}
           /\ last \in Structural
           /\ ~headers => files[Len(files)].hunks = 0
  <1>1. files \in Seq(PatchFiles) /\ Len(files) \in 1..Len(files) /\ StartsOf(lines) # {} /\ Len(files) \in Nat
    BY GoingIs, FileIsThere DEF PatchTypesOK
  <1>2. files[Len(files)] \in PatchFiles
    BY <1>1
  <1>3. PreviousOf(lines, Len(lines) + 1) \in Structural \cup {"none"}
    BY GoingIs, PreviousIs DEF Longer
  <1>4. StructureOK(lines, files, pending, headers)
    BY GoingIs DEF Reading
  <1> QED BY <1>1, <1>2, <1>3, <1>4 DEF StructureOK, Last

LEMMA OldNameReads ==
    ASSUME NEW line, Going(line), ~InHunk, OldHeader(line), ~(files = << >> \/ headers)
    PROVE  ReadingOn
  <1> DEFINE last == PreviousOf(lines, Len(lines) + 1)
             f == files[Len(files)]
  <1>1. /\ f \in PatchFiles /\ Len(files) \in 1..Len(files) /\ StartsOf(lines) # {} /\ f.hunks = 0
        /\ last = "git"
    BY LastFileIs DEF OldHeader, Structural
  <1>2. /\ line.kind = "---" /\ files' = files /\ pending' = TRUE /\ headers' = FALSE /\ left' = left
        /\ pending = FALSE
    BY GoingIs DEF OldHeader, PatchTypesOK
  <1>3. files' = [files EXCEPT ![Len(files)] = f]
    BY <1>1, <1>2, GoingIs DEF PatchTypesOK
  <1>4. StartsOf(lines') = StartsOf(lines) /\ PreviousOf(lines', Len(lines') + 1) = "---"
    BY <1>1, <1>2, OutsideIs DEF Structural
  <1>5. InOrder(lines')
    BY <1>1, <1>2, OutsideIs DEF Fits, Structural
  <1>6. HunksOK(lines', left') /\ left' \in Nat \X Nat /\ ~InHunk'
    BY <1>2, OutsideIs, GoingIs DEF InHunk
  <1>7. ASSUME NEW s, NotesOf(f, lines, s, pending), TakesIn(lines, lines', s, line.kind)
        PROVE  NotesOf(f, lines', s, pending')
    BY <1>2, <1>7 DEF NotesOf, TakesIn, Describes
  <1> HIDE DEF f, last
  <1> QED BY <1>1, <1>2, <1>3, <1>4, <1>5, <1>6, <1>7, LineReads DEF f

LEMMA NewNameReads ==
    ASSUME NEW line, Going(line), ~InHunk, NewHeader(line)
    PROVE  ReadingOn
  <1> DEFINE last == PreviousOf(lines, Len(lines) + 1)
             old == files[Len(files)]
             f == [old EXCEPT !.text = TRUE]
  <1>1. files # << >>
    BY GoingIs DEF Reading, StructureOK, NewHeader
  <1>2. /\ old \in PatchFiles /\ Len(files) \in 1..Len(files) /\ StartsOf(lines) # {}
        /\ last = "---"
    BY <1>1, LastFileIs DEF NewHeader
  <1>3. /\ line.kind = "+++" /\ pending' = FALSE /\ headers' = TRUE /\ left' = left
        /\ pending = TRUE
    BY GoingIs DEF NewHeader, PatchTypesOK
  <1>4. f \in PatchFiles /\ files' = [files EXCEPT ![Len(files)] = f]
    BY <1>2 DEF NewHeader, PatchFiles
  <1>5. StartsOf(lines') = StartsOf(lines) /\ PreviousOf(lines', Len(lines') + 1) = "+++"
    BY <1>3, OutsideIs DEF Structural
  <1>6. InOrder(lines')
    BY <1>2, <1>3, OutsideIs DEF Fits, Structural
  <1>7. HunksOK(lines', left') /\ left' \in Nat \X Nat /\ ~InHunk'
    BY <1>3, OutsideIs, GoingIs DEF InHunk
  <1>8. /\ f.hunks = old.hunks /\ f.text = TRUE /\ f.metadata = old.metadata /\ f.empty = old.empty
        /\ f.binary = old.binary /\ f.index = old.index
    BY <1>2 DEF PatchFiles
  <1>9. ASSUME NEW s, NotesOf(old, lines, s, pending), TakesIn(lines, lines', s, line.kind)
        PROVE  NotesOf(f, lines', s, pending')
    <2> HIDE DEF f, old
    <2> QED BY <1>3, <1>8, <1>9 DEF NotesOf, TakesIn, Describes
  <1> HIDE DEF f, last
  <1> QED BY <1>1, <1>2, <1>3, <1>4, <1>5, <1>6, <1>7, <1>8, <1>9, LineReads DEF old

LEMMA OneHunkMore ==
    ASSUME NEW old \in PatchFiles
    PROVE  LET f == [old EXCEPT !.hunks = old.hunks + 1] IN f \in PatchFiles /\ f.hunks > 0
  <1>1. old.hunks \in Nat
    BY DEF PatchFiles
  <1>2. \A n \in Nat : n + 1 \in Nat /\ n + 1 > 0
    OBVIOUS
  <1>3. \A n \in Nat : [old EXCEPT !.hunks = n] \in PatchFiles
    BY DEF PatchFiles
  <1>4. \A n \in Nat : [old EXCEPT !.hunks = n].hunks = n
    BY DEF PatchFiles
  <1> QED BY <1>1, <1>2, <1>3, <1>4

LEMMA HunkHeaderReads ==
    ASSUME NEW line, Going(line), ~InHunk, HunkHeader(line)
    PROVE  ReadingOn
  <1> DEFINE last == PreviousOf(lines, Len(lines) + 1)
             old == files[Len(files)]
             f == [old EXCEPT !.hunks = old.hunks + 1]
  <1>1. files # << >>
    BY GoingIs DEF Reading, StructureOK, HunkHeader
  <1>2. /\ old \in PatchFiles /\ Len(files) \in 1..Len(files) /\ StartsOf(lines) # {}
        /\ last \in {"+++", "@@"}
    BY <1>1, LastFileIs DEF HunkHeader
  <1>3. /\ line.kind = "@@" /\ pending' = pending /\ headers' = TRUE /\ left' = line.counts
        /\ pending = FALSE /\ line.counts \in Nat \X Nat
    BY GoingIs, LineTypes DEF HunkHeader, PatchTypesOK, Going
  <1>4. f \in PatchFiles /\ files' = [files EXCEPT ![Len(files)] = f] /\ f.hunks > 0
    <2>1. f \in PatchFiles /\ f.hunks > 0
      BY <1>2, OneHunkMore
    <2>2. files' = [files EXCEPT ![Len(files)] = f]
      BY <1>2 DEF HunkHeader
    <2> HIDE DEF f, old
    <2> QED BY <2>1, <2>2
  <1>5. StartsOf(lines') = StartsOf(lines) /\ PreviousOf(lines', Len(lines') + 1) = "@@"
    BY <1>3, OutsideIs DEF Structural
  <1>6. InOrder(lines')
    BY <1>2, <1>3, OutsideIs DEF Fits, Structural
  <1>7. HunksOK(lines', left') /\ left' \in Nat \X Nat
    BY <1>3, OutsideIs, GoingIs, HunkOpens
  <1>8. /\ f.text = old.text /\ f.metadata = old.metadata /\ f.empty = old.empty
        /\ f.binary = old.binary /\ f.index = old.index
    BY <1>2 DEF PatchFiles
  <1>9. ASSUME NEW s, NotesOf(old, lines, s, pending), TakesIn(lines, lines', s, line.kind)
        PROVE  NotesOf(f, lines', s, pending')
    <2> HIDE DEF f, old
    <2> QED BY <1>3, <1>4, <1>8, <1>9 DEF NotesOf, TakesIn, Describes
  <1> HIDE DEF f, last
  <1> QED BY <1>1, <1>2, <1>3, <1>4, <1>5, <1>6, <1>7, <1>8, <1>9, LineReads DEF old

Meta == {"deleted", "mode", "binary", "index", "empty index"}

\* What a line of metadata leaves in the file.
Noted(old, kind) ==
    [old EXCEPT !.metadata = @ \/ kind \in {"deleted", "mode", "binary"},
                !.empty = @ \/ kind = "deleted",
                !.binary = @ \/ kind = "binary",
                !.index = IF kind \in {"index", "empty index"} THEN kind ELSE @]

NotedAs(f, old, kind) ==
    /\ f.hunks = old.hunks /\ f.text = old.text
    /\ f.metadata <=> old.metadata \/ kind \in {"deleted", "mode", "binary"}
    /\ f.empty <=> old.empty \/ kind = "deleted"
    /\ f.binary <=> old.binary \/ kind = "binary"
    /\ f.index = IF kind \in {"index", "empty index"} THEN kind ELSE old.index

LEMMA NotedIs ==
    ASSUME NEW old \in PatchFiles, NEW kind \in Meta
    PROVE  Noted(old, kind) \in PatchFiles /\ NotedAs(Noted(old, kind), old, kind)
  BY DEF Noted, NotedAs, PatchFiles, Meta

LEMMA MetadataIs ==
    ASSUME NEW line, line.kind \in Meta, Metadata(line), Last(files) \in PatchFiles
    PROVE  files' = [files EXCEPT ![Len(files)] = Noted(Last(files), line.kind)]
  <1> DEFINE f == Last(files)
  <1>1. CASE line.kind = "deleted"
    <2>1. files' = [files EXCEPT ![Len(files)] = [f EXCEPT !.metadata = TRUE, !.empty = TRUE]]
      BY <1>1 DEF Metadata
    <2>2. [f EXCEPT !.metadata = TRUE, !.empty = TRUE] = Noted(f, line.kind)
      BY <1>1 DEF Noted, PatchFiles
    <2> QED BY <2>1, <2>2
  <1>2. CASE line.kind = "mode"
    <2>1. files' = [files EXCEPT ![Len(files)] = [f EXCEPT !.metadata = TRUE]]
      BY <1>2 DEF Metadata
    <2>2. [f EXCEPT !.metadata = TRUE] = Noted(f, line.kind)
      BY <1>2 DEF Noted, PatchFiles
    <2> QED BY <2>1, <2>2
  <1>3. CASE line.kind = "binary"
    <2>1. files' = [files EXCEPT ![Len(files)] = [f EXCEPT !.metadata = TRUE, !.binary = TRUE]]
      BY <1>3 DEF Metadata
    <2>2. [f EXCEPT !.metadata = TRUE, !.binary = TRUE] = Noted(f, line.kind)
      BY <1>3 DEF Noted, PatchFiles
    <2> QED BY <2>1, <2>2
  <1>4. CASE line.kind \in {"index", "empty index"}
    <2>1. files' = [files EXCEPT ![Len(files)] = [f EXCEPT !.index = line.kind]]
      BY <1>4 DEF Metadata
    <2>2. [f EXCEPT !.index = line.kind] = Noted(f, line.kind)
      BY <1>4 DEF Noted, PatchFiles
    <2> QED BY <2>1, <2>2
  <1> QED BY <1>1, <1>2, <1>3, <1>4 DEF Meta

LEMMA MetadataReads ==
    ASSUME NEW line, Going(line), ~InHunk, line.kind \in Meta, Metadata(line)
    PROVE  ReadingOn
  <1> DEFINE last == PreviousOf(lines, Len(lines) + 1)
             old == files[Len(files)]
             f == Noted(old, line.kind)
  <1>1. files # << >>
    BY DEF Metadata
  <1>2. /\ old \in PatchFiles /\ Len(files) \in 1..Len(files) /\ StartsOf(lines) # {}
        /\ pending <=> last = "---"
        /\ headers <=> last \in {"+++", "@@"}
        /\ last \in Structural
        /\ ~headers => old.hunks = 0
        /\ Last(files) = old
    BY <1>1, LastFileIs
  <1>3. /\ pending' = pending /\ headers' = headers /\ left' = left
        /\ pending \in BOOLEAN /\ headers \in BOOLEAN
    BY GoingIs DEF Metadata, PatchTypesOK
  <1>4. f \in PatchFiles /\ files' = [files EXCEPT ![Len(files)] = f]
    <2>1. f \in PatchFiles
      BY <1>2, NotedIs, Zenon
    <2>2. files' = [files EXCEPT ![Len(files)] = f]
      BY <1>2, MetadataIs, Zenon
    <2> QED BY <2>1, <2>2
  <1>5. StartsOf(lines') = StartsOf(lines) /\ PreviousOf(lines', Len(lines') + 1) = last
    BY OutsideIs DEF Structural, Meta
  <1>6. InOrder(lines')
    BY <1>2, OutsideIs DEF Fits, Structural, Meta
  <1>7. HunksOK(lines', left') /\ left' \in Nat \X Nat /\ ~InHunk'
    BY <1>3, OutsideIs, GoingIs DEF InHunk, Meta
  <1>8. NotedAs(f, old, line.kind)
    BY <1>2, NotedIs
  <1>9. ASSUME NEW s, NotesOf(old, lines, s, pending), TakesIn(lines, lines', s, line.kind)
        PROVE  NotesOf(f, lines', s, pending')
    <2> HIDE DEF f, old
    <2>1. /\ f.hunks > 0 <=> HasKind(lines', s, "@@")
          /\ f.text <=> HasKind(lines', s, "+++")
          /\ HasKind(lines', s, "---") <=> f.text \/ pending'
      BY <1>3, <1>8, <1>9 DEF NotesOf, NotedAs, TakesIn, Describes, Meta
    <2>2. f.metadata <=> \/ HasKind(lines', s, "deleted") \/ HasKind(lines', s, "mode")
                         \/ HasKind(lines', s, "binary")
      BY <1>8, <1>9 DEF NotesOf, NotedAs, TakesIn, Describes
    <2>3. (f.empty <=> HasKind(lines', s, "deleted")) /\ (f.binary <=> HasKind(lines', s, "binary"))
      BY <1>8, <1>9 DEF NotesOf, NotedAs, TakesIn, Describes
    <2>4. f.index = IndexOf(lines', s)
      BY <1>8, <1>9 DEF NotesOf, NotedAs, TakesIn, Describes
    <2> QED BY <2>1, <2>2, <2>3, <2>4 DEF NotesOf, Describes
  <1>10. last # "none"
    BY <1>2 DEF Structural
  <1> HIDE DEF f, last
  <1> QED BY <1>1, <1>2, <1>3, <1>4, <1>5, <1>6, <1>7, <1>8, <1>9, <1>10, LineReads DEF old, NotedAs

-----------------------------------------------------------------------------
(* A line that is refused, and the end *)

LEMMA RefusedInHunk ==
    ASSUME NEW line, Going(line), InHunk, ~Understood(line)
    PROVE  ~WholePatch(lines')
  <1> DEFINE n == Len(lines)
             kind == lines'[n + 1].kind
             gone == IF Removes(kind) THEN 1 ELSE 0
             come == IF Adds(kind) THEN 1 ELSE 0
  <1>1. /\ Longer(lines, lines') /\ lines'[n + 1] = line /\ n \in Nat
        /\ HunksOK(lines, left) /\ left \in Nat \X Nat /\ left # <<0, 0>>
    BY GoingIs DEF Reading, InHunk
  <1>2. Len(lines') = n + 1 /\ DOMAIN lines = 1..n /\ \A k \in 1..n : lines'[k] = lines[k]
    BY <1>1 DEF Longer
  <1>3. PICK open \in HunksOf(lines) :
          /\ EndsOf(lines, open) = {} /\ open \in 1..n
          /\ Cardinality(RemovedIn(lines, open, n)) + left[1] = lines[open].counts[1]
          /\ Cardinality(AddedIn(lines, open, n)) + left[2] = lines[open].counts[2]
    BY <1>1, <1>2, OpenHasNoEnd
  <1>4. open \in HunksOf(lines')
    BY <1>1, HunksGrow
  <1>5. EndsOf(lines', open) \subseteq {n + 1}
    <2>1. EndsOf(lines', open) \cap (1..n) = {}
      BY <1>1, <1>3, EndsStay
    <2>2. EndsOf(lines', open) \subseteq 1..n + 1
      BY <1>1, <1>2, <1>3 DEF EndsOf
    <2> QED BY <1>1, <2>1, <2>2
  <1>6. n + 1 \notin EndsOf(lines', open)
    <2> SUFFICES ASSUME n + 1 \in EndsOf(lines', open) PROVE FALSE
      OBVIOUS
    <2>1. n + 1 \in open + 1..n + 1
      BY <1>1, <1>3
    <2>2. Removes(line.kind) \/ Adds(line.kind)
      BY <1>1, <2>1 DEF EndsOf
    <2>3. /\ Cardinality(RemovedIn(lines', open, n + 1)) = lines[open].counts[1]
          /\ Cardinality(AddedIn(lines', open, n + 1)) = lines[open].counts[2]
      BY <1>2, <1>3 DEF EndsOf
    <2>4. /\ Cardinality(RemovedIn(lines', open, n + 1)) = Cardinality(RemovedIn(lines, open, n)) + gone
          /\ Cardinality(AddedIn(lines', open, n + 1)) = Cardinality(AddedIn(lines, open, n)) + come
      BY <1>1, <1>3, CountsGrow
    <2>5. /\ Cardinality(RemovedIn(lines, open, n)) \in Nat /\ Cardinality(AddedIn(lines, open, n)) \in Nat
          /\ left[1] \in Nat /\ left[2] \in Nat /\ gone \in Nat /\ come \in Nat
      BY <1>1, <1>3, CountsAreFinite
    <2>6. \/ Removes(line.kind) /\ ~(left[1] > 0)
          \/ Adds(line.kind) /\ ~(left[2] > 0)
      BY <2>2 DEF Understood, InHunk
    <2>7. (Removes(line.kind) => gone = 1) /\ (Adds(line.kind) => come = 1)
      BY <1>1
    <2> DEFINE before == Cardinality(RemovedIn(lines, open, n))
               beside == Cardinality(AddedIn(lines, open, n))
    <2>11. before + left[1] = before + gone /\ beside + left[2] = beside + come
      BY <1>3, <2>3, <2>4
    <2> HIDE DEF gone, come, kind, before, beside
    <2>12. before \in Nat /\ beside \in Nat /\ left[1] \in Nat /\ left[2] \in Nat
           /\ gone \in Nat /\ come \in Nat
      BY <2>5 DEF before, beside
    <2>8. gone = left[1] /\ come = left[2]
      BY <2>11, <2>12
    <2>9. CASE Removes(line.kind) /\ ~(left[1] > 0)
      BY <2>7, <2>8, <2>9
    <2>10. CASE Adds(line.kind) /\ ~(left[2] > 0)
      BY <2>7, <2>8, <2>10
    <2> QED BY <2>6, <2>9, <2>10
  <1>7. EndsOf(lines', open) = {}
    BY <1>5, <1>6
  <1> QED BY <1>4, <1>7 DEF WholePatch

LEMMA RefusedOutside ==
    ASSUME NEW line, Going(line), ~InHunk, ~Understood(line)
    PROVE  ~WholePatch(lines')
  <1> DEFINE last == PreviousOf(lines, Len(lines) + 1)
  <1>1. /\ pending <=> last = "---"
        /\ headers <=> last \in {"+++", "@@"}
        /\ files = << >> <=> last = "none"
    BY GoingIs DEF Reading, StructureOK
  <1>2. line.kind \in Plain \cup {"@@"}
    BY LineTypes DEF Going
  <1>3. files = << >> => StartsOf(lines) = {}
    BY GoingIs DEF Reading, FilesAt
  <1>4. /\ ~(line.kind \in {"git", "---"} /\ ~pending)
        /\ ~(line.kind = "+++" /\ pending)
        /\ ~(line.kind = "@@" /\ headers)
        /\ ~(line.kind \in Meta /\ files # << >>)
    BY DEF Understood, InHunk, Meta
  <1> HIDE DEF last
  <1>5. ~Fits(lines, line.kind)
    <2> SUFFICES ASSUME Fits(lines, line.kind) PROVE FALSE
      OBVIOUS
    <2>1. /\ line.kind \notin {"-", "+", " ", "other"}
          /\ StartsOf(lines) # {} \/ line.kind = "git" \/ (line.kind = "---" /\ last # "git")
          /\ line.kind \in Structural => (line.kind = "+++" <=> last = "---")
          /\ line.kind = "@@" => last \in {"+++", "@@"}
      BY DEF Fits, last
    <2>2. CASE line.kind \in {"git", "---"}
      BY <1>1, <1>4, <2>1, <2>2 DEF Structural
    <2>3. CASE line.kind = "+++"
      BY <1>1, <1>4, <2>1, <2>3 DEF Structural
    <2>4. CASE line.kind = "@@"
      BY <1>1, <1>4, <2>1, <2>4
    <2>5. CASE line.kind \in Meta
      BY <1>3, <1>4, <2>1, <2>5 DEF Meta
    <2>6. line.kind \in {"git", "---", "+++", "@@"} \cup Meta
      BY <1>2, <2>1 DEF Plain, Meta
    <2> QED BY <2>2, <2>3, <2>4, <2>5, <2>6
  <1> QED BY <1>5, OutsideIs DEF WholePatch

\* At its end a patch is whole when nothing is open and every file has its hunks or says why not.
LEMMA EndIsWhole ==
    ASSUME PatchInv, result = "reading"
    PROVE  WholePatch(lines) <=>
             ~(pending \/ InHunk \/ \E i \in DOMAIN files : files[i].hunks = 0 /\ ~Explained(files[i]))
  <1> DEFINE m == Len(files)
             has(s, kind) == HasKind(lines, s, kind)
  <1>1. /\ lines \in Seq(PatchLines) /\ files \in Seq(PatchFiles) /\ pending \in BOOLEAN
        /\ Reading(lines, files, pending, headers, left) /\ left \in Nat \X Nat
    BY DEF PatchInv, PatchTypesOK, ParserTypeOK
  <1>2. PICK at \in [1..m -> Nat] : FilesAt(at, lines, files, pending)
    BY <1>1 DEF Reading
  <1>3. m \in Nat /\ DOMAIN files = 1..m /\ \A i \in 1..m : files[i] \in PatchFiles
    BY <1>1
  <1>4. CASE InHunk
    <2>1. Len(lines) \in Nat /\ DOMAIN lines = 1..Len(lines) /\ HunksOK(lines, left) /\ left # <<0, 0>>
      BY <1>1, <1>4 DEF Reading, InHunk
    <2>2. \E open \in HunksOf(lines) : EndsOf(lines, open) = {}
      BY <1>1, <2>1, OpenHasNoEnd
    <2> QED BY <1>4, <2>2 DEF WholePatch
  <1>5. CASE ~InHunk /\ pending
    <2>1. files # << >> /\ files[m].hunks = 0
      BY <1>1, <1>5 DEF Reading, StructureOK
    <2>2. m \in 1..m
      BY <1>1, <1>3, <2>1
    <2>3. /\ at[m] \in StartsOf(lines) /\ ~HasKind(lines, at[m], "@@")
          /\ HasKind(lines, at[m], "---")
      <3>1. at[m] \in StartsOf(lines) /\ Describes(files[m], lines, at[m])
        BY <1>2, <2>2 DEF FilesAt
      <3>2. HasKind(lines, at[m], "---")
        BY <1>2, <1>5, <2>2 DEF FilesAt
      <3>3. ~HasKind(lines, at[m], "@@")
        BY <2>1, <3>1 DEF Describes
      <3> QED BY <3>1, <3>2, <3>3
    <2> QED BY <1>5, <2>3 DEF WholePatch, ExplainedIn
  <1>6. CASE ~InHunk /\ ~pending
    <2>1. (\A h \in HunksOf(lines) : EndsOf(lines, h) # {}) /\ InOrder(lines)
      BY <1>1, <1>6 DEF Reading, HunksOK, InHunk
    <2>2. ASSUME NEW i \in 1..m
          PROVE  HasKind(lines, at[i], "@@") \/ ExplainedIn(lines, at[i])
                 <=> ~(files[i].hunks = 0 /\ ~Explained(files[i]))
      <3> DEFINE f == files[i]
                 s == at[i]
      <3>1. Describes(f, lines, s) /\ (HasKind(lines, s, "---") <=> f.text) /\ f \in PatchFiles
        BY <1>2, <1>3, <1>6 DEF FilesAt
      <3> HIDE DEF f, s
      <3>2. f.hunks = 0 <=> ~HasKind(lines, s, "@@")
        <4>1. f.hunks \in Nat
          BY <3>1 DEF PatchFiles
        <4>2. f.hunks > 0 <=> HasKind(lines, s, "@@")
          BY <3>1 DEF Describes
        <4> QED BY <4>1, <4>2
      <3>3. Explained(f) <=> ExplainedIn(lines, s)
        <4>1. /\ f.text <=> HasKind(lines, s, "---")
              /\ f.metadata <=> \/ HasKind(lines, s, "deleted") \/ HasKind(lines, s, "mode")
                                \/ HasKind(lines, s, "binary")
              /\ f.empty <=> HasKind(lines, s, "deleted")
              /\ f.binary <=> HasKind(lines, s, "binary")
              /\ f.index = IndexOf(lines, s)
          BY <3>1 DEF Describes
        <4>2. CASE f.empty
          BY <4>1, <4>2 DEF Explained, ExplainedIn
        <4>3. CASE ~f.empty
          BY <4>1, <4>3 DEF Explained, ExplainedIn
        <4> QED BY <4>2, <4>3
      <3> QED BY <3>2, <3>3 DEF f, s
    <2>3. (\A s \in StartsOf(lines) : HasKind(lines, s, "@@") \/ ExplainedIn(lines, s)) <=>
          \A i \in 1..m : HasKind(lines, at[i], "@@") \/ ExplainedIn(lines, at[i])
      BY <1>2 DEF FilesAt
    <2> QED BY <1>3, <1>6, <2>1, <2>2, <2>3 DEF WholePatch
  <1> QED BY <1>4, <1>5, <1>6

-----------------------------------------------------------------------------

LEMMA InitPatchInv ==
    ASSUME ParserInit
    PROVE  PatchInv
  <1>1. HunksOf(lines) = {} /\ OuterOf(lines) = {} /\ StructureOf(lines) = {} /\ StartsOf(lines) = {}
    BY DEF ParserInit, HunksOf, OuterOf, StructureOf, StartsOf
  <1>2. PreviousOf(lines, Len(lines) + 1) = "none"
    BY <1>1 DEF PreviousOf
  <1>3. StructureOK(lines, files, pending, headers)
    BY <1>2 DEF ParserInit, StructureOK
  <1>4. HunksOK(lines, left) /\ InOrder(lines)
    BY <1>1 DEF ParserInit, HunksOK, InOrder
  <1>5. \E at \in [1..Len(files) -> Nat] : FilesAt(at, lines, files, pending)
    <2>1. [k \in 1..Len(files) |-> 0] \in [1..Len(files) -> Nat] /\ 1..Len(files) = {}
      BY DEF ParserInit
    <2>2. FilesAt([k \in 1..Len(files) |-> 0], lines, files, pending)
      BY <1>1, <2>1 DEF FilesAt
    <2> QED BY <2>1, <2>2
  <1>6. ParserTypeOK
    <2>1. /\ result \in {"reading", "refused", "accepted"} /\ left \in Nat \X Nat
          /\ ~InHunk /\ ~pending /\ Len(files) = 0 /\ Len(lines) = 0
      BY DEF ParserInit, InHunk
    <2> QED BY <2>1 DEF ParserTypeOK
  <1>7. PatchTypesOK
    <2>1. lines \in Seq(PatchLines)
      BY DEF ParserInit
    <2>2. files \in Seq(PatchFiles)
      BY DEF ParserInit
    <2>3. pending \in BOOLEAN /\ headers \in BOOLEAN
      <3>1. pending = FALSE /\ headers = FALSE
        BY DEF ParserInit
      <3> QED BY <3>1
    <2> QED BY <2>1, <2>2, <2>3 DEF PatchTypesOK
  <1> QED BY <1>3, <1>4, <1>5, <1>6, <1>7 DEF PatchInv, Reading, OnlyWholePatches, ParserInit

LEMMA NextPatchInv ==
    ASSUME ParserConstants, PatchInv, [ParserNext]_parserVars
    PROVE  PatchInv'
  <1>1. CASE ReadPatchLine
    <2>1. PICK line \in PatchLines : lines' = Append(lines, line) /\ (HunkLine(line) \/ Header(line))
      BY <1>1 DEF ReadPatchLine
    <2>2. Going(line) /\ result' = "reading"
      BY <1>1, <2>1 DEF Going, ReadPatchLine
    <2>3. ReadingOn
      <3>1. CASE HunkLine(line)
        BY <2>2, <3>1, HunkLineReads
      <3>2. CASE Header(line)
        <4>1. ~InHunk
          BY <3>2 DEF Header
        <4>2. CASE GitHeader(line)
          <5>1. line.kind = "git" /\ files' = Append(files, NewFile)
            BY <4>2 DEF GitHeader
          <5>2. headers' = FALSE /\ headers' \in BOOLEAN /\ UNCHANGED left
            BY <4>2 DEF GitHeader
          <5>3. ~pending /\ pending' = FALSE
            <6>1. pending \in BOOLEAN
              BY <2>2, GoingIs DEF PatchTypesOK
            <6> QED BY <4>2, <6>1 DEF GitHeader
          <5>4. pending' = (line.kind = "---")
            BY <5>1, <5>3
          <5> QED BY <2>2, <4>1, <5>1, <5>2, <5>3, <5>4, StartReads
        <4>3. CASE OldHeader(line)
          <5>1. CASE files = << >> \/ headers
            BY <2>2, <4>1, <4>3, <5>1, StartReads DEF OldHeader
          <5>2. CASE ~(files = << >> \/ headers)
            BY <2>2, <4>1, <4>3, <5>2, OldNameReads
          <5> QED BY <5>1, <5>2
        <4>4. CASE NewHeader(line)
          BY <2>2, <4>1, <4>4, NewNameReads
        <4>5. CASE HunkHeader(line)
          BY <2>2, <4>1, <4>5, HunkHeaderReads
        <4>6. CASE line.kind \in Meta /\ Metadata(line)
          BY <2>2, <4>1, <4>6, MetadataReads
        <4> QED BY <3>2, <4>2, <4>3, <4>4, <4>5, <4>6 DEF Header, Meta
      <3> QED BY <2>1, <3>1, <3>2
    <2> QED BY <2>2, <2>3 DEF ReadingOn, PatchInv, ParserTypeOK, OnlyWholePatches
  <1>2. CASE RefuseLine
    <2>1. PICK line \in PatchLines : ~Understood(line) /\ lines' = Append(lines, line)
      BY <1>2 DEF RefuseLine
    <2>2. Going(line) /\ result' = "refused" /\ UNCHANGED <<files, pending, headers, left>>
      BY <1>2, <2>1 DEF Going, RefuseLine
    <2>3. ~WholePatch(lines')
      BY <2>1, <2>2, RefusedInHunk, RefusedOutside
    <2>4. PatchTypesOK'
      BY <2>2, GoingIs DEF PatchTypesOK
    <2>5. ParserTypeOK'
      <3>1. Len(files) <= Len(lines) + 1
        <4>1. Len(files) <= Len(lines) /\ Len(lines) \in Nat /\ Len(files) \in Nat
          BY <2>2, GoingIs DEF PatchTypesOK
        <4> QED BY <4>1
      <3> QED BY <2>2, <3>1, GoingIs DEF ParserTypeOK, InHunk
    <2> QED BY <2>2, <2>3, <2>4, <2>5 DEF PatchInv, OnlyWholePatches
  <1>3. CASE EndPatch
    <2>1. result = "reading" /\ UNCHANGED <<lines, files, pending, headers, left>>
      BY <1>3 DEF EndPatch
    <2>2. result' \in {"refused", "accepted"} /\ (result' = "accepted" <=> WholePatch(lines))
      BY <1>3, <2>1, EndIsWhole DEF EndPatch
    <2>3. WholePatch(lines)' <=> WholePatch(lines)
      BY <2>1
    <2>4. ParserTypeOK' /\ PatchTypesOK'
      BY <2>1, <2>2 DEF PatchInv, ParserTypeOK, PatchTypesOK, InHunk
    <2> QED BY <2>2, <2>3, <2>4 DEF PatchInv, OnlyWholePatches
  <1>4. CASE UNCHANGED parserVars
    BY <1>4 DEF parserVars, PatchInv, ParserTypeOK, PatchTypesOK, InHunk, OnlyWholePatches
  <1> QED BY <1>1, <1>2, <1>3, <1>4 DEF ParserNext

\* Whatever lines a patch has and however many: the parser, which reads them one by one and
\* keeps two counts and a few marks, accepts it just when it is whole as seen from all of its
\* lines at once (parseDiff, which is to fail closed).
THEOREM PatchHolds ==
    ASSUME ParserConstants
    PROVE  ParserSpec => [](ParserTypeOK /\ OnlyWholePatches)
  <1>1. ParserInit => PatchInv
    BY InitPatchInv
  <1>2. PatchInv /\ [ParserNext]_parserVars => PatchInv'
    BY NextPatchInv
  <1>3. PatchInv => ParserTypeOK /\ OnlyWholePatches
    BY DEF PatchInv
  <1> QED BY <1>1, <1>2, <1>3, PTL DEF ParserSpec
=============================================================================
