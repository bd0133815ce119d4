----------------------------- MODULE ToolsProofs -----------------------------
(***************************************************************************)
(* The properties of MCTools, from what WorkTreeProofs proves about the    *)
(* part that runs, whatever its constants are.  W has the definitions of   *)
(* all parts together: those of a part are the ones MCTools has of it.     *)
(***************************************************************************)
EXTENDS MCTools, TLAPS

W == INSTANCE WorkTreeProofs WITH
       LaneNames <- {"l1", "l2"}, Files <- {"f1", "f2"}, Texts <- {"o", "a", "b"},
       Original <- "o", Fenced <- {"f1"}, MaxEdits <- 2,
       Paths <- {"p1", "p2"}, Ignored <- {"p2"}, InFence <- {"p1"}, Blobs <- {"a", "b"},
       MaxActs <- 4,
       Keys <- {"k"}, Extras <- {"x", "y"}, Large <- {"y"}, MaxWrites <- 2,
       LessonIds <- {"i"}, Curators <- {"s1", "s2"}, Checks <- {"c1", "c2"},
       CaughtThere <- {"c1"}, MaxAge <- 1, LastDay <- 2, MaxCommands <- 3,
       Commits <- {"c1", "c2", "c3"}, NoCommit <- "none", Ancestors <- MCAncestors,
       SignedCommits <- {"c1", "c2", "c3"}, TagFor <- MCTagFor, ReleaseTags <- {"v1", "v2"},
       Profiles <- {"minimum", "reviewed"}, Works <- MCWorks, MaxPipelines <- 2, MaxReruns <- 1,
       TestFiles <- {"t1"}, CodeFiles <- {"c1"}, BarContents <- MCBarContents, MaxTouches <- 3,
       HunkCounts <- {<<1, 1>>, <<0, 1>>, <<2, 0>>}, MaxPatch <- 6

-----------------------------------------------------------------------------
(* Only the part that was chosen moves *)

LEMMA OnePartMoves ==
    ASSUME [Next]_toolVars
    PROVE  /\ part' = part
           /\ \/ part = "lanes" /\ LanesStep
              \/ part = "fence" /\ FenceStep
              \/ part = "receipt" /\ ReceiptStep
              \/ part = "lessons" /\ LessonsStep
              \/ part = "release" /\ ReleaseStep
              \/ part = "bar" /\ BarStep
              \/ part = "patch" /\ PatchStep
              \/ UNCHANGED toolVars
  BY DEF Next, LanesStep, FenceStep, ReceiptStep, LessonsStep, ReleaseStep, BarStep, PatchStep,
         Only, toolVars

-----------------------------------------------------------------------------
(* Lanes *)

LEMMA LanesConstantsHold == W!LanesConstants
  BY LanesFit
  DEF LaneTool!LanesConstants, LaneTool!IsFiniteSet, W!LanesConstants, W!IsFiniteSet

LEMMA LanesInitIs == LaneTool!LanesInit => W!LanesInit
  BY DEF LaneTool!LanesInit, LaneTool!Idle, W!LanesInit, W!Idle

LEMMA LanesNextIs == LaneTool!LanesNext => W!LanesNext
  BY DEF LaneTool!LanesNext, LaneTool!EditLane, LaneTool!Restless, LaneTool!LeaveIgnored,
         LaneTool!StartAdd, LaneTool!Idle, LaneTool!repository, LaneTool!history,
         LaneTool!CheckPatch, LaneTool!Patch, LaneTool!StartApply, LaneTool!Managed,
         LaneTool!StartRemove, LaneTool!PassFence, LaneTool!Changed, LaneTool!EditLead,
         LaneTool!CommitLead, LaneTool!AddWorktree, LaneTool!RecordBase, LaneTool!StartCheck,
         LaneTool!CheckTouched, LaneTool!State, LaneTool!Applies, LaneTool!Reverses,
         LaneTool!Owners, LaneTool!FinishCheck, LaneTool!Overlap, LaneTool!ApplyPatch,
         LaneTool!JudgeApply, LaneTool!WritePatch, LaneTool!Applied, LaneTool!RemovePatch,
         LaneTool!JudgeRemove, LaneTool!ListIgnored, LaneTool!RemoveWorktree, LaneTool!Kill,
         LaneTool!Cardinality, W!LanesNext, W!EditLane, W!Restless, W!LeaveIgnored, W!StartAdd,
         W!Idle, W!repository, W!history, W!CheckPatch, W!Patch, W!StartApply, W!Managed,
         W!StartRemove, W!PassFence, W!Changed, W!EditLead, W!CommitLead, W!AddWorktree,
         W!RecordBase, W!StartCheck, W!CheckTouched, W!State, W!Applies, W!Reverses, W!Owners,
         W!FinishCheck, W!Overlap, W!ApplyPatch, W!JudgeApply, W!WritePatch, W!Applied,
         W!RemovePatch, W!JudgeRemove, W!ListIgnored, W!RemoveWorktree, W!Kill, W!Cardinality

LEMMA LanesPropertiesAre ==
    ASSUME W!LanesInv
    PROVE  LaneTool!LanesTypeOK /\ LaneTool!AddedIsManaged /\ LaneTool!CheckedLanesApply
  <1>1. W!LanesTypeOK /\ W!AddedIsManaged /\ W!CheckedLanesApply
    BY W!LanesInvSays
  <1>2. LaneTool!LanesTypeOK
    BY <1>1
    DEF LaneTool!LanesTypeOK, LaneTool!Trees, LaneTool!Commands, LaneTool!Idle, LaneTool!Steps,
        LaneTool!Patches, W!LanesTypeOK, W!Trees, W!Commands, W!Idle, W!Steps, W!Patches
  <1>3. LaneTool!AddedIsManaged
    BY <1>1
    DEF LaneTool!AddedIsManaged, LaneTool!Managed, W!AddedIsManaged, W!Managed
  <1>4. LaneTool!CheckedLanesApply
    BY <1>1
    DEF LaneTool!CheckedLanesApply, LaneTool!State, LaneTool!Changed, LaneTool!Applies,
        LaneTool!Reverses, LaneTool!Patch, W!CheckedLanesApply, W!State, W!Changed, W!Applies,
        W!Reverses, W!Patch
  <1> QED BY <1>2, <1>3, <1>4

LEMMA LanesStepsAre ==
    ASSUME W!LanesInv, LaneTool!LanesNext
    PROVE  LaneTool!KeepsWork /\ LaneTool!StaysInside
  <1>1. W!KeepsWork /\ W!StaysInside
    BY LanesNextIs, W!StepKeepsWork, W!StepStaysInside
  <1>2. LaneTool!KeepsWork
    BY <1>1
    DEF LaneTool!KeepsWork, W!KeepsWork
  <1>3. LaneTool!StaysInside
    BY <1>1
    DEF LaneTool!StaysInside, LaneTool!Idle, W!StaysInside, W!Idle
  <1> QED BY <1>2, <1>3

LanesPartInv == part = "lanes" => W!LanesInv

LEMMA LanesPartKeeps ==
    ASSUME LanesPartInv, [Next]_toolVars
    PROVE  LanesPartInv'
  <1> SUFFICES ASSUME part' = "lanes"
               PROVE  W!LanesInv'
    BY DEF LanesPartInv
  <1>1. part = "lanes" /\ W!LanesInv
    BY OnePartMoves DEF LanesPartInv
  <1>2. CASE LanesStep
    BY <1>1, <1>2, LanesConstantsHold, LanesNextIs, W!NextLanesInv DEF LanesStep
  <1>3. CASE UNCHANGED lanesV
    <2>1. UNCHANGED W!lanesVars
      BY <1>3 DEF lanesV, W!lanesVars, W!repository, W!history
    <2> QED BY <1>1, <2>1, LanesConstantsHold, W!NextLanesInv
  <1> QED BY <1>1, <1>2, <1>3, OnePartMoves DEF toolVars

\* A lane whose add succeeded is seen until it is removed, lanes a check passed can be applied in
\* any order, remove deletes no work, and a fenced lane stays inside its fence (lanes.go).
THEOREM LanesKeepWorkHolds == Spec => LanesKeepWork
  <1>1. Init => LanesPartInv
    BY LanesConstantsHold, LanesInitIs, W!InitLanesInv DEF Init, LanesPartInv
  <1>2. LanesPartInv /\ [Next]_toolVars => LanesPartInv'
    BY LanesPartKeeps
  <1>3. LanesPartInv =>
        (part = "lanes" =>
            LaneTool!LanesTypeOK /\ LaneTool!AddedIsManaged /\ LaneTool!CheckedLanesApply)
    BY LanesPropertiesAre DEF LanesPartInv
  <1>4. LanesPartInv /\ [Next]_toolVars =>
        [part = "lanes" => LaneTool!KeepsWork /\ LaneTool!StaysInside]_lanesV
    <2> SUFFICES ASSUME LanesPartInv, [Next]_toolVars, part = "lanes"
                 PROVE  (LaneTool!KeepsWork /\ LaneTool!StaysInside) \/ UNCHANGED lanesV
      OBVIOUS
    <2>1. CASE LanesStep
      BY <2>1, LanesStepsAre DEF LanesPartInv, LanesStep
    <2>2. CASE UNCHANGED toolVars
      BY <2>2 DEF toolVars
    <2> QED BY <2>1, <2>2, OnePartMoves
  <1> QED BY <1>1, <1>2, <1>3, <1>4, PTL DEF Spec, LanesKeepWork

-----------------------------------------------------------------------------
(* FenceCheck *)

LEMMA FenceConstantsHold == W!FenceConstants
  BY FenceFits
  DEF Fence!FenceConstants, W!FenceConstants

LEMMA FenceInitIs == Fence!FenceInit => W!FenceInit
  BY DEF Fence!FenceInit, Fence!NoSession, Fence!Thrice, W!FenceInit, W!NoSession, W!Thrice

LEMMA FenceNextIs == Fence!FenceNext => W!FenceNext
  BY DEF Fence!FenceNext, Fence!EditFile, Fence!Acted, Fence!Stage, Fence!Unstage, Fence!Commit,
         Fence!StartFenceCheck, Fence!Begin, Fence!NoSession, Fence!Thrice, Fence!Empty,
         Fence!layers, Fence!StartSnapshot, Fence!StartLeak, Fence!CaptureHead, Fence!CaptureIndex,
         Fence!CaptureWorktree, Fence!Added, Fence!ConcludeCheck, Fence!Outside, Fence!Differences,
         Fence!ConcludeSnapshot, Fence!Layers, Fence!ConcludeLeak, Fence!Fail, W!FenceNext,
         W!EditFile, W!Acted, W!Stage, W!Unstage, W!Commit, W!StartFenceCheck, W!Begin, W!NoSession,
         W!Thrice, W!Empty, W!layers, W!StartSnapshot, W!StartLeak, W!CaptureHead, W!CaptureIndex,
         W!CaptureWorktree, W!Added, W!ConcludeCheck, W!Outside, W!Differences, W!ConcludeSnapshot,
         W!Layers, W!ConcludeLeak, W!Fail

LEMMA FencePropertiesAre ==
    ASSUME W!FenceInv
    PROVE  Fence!FenceTypeOK
  <1>1. W!FenceTypeOK
    BY W!FenceInvSays
  <1>2. Fence!FenceTypeOK
    BY <1>1
    DEF Fence!FenceTypeOK, Fence!PathTrees, Fence!Captures, Fence!Sessions, Fence!NoSession,
        W!FenceTypeOK, W!PathTrees, W!Captures, W!Sessions, W!NoSession
  <1> QED BY <1>2

LEMMA FenceStepsAre ==
    ASSUME W!FenceInv, Fence!FenceNext
    PROVE  Fence!InsideUnless /\ Fence!SameUnless
  <1>1. W!InsideUnless /\ W!SameUnless
    BY FenceNextIs, W!InsideSays, W!SameSays
  <1>2. Fence!InsideUnless
    BY <1>1
    DEF Fence!InsideUnless, Fence!Outside, Fence!Hidden, Fence!Layers, W!InsideUnless, W!Outside,
        W!Hidden, W!Layers
  <1>3. Fence!SameUnless
    BY <1>1
    DEF Fence!SameUnless, Fence!Hidden, Fence!Layers, W!SameUnless, W!Hidden, W!Layers
  <1> QED BY <1>2, <1>3

FencePartInv == part = "fence" => W!FenceInv

LEMMA FencePartKeeps ==
    ASSUME FencePartInv, [Next]_toolVars
    PROVE  FencePartInv'
  <1> SUFFICES ASSUME part' = "fence"
               PROVE  W!FenceInv'
    BY DEF FencePartInv
  <1>1. part = "fence" /\ W!FenceInv
    BY OnePartMoves DEF FencePartInv
  <1>2. CASE FenceStep
    BY <1>1, <1>2, FenceConstantsHold, FenceNextIs, W!NextFenceInv DEF FenceStep
  <1>3. CASE UNCHANGED fenceV
    <2>1. UNCHANGED W!fenceVars
      BY <1>3 DEF fenceV, W!fenceVars, W!layers
    <2> QED BY <1>1, <2>1, FenceConstantsHold, W!NextFenceInv
  <1> QED BY <1>1, <1>2, <1>3, OnePartMoves DEF toolVars

\* A check that says inside and a leak check that says same overlook no path that nobody touched
\* while they looked (fence.go).
THEOREM FenceOverlooksNothingHolds == Spec => FenceOverlooksNothing
  <1>1. Init => FencePartInv
    BY FenceConstantsHold, FenceInitIs, W!InitFenceInv DEF Init, FencePartInv
  <1>2. FencePartInv /\ [Next]_toolVars => FencePartInv'
    BY FencePartKeeps
  <1>3. FencePartInv => (part = "fence" => Fence!FenceTypeOK)
    BY FencePropertiesAre DEF FencePartInv
  <1>4. FencePartInv /\ [Next]_toolVars =>
        [part = "fence" => Fence!InsideUnless /\ Fence!SameUnless]_fenceV
    <2> SUFFICES ASSUME FencePartInv, [Next]_toolVars, part = "fence"
                 PROVE  (Fence!InsideUnless /\ Fence!SameUnless) \/ UNCHANGED fenceV
      OBVIOUS
    <2>1. CASE FenceStep
      BY <2>1, FenceStepsAre DEF FencePartInv, FenceStep
    <2>2. CASE UNCHANGED toolVars
      BY <2>2 DEF toolVars
    <2> QED BY <2>1, <2>2, OnePartMoves
  <1> QED BY <1>1, <1>2, <1>3, <1>4, PTL DEF Spec, FenceOverlooksNothing

-----------------------------------------------------------------------------
(* RunReceipt *)

LEMMA ReceiptConstantsHold == W!ReceiptConstants
  BY ReceiptFits
  DEF Receipt!ReceiptConstants, W!ReceiptConstants

LEMMA ReceiptInitIs == Receipt!ReceiptInit => W!ReceiptInit
  BY DEF Receipt!ReceiptInit, Receipt!NotRunning, Receipt!Unknown, W!ReceiptInit, W!NotRunning,
         W!Unknown

LEMMA ReceiptNextIs == Receipt!ReceiptNext => W!ReceiptNext
  BY DEF Receipt!ReceiptNext, Receipt!EditTracked, Receipt!Written, Receipt!EditExtra,
         Receipt!CommitTracked, Receipt!Invoke, Receipt!Unmoved, Receipt!checkout, Receipt!ReadHead,
         Receipt!ReadStatus, Receipt!Status, Receipt!ReadDiff, Receipt!Diff, Receipt!ReadUntracked,
         Receipt!HashUntracked, Receipt!NoIdentity, Receipt!Unknown, Receipt!Reuse,
         Receipt!MayReuse, Receipt!Newest, Receipt!Matches, Receipt!Conclude, Receipt!Exit,
         Receipt!NotRunning, Receipt!CreateLog, Receipt!Check, Receipt!WriteReceipt,
         Receipt!DropLog, Receipt!Die, W!ReceiptNext, W!EditTracked, W!Written, W!EditExtra,
         W!CommitTracked, W!Invoke, W!Unmoved, W!checkout, W!ReadHead, W!ReadStatus, W!Status,
         W!ReadDiff, W!Diff, W!ReadUntracked, W!HashUntracked, W!NoIdentity, W!Unknown, W!Reuse,
         W!MayReuse, W!Newest, W!Matches, W!Conclude, W!Exit, W!NotRunning, W!CreateLog, W!Check,
         W!WriteReceipt, W!DropLog, W!Die

LEMMA ReceiptPropertiesAre ==
    ASSUME W!ReceiptInv
    PROVE  Receipt!ReceiptTypeOK /\ Receipt!ReuseIsSound
  <1>1. W!ReceiptTypeOK /\ W!ReuseIsSound
    BY W!ReceiptInvSays, ReceiptConstantsHold
  <1>2. Receipt!ReceiptTypeOK
    BY <1>1
    DEF Receipt!ReceiptTypeOK, Receipt!Receipts, Receipt!Identities, Receipt!Digests,
        Receipt!Snapshots, Receipt!Stages, W!ReceiptTypeOK, W!Receipts, W!Identities, W!Digests,
        W!Snapshots, W!Stages
  <1>3. Receipt!ReuseIsSound
    BY <1>1
    DEF Receipt!ReuseIsSound, Receipt!Alike, W!ReuseIsSound, W!Alike
  <1> QED BY <1>2, <1>3

ReceiptPartInv == part = "receipt" => W!ReceiptInv

LEMMA ReceiptPartKeeps ==
    ASSUME ReceiptPartInv, [Next]_toolVars
    PROVE  ReceiptPartInv'
  <1> SUFFICES ASSUME part' = "receipt"
               PROVE  W!ReceiptInv'
    BY DEF ReceiptPartInv
  <1>1. part = "receipt" /\ W!ReceiptInv
    BY OnePartMoves DEF ReceiptPartInv
  <1>2. CASE ReceiptStep
    BY <1>1, <1>2, ReceiptConstantsHold, ReceiptNextIs, W!NextReceiptInv DEF ReceiptStep
  <1>3. CASE UNCHANGED receiptV
    <2>1. UNCHANGED W!receiptVars
      BY <1>3 DEF receiptV, W!receiptVars, W!checkout
    <2> QED BY <1>1, <2>1, ReceiptConstantsHold, W!NextReceiptInv
  <1> QED BY <1>1, <1>2, <1>3, OnePartMoves DEF toolVars

\* A receipt is reused only for the files it was made of (run-receipt.go).
THEOREM ReceiptsAreSoundHolds == Spec => []ReceiptsAreSound
  <1>1. Init => ReceiptPartInv
    BY ReceiptConstantsHold, ReceiptInitIs, W!InitReceiptInv DEF Init, ReceiptPartInv
  <1>2. ReceiptPartInv /\ [Next]_toolVars => ReceiptPartInv'
    BY ReceiptPartKeeps
  <1>3. ReceiptPartInv => ReceiptsAreSound
    BY ReceiptPropertiesAre DEF ReceiptPartInv, ReceiptsAreSound
  <1> QED BY <1>1, <1>2, <1>3, PTL DEF Spec

-----------------------------------------------------------------------------
(* Lessons *)

LEMMA LessonsConstantsHold == W!LessonsConstants
  BY LessonsFit
  DEF LessonTool!LessonsConstants, LessonTool!LessonRecords, LessonTool!Surfaces,
      LessonTool!Statuses, W!LessonsConstants, W!LessonRecords, W!Surfaces, W!Statuses

LEMMA LessonsInitIs == LessonTool!LessonsInit => W!LessonsInit
  BY DEF LessonTool!LessonsInit, LessonTool!Done, W!LessonsInit, W!Done

LEMMA LessonsNextIs == LessonTool!LessonsNext => W!LessonsNext
  BY DEF LessonTool!LessonsNext, LessonTool!NextDay, LessonTool!World, LessonTool!Done,
         LessonTool!Recur, LessonTool!EditTree, LessonTool!EditTarget, LessonTool!StartAddLesson,
         LessonTool!Surfaces, LessonTool!Start, LessonTool!Quiet, LessonTool!world,
         LessonTool!CreateLesson, LessonTool!WriteLesson, LessonTool!StartProve,
         LessonTool!Loadable, LessonTool!RunPast, LessonTool!Goto, LessonTool!RunNow,
         LessonTool!StartPromote, LessonTool!VerifyPromotion, LessonTool!StartRetire,
         LessonTool!Save, LessonTool!Outcome, LessonTool!KillCurator, LessonTool!Scorecards,
         LessonTool!Review, LessonTool!VerdictOf, LessonTool!Judge, LessonTool!Recurrences,
         LessonTool!Cardinality, W!LessonsNext, W!NextDay, W!World, W!Done, W!Recur, W!EditTree,
         W!EditTarget, W!StartAddLesson, W!Surfaces, W!Start, W!Quiet, W!world, W!CreateLesson,
         W!WriteLesson, W!StartProve, W!Loadable, W!RunPast, W!Goto, W!RunNow, W!StartPromote,
         W!VerifyPromotion, W!StartRetire, W!Save, W!Outcome, W!KillCurator, W!Scorecards, W!Review,
         W!VerdictOf, W!Judge, W!Recurrences, W!Cardinality

LEMMA LessonsPropertiesAre ==
    ASSUME W!LessonsInv
    PROVE  LessonTool!LessonsTypeOK /\ LessonTool!ProofStandsBehind /\ LessonTool!RecurringIsReal
  <1>1. W!LessonsTypeOK /\ W!ProofStandsBehind /\ W!RecurringIsReal
    BY W!LessonsInvSays
  <1>2. LessonTool!LessonsTypeOK
    BY <1>1
    DEF LessonTool!LessonsTypeOK, LessonTool!Saved, LessonTool!LessonRecords, LessonTool!Surfaces,
        LessonTool!Statuses, W!LessonsTypeOK, W!Saved, W!LessonRecords, W!Surfaces, W!Statuses
  <1>3. LessonTool!ProofStandsBehind
    BY <1>1
    DEF LessonTool!ProofStandsBehind, LessonTool!Saved, W!ProofStandsBehind, W!Saved
  <1>4. LessonTool!RecurringIsReal
    BY <1>1
    DEF LessonTool!RecurringIsReal, LessonTool!Done, W!RecurringIsReal, W!Done
  <1> QED BY <1>2, <1>3, <1>4

LEMMA LessonsStepsAre ==
    ASSUME W!LessonsInv, LessonTool!LessonsNext
    PROVE  LessonTool!StaysWhole /\ LessonTool!KeepsHistory
  <1>1. W!StaysWhole /\ W!KeepsHistory
    BY LessonsNextIs, LessonsConstantsHold, W!StepKeepsHistory
  <1>2. LessonTool!StaysWhole
    BY <1>1
    DEF LessonTool!StaysWhole, LessonTool!Saved, W!StaysWhole, W!Saved
  <1>3. LessonTool!KeepsHistory
    BY <1>1
    DEF LessonTool!KeepsHistory, LessonTool!Saved, W!KeepsHistory, W!Saved
  <1> QED BY <1>2, <1>3

LessonsPartInv == part = "lessons" => W!LessonsInv

LEMMA LessonsPartKeeps ==
    ASSUME LessonsPartInv, [Next]_toolVars
    PROVE  LessonsPartInv'
  <1> SUFFICES ASSUME part' = "lessons"
               PROVE  W!LessonsInv'
    BY DEF LessonsPartInv
  <1>1. part = "lessons" /\ W!LessonsInv
    BY OnePartMoves DEF LessonsPartInv
  <1>2. CASE LessonsStep
    BY <1>1, <1>2, LessonsConstantsHold, LessonsNextIs, W!NextLessonsInv DEF LessonsStep
  <1>3. CASE UNCHANGED lessonsV
    <2>1. UNCHANGED W!lessonVars
      BY <1>3 DEF lessonsV, W!lessonVars, W!world
    <2> QED BY <1>1, <2>1, LessonsConstantsHold, W!NextLessonsInv
  <1> QED BY <1>1, <1>2, <1>3, OnePartMoves DEF toolVars

\* The store is never torn, a proof stands behind what counts as proven, and only overlapping
\* commands lose history (lessons.go).
THEOREM LessonsKeepHistoryHolds == Spec => LessonsKeepHistory
  <1>1. Init => LessonsPartInv
    BY LessonsConstantsHold, LessonsInitIs, W!InitLessonsInv DEF Init, LessonsPartInv
  <1>2. LessonsPartInv /\ [Next]_toolVars => LessonsPartInv'
    BY LessonsPartKeeps
  <1>3. LessonsPartInv =>
        (part = "lessons" =>
            LessonTool!LessonsTypeOK /\ LessonTool!ProofStandsBehind /\ LessonTool!RecurringIsReal)
    BY LessonsPropertiesAre DEF LessonsPartInv
  <1>4. LessonsPartInv /\ [Next]_toolVars =>
        [part = "lessons" => LessonTool!StaysWhole /\ LessonTool!KeepsHistory]_lessonsV
    <2> SUFFICES ASSUME LessonsPartInv, [Next]_toolVars, part = "lessons"
                 PROVE  (LessonTool!StaysWhole /\ LessonTool!KeepsHistory) \/ UNCHANGED lessonsV
      OBVIOUS
    <2>1. CASE LessonsStep
      BY <2>1, LessonsStepsAre DEF LessonsPartInv, LessonsStep
    <2>2. CASE UNCHANGED toolVars
      BY <2>2 DEF toolVars
    <2> QED BY <2>1, <2>2, OnePartMoves
  <1> QED BY <1>1, <1>2, <1>3, <1>4, PTL DEF Spec, LessonsKeepHistory

-----------------------------------------------------------------------------
(* ReleasePipeline *)

LEMMA ReleaseConstantsHold == W!ReleaseConstants
  BY ReleaseFits
  DEF Release!ReleaseConstants, W!ReleaseConstants

LEMMA ReleaseInitIs == Release!ReleaseInit => W!ReleaseInit
  BY DEF Release!ReleaseInit, W!ReleaseInit

LEMMA ReleaseNextIs == Release!ReleaseNext => W!ReleaseNext
  BY DEF Release!ReleaseNext, Release!PushTag, Release!StartPipeline, Release!NewPipeline,
         Release!IdleJob, Release!IdlePublish, Release!Dispatch, Release!Verify, Release!Job,
         Release!Verified, Release!SetJob, Release!SmokeClaude, Release!Attest, Release!FailJob,
         Release!Resolve, Release!Publishing, Release!Becomes, Release!LookRemote,
         Release!FetchRemote, Release!Push, Release!Rerun, Release!Cardinality, W!ReleaseNext,
         W!PushTag, W!StartPipeline, W!NewPipeline, W!IdleJob, W!IdlePublish, W!Dispatch, W!Verify,
         W!Job, W!Verified, W!SetJob, W!SmokeClaude, W!Attest, W!FailJob, W!Resolve, W!Publishing,
         W!Becomes, W!LookRemote, W!FetchRemote, W!Push, W!Rerun, W!Cardinality

LEMMA ReleasePropertiesAre ==
    ASSUME W!ReleaseInv
    PROVE  Release!ReleaseTypeOK /\ Release!InstallsAreAttested
  <1>1. W!ReleaseTypeOK /\ W!InstallsAreAttested
    BY W!ReleaseInvSays
  <1>2. Release!ReleaseTypeOK
    BY <1>1
    DEF Release!ReleaseTypeOK, Release!Job, W!ReleaseTypeOK, W!Job
  <1>3. Release!InstallsAreAttested
    BY <1>1
    DEF Release!InstallsAreAttested, W!InstallsAreAttested
  <1> QED BY <1>2, <1>3

LEMMA ReleaseStepsAre ==
    ASSUME W!ReleaseInv, Release!ReleaseNext
    PROVE  Release!Forward
  <1>1. W!Forward
    BY ReleaseNextIs, W!ForwardSays
  <1>2. Release!Forward
    BY <1>1
    DEF Release!Forward, W!Forward
  <1> QED BY <1>2

ReleasePartInv == part = "release" => W!ReleaseInv

LEMMA ReleasePartKeeps ==
    ASSUME ReleasePartInv, [Next]_toolVars
    PROVE  ReleasePartInv'
  <1> SUFFICES ASSUME part' = "release"
               PROVE  W!ReleaseInv'
    BY DEF ReleasePartInv
  <1>1. part = "release" /\ W!ReleaseInv
    BY OnePartMoves DEF ReleasePartInv
  <1>2. CASE ReleaseStep
    BY <1>1, <1>2, ReleaseConstantsHold, ReleaseNextIs, W!NextReleaseInv DEF ReleaseStep
  <1>3. CASE UNCHANGED releaseV
    <2>1. UNCHANGED W!releaseVars
      BY <1>3 DEF releaseV, W!releaseVars
    <2> QED BY <1>1, <2>1, ReleaseConstantsHold, W!NextReleaseInv
  <1> QED BY <1>1, <1>2, <1>3, OnePartMoves DEF toolVars

\* What the release branch gets was attested, and it only moves forward (release.go).
THEOREM ReleasesAreAttestedHolds == Spec => ReleasesAreAttested
  <1>1. Init => ReleasePartInv
    BY ReleaseConstantsHold, ReleaseInitIs, W!InitReleaseInv DEF Init, ReleasePartInv
  <1>2. ReleasePartInv /\ [Next]_toolVars => ReleasePartInv'
    BY ReleasePartKeeps
  <1>3. ReleasePartInv => (part = "release" => Release!ReleaseTypeOK /\ Release!InstallsAreAttested)
    BY ReleasePropertiesAre DEF ReleasePartInv
  <1>4. ReleasePartInv /\ [Next]_toolVars =>
        [part = "release" => Release!Forward]_releaseV
    <2> SUFFICES ASSUME ReleasePartInv, [Next]_toolVars, part = "release"
                 PROVE  Release!Forward \/ UNCHANGED releaseV
      OBVIOUS
    <2>1. CASE ReleaseStep
      BY <2>1, ReleaseStepsAre DEF ReleasePartInv, ReleaseStep
    <2>2. CASE UNCHANGED toolVars
      BY <2>2 DEF toolVars
    <2> QED BY <2>1, <2>2, OnePartMoves
  <1> QED BY <1>1, <1>2, <1>3, <1>4, PTL DEF Spec, ReleasesAreAttested

-----------------------------------------------------------------------------
(* BarGuard *)

LEMMA BarConstantsHold == W!BarConstants
  BY BarFits
  DEF Bar!BarConstants, Bar!IsFiniteSet, W!BarConstants, W!IsFiniteSet

LEMMA BarInitIs == Bar!BarInit => W!BarInit
  BY DEF Bar!BarInit, Bar!BarTrees, Bar!BarFiles, W!BarInit, W!BarTrees, W!BarFiles

LEMMA BarNextIs == Bar!BarNext => W!BarNext
  BY DEF Bar!BarNext, Bar!Tool, Bar!StartBar, Bar!Go, Bar!DiffWork, Bar!Differing, Bar!Change,
         Bar!BarFiles, Bar!ReadWork, Bar!Kept, Bar!Trouble, Bar!DiffIndex, Bar!ReadIndex,
         Bar!ListUntracked, Bar!ReadNewFiles, Bar!Inspect, Bar!Passes, Bar!FindingsOf, Bar!OfKind,
         Bar!AddedLines, Bar!LinesOf, Bar!Loosened, Bar!Maxima, Bar!RemovedLines, Bar!Emptied,
         Bar!TestsRemoved, Bar!AddedTests, Bar!NamesOf, Bar!LostAssertions, Bar!Cardinality,
         Bar!kSubset, Bar!Fails, Bar!Somebody, Bar!EditWorking, Bar!StageWorking, W!BarNext, W!Tool,
         W!StartBar, W!Go, W!DiffWork, W!Differing, W!Change, W!BarFiles, W!ReadWork, W!Kept,
         W!Trouble, W!DiffIndex, W!ReadIndex, W!ListUntracked, W!ReadNewFiles, W!Inspect, W!Passes,
         W!FindingsOf, W!OfKind, W!AddedLines, W!LinesOf, W!Loosened, W!Maxima, W!RemovedLines,
         W!Emptied, W!TestsRemoved, W!AddedTests, W!NamesOf, W!LostAssertions, W!Cardinality,
         W!kSubset, W!Fails, W!Somebody, W!EditWorking, W!StageWorking

LEMMA BarPropertiesAre ==
    ASSUME W!BarInv
    PROVE  Bar!BarTypeOK /\ Bar!CleanIsUnweakened /\ Bar!FindingsNeedChange
  <1>1. W!BarTypeOK /\ W!CleanIsUnweakened /\ W!FindingsNeedChange
    BY W!BarInvSays, BarConstantsHold
  <1>2. Bar!BarTypeOK
    BY <1>1
    DEF Bar!BarTypeOK, Bar!BarTrees, Bar!BarFiles, W!BarTypeOK, W!BarTrees, W!BarFiles
  <1>3. Bar!CleanIsUnweakened
    BY <1>1
    DEF Bar!CleanIsUnweakened, Bar!Unweakened, Bar!Waivable, Bar!LinesOf, Bar!Tests, Bar!NamesOf,
        Bar!OfKind, Bar!BarFiles, Bar!Asserts, Bar!Cardinality, Bar!Maxima, W!CleanIsUnweakened,
        W!Unweakened, W!Waivable, W!LinesOf, W!Tests, W!NamesOf, W!OfKind, W!BarFiles, W!Asserts,
        W!Cardinality, W!Maxima
  <1>4. Bar!FindingsNeedChange
    BY <1>1
    DEF Bar!FindingsNeedChange, W!FindingsNeedChange
  <1> QED BY <1>2, <1>3, <1>4

BarPartInv == part = "bar" => W!BarInv

LEMMA BarPartKeeps ==
    ASSUME BarPartInv, [Next]_toolVars
    PROVE  BarPartInv'
  <1> SUFFICES ASSUME part' = "bar"
               PROVE  W!BarInv'
    BY DEF BarPartInv
  <1>1. part = "bar" /\ W!BarInv
    BY OnePartMoves DEF BarPartInv
  <1>2. CASE BarStep
    BY <1>1, <1>2, BarConstantsHold, BarNextIs, W!NextBarInv DEF BarStep
  <1>3. CASE UNCHANGED barV
    <2>1. UNCHANGED W!barVars
      BY <1>3 DEF barV, W!barVars
    <2> QED BY <1>1, <2>1, BarConstantsHold, W!NextBarInv
  <1> QED BY <1>1, <1>2, <1>3, OnePartMoves DEF toolVars

-----------------------------------------------------------------------------
(* DiffParser *)

LEMMA PatchConstantsHold == W!ParserConstants
  BY PatchFits
  DEF Patch!ParserConstants, W!ParserConstants

LEMMA PatchInitIs == Patch!ParserInit => W!ParserInit
  BY DEF Patch!ParserInit, W!ParserInit

LEMMA PatchNextIs == Patch!ParserNext => W!ParserNext
  BY DEF Patch!ParserNext, Patch!ReadPatchLine, Patch!PatchLines, Patch!Line, Patch!Plain,
         Patch!HunkLine, Patch!InHunk, Patch!Removes, Patch!Adds, Patch!Header, Patch!GitHeader,
         Patch!NewFile, Patch!OldHeader, Patch!NewHeader, Patch!HunkHeader, Patch!Metadata,
         Patch!Last, Patch!RefuseLine, Patch!Understood, Patch!EndPatch, Patch!Explained,
         W!ParserNext, W!ReadPatchLine, W!PatchLines, W!Line, W!Plain, W!HunkLine, W!InHunk,
         W!Removes, W!Adds, W!Header, W!GitHeader, W!NewFile, W!OldHeader, W!NewHeader,
         W!HunkHeader, W!Metadata, W!Last, W!RefuseLine, W!Understood, W!EndPatch, W!Explained

LEMMA PatchPropertiesAre ==
    ASSUME W!PatchInv
    PROVE  Patch!ParserTypeOK /\ Patch!OnlyWholePatches
  <1>1. W!ParserTypeOK /\ W!OnlyWholePatches
    BY DEF W!PatchInv
  <1>2. Patch!ParserTypeOK
    BY <1>1
    DEF Patch!ParserTypeOK, Patch!InHunk, Patch!Last, W!ParserTypeOK, W!InHunk, W!Last
  <1>3. Patch!OnlyWholePatches
    BY <1>1
    DEF Patch!OnlyWholePatches, Patch!WholePatch, Patch!HunksOf, Patch!EndsOf, Patch!Removes,
        Patch!Adds, Patch!Cardinality, Patch!RemovedIn, Patch!AddedIn, Patch!InOrder, Patch!OuterOf,
        Patch!StartsOf, Patch!StructureOf, Patch!PreviousOf, Patch!LastOf, Patch!HasKind,
        Patch!FileOf, Patch!ExplainedIn, Patch!IndexOf, Patch!IndexesOf, W!OnlyWholePatches,
        W!WholePatch, W!HunksOf, W!EndsOf, W!Removes, W!Adds, W!Cardinality, W!RemovedIn, W!AddedIn,
        W!InOrder, W!OuterOf, W!StartsOf, W!StructureOf, W!PreviousOf, W!LastOf, W!HasKind,
        W!FileOf, W!ExplainedIn, W!IndexOf, W!IndexesOf
  <1> QED BY <1>2, <1>3

PatchPartInv == part = "patch" => W!PatchInv

LEMMA PatchPartKeeps ==
    ASSUME PatchPartInv, [Next]_toolVars
    PROVE  PatchPartInv'
  <1> SUFFICES ASSUME part' = "patch"
               PROVE  W!PatchInv'
    BY DEF PatchPartInv
  <1>1. part = "patch" /\ W!PatchInv
    BY OnePartMoves DEF PatchPartInv
  <1>2. CASE PatchStep
    BY <1>1, <1>2, PatchConstantsHold, PatchNextIs, W!NextPatchInv DEF PatchStep
  <1>3. CASE UNCHANGED patchV
    <2>1. UNCHANGED W!parserVars
      BY <1>3 DEF patchV, W!parserVars
    <2> QED BY <1>1, <2>1, PatchConstantsHold, W!NextPatchInv
  <1> QED BY <1>1, <1>2, <1>3, OnePartMoves DEF toolVars

-----------------------------------------------------------------------------

\* A tree that bar-guard passes is no weaker than its merge base, only a change is found fault
\* with, and only a whole patch is read (bar-guard.go, parseDiff).
THEOREM BarIsKeptHolds == Spec => []BarIsKept
  <1>1. Init => BarPartInv /\ PatchPartInv
    BY BarConstantsHold, BarInitIs, W!InitBarInv, PatchInitIs, W!InitPatchInv
    DEF Init, BarPartInv, PatchPartInv
  <1>2. BarPartInv /\ [Next]_toolVars => BarPartInv'
    BY BarPartKeeps
  <1>3. PatchPartInv /\ [Next]_toolVars => PatchPartInv'
    BY PatchPartKeeps
  <1>4. BarPartInv /\ PatchPartInv => BarIsKept
    BY BarPropertiesAre, PatchPropertiesAre DEF BarPartInv, PatchPartInv, BarIsKept
  <1> QED BY <1>1, <1>2, <1>3, <1>4, PTL DEF Spec
==============================================================================
