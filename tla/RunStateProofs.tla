--------------------------- MODULE RunStateProofs ---------------------------
(***************************************************************************)
(* Proofs about RunState.  For any number of concurrent commands, items,   *)
(* caps, directories and calls, whichever appends are cut short: types and *)
(* the cap of an item, then what the commands leave on disk before they    *)
(* answer.  For commands that run one at a time, with any crash between    *)
(* two steps and any append cut short: what they decide by reading the     *)
(* journal is still so when they append to it, and the journal implements  *)
(* RunLedger.                                                              *)
(***************************************************************************)
EXTENDS RunState, FiniteSetTheorems, TLAPS

-----------------------------------------------------------------------------
(* Types *)

LEMMA NoCallType == NoCall \in Call
  BY CapsAssumption DEF NoCall, Call, Commands

\* The parts of the type invariant that a process's control changes.
ControlOK ==
    /\ pc \in [Procs -> Steps]
    /\ call \in [Procs -> Call]
    /\ calls \in 0..MaxCalls
    /\ answered \in SUBSET Answer

LEMMA GoType ==
  ASSUME TypeOK, NEW p \in Procs, NEW step \in Steps, Go(p, step)
  PROVE  pc' \in [Procs -> Steps] /\ calls' \in 0..MaxCalls
  BY DEF TypeOK, Go

LEMMA ExitType ==
  ASSUME TypeOK, NEW p \in Procs, Exit(p)
  PROVE  pc' \in [Procs -> Steps] /\ call' \in [Procs -> Call] /\ calls' \in 0..MaxCalls
<1>1. "idle" \in Steps
  BY DEF Steps
<1>2. QED
  BY <1>1, GoType, NoCallType DEF Exit, TypeOK

LEMMA FailType ==
  ASSUME TypeOK, NEW p \in Procs, Fail(p)
  PROVE  ControlOK'
  BY ExitType DEF Fail, ControlOK, TypeOK

LEMMA ReportType ==
  ASSUME TypeOK, NEW p \in Procs, NEW result \in Results, Report(p, result)
  PROVE  ControlOK'
<1>1. Exit(p)
  BY DEF Report
<1>2. [id |-> call[p].id, cmd |-> call[p].cmd, item |-> call[p].item, result |-> result]
        \in Answer
  BY DEF TypeOK, Call, Answer
<1>3. answered' \in SUBSET Answer
  BY <1>2 DEF Report, TypeOK
<1>4. QED
  BY <1>1, <1>3, ExitType DEF ControlOK

LEMMA NewRecordType ==
  ASSUME TypeOK, NEW p \in Procs, NEW event \in Events
  PROVE  NewRecord(p, event) \in JournalRecord
  BY DEF TypeOK, Call, NewRecord, JournalRecord, Cuts

LEMMA AppendJournalType ==
  ASSUME TypeOK, NEW p \in Procs, NEW rec \in JournalRecord, NEW result \in Results,
         AppendJournal(p, rec, result)
  PROVE  journal' \in Seq(JournalRecord) /\ ControlOK'
<1>1. CASE journal' = Append(journal, rec) /\ Report(p, result)
  BY <1>1, ReportType DEF TypeOK
<1>2. CASE journal' = Append(journal, rec) /\ Fail(p)
  BY <1>2, FailType DEF TypeOK
<1>3. CASE /\ \E cut \in {"open", "part"} : journal' = Append(journal, [rec EXCEPT !.cut = cut])
           /\ Fail(p)
  <2>1. PICK cut \in {"open", "part"} : journal' = Append(journal, [rec EXCEPT !.cut = cut])
    BY <1>3
  <2>2. [rec EXCEPT !.cut = cut] \in JournalRecord
    BY DEF JournalRecord, Cuts
  <2>3. QED
    BY <1>3, <2>1, <2>2, FailType DEF TypeOK
<1>4. QED
  BY <1>1, <1>2, <1>3 DEF AppendJournal

LEMMA InvokeType ==
  ASSUME TypeOK, NEW p \in Procs, NEW cmd \in Commands, NEW arguments \in Call,
         NEW step \in Steps, Invoke(p, cmd, arguments, step)
  PROVE  ControlOK'
<1>1. calls + 1 \in Nat /\ calls' \in 0..MaxCalls
  BY CallsAssumption DEF TypeOK, Invoke
<1>2. [arguments EXCEPT !.id = calls + 1, !.cmd = cmd, !.head = head] \in Call
  BY <1>1 DEF TypeOK, Call
<1>3. call' \in [Procs -> Call]
  BY <1>2 DEF TypeOK, Invoke
<1>4. pc' \in [Procs -> Steps] /\ answered' \in SUBSET Answer
  BY DEF TypeOK, Invoke
<1>5. QED
  BY <1>1, <1>3, <1>4 DEF ControlOK

LEMMA StartType ==
  ASSUME TypeOK, NEW p \in Procs, Start(p)
  PROVE  ControlOK' /\ UNCHANGED <<world, files>>
<1>1. CASE \/ Invoke(p, "init", NoCall, "lookRun")
           \/ Invoke(p, "checkpoint", NoCall, "replaceCheckpoint")
           \/ Invoke(p, "resume", NoCall, "parseCheckpoint")
  <2>1. UNCHANGED <<world, files>>
    BY <1>1 DEF Invoke
  <2>2. QED
    BY <1>1, <2>1, InvokeType, NoCallType DEF Steps, Commands
<1>2. ASSUME NEW e \in Notes,
             Invoke(p, "journal", [NoCall EXCEPT !.event = e], "journalNote")
      PROVE  ControlOK' /\ UNCHANGED <<world, files>>
  <2>1. [NoCall EXCEPT !.event = e] \in Call
    BY NoCallType, NotesAssumption DEF Call
  <2>2. QED
    BY <1>2, <2>1, InvokeType DEF Steps, Commands, Invoke
<1>3. ASSUME NEW i \in Items, NEW m \in Caps,
             Invoke(p, "continue", [NoCall EXCEPT !.item = i, !.max = m], "countContinuations")
      PROVE  ControlOK' /\ UNCHANGED <<world, files>>
  <2>1. m \in 0..MaxCap
    BY CapsAssumption
  <2>2. [NoCall EXCEPT !.item = i, !.max = m] \in Call
    BY <2>1, NoCallType DEF Call
  <2>3. QED
    BY <1>3, <2>2, InvokeType DEF Steps, Commands, Invoke
<1>4. ASSUME NEW d \in Dirs, NEW r \in BOOLEAN,
             Invoke(p, "holdout", [NoCall EXCEPT !.dir = d, !.rebaseline = r], "hashScenarios")
      PROVE  ControlOK' /\ UNCHANGED <<world, files>>
  <2>1. [NoCall EXCEPT !.dir = d, !.rebaseline = r] \in Call
    BY NoCallType DEF Call
  <2>2. QED
    BY <1>4, <2>1, InvokeType DEF Steps, Commands, Invoke
<1>5. QED
  BY <1>1, <1>2, <1>3, <1>4 DEF Start

-----------------------------------------------------------------------------
(* The type invariant.  It is inductive only together with what a process   *)
(* that is about to write a record knows of its arguments.                  *)

ArgumentsOK ==
    \A p \in Procs :
      /\ pc[p] = "replaceCheckpoint" => call[p].head \in Heads
      /\ pc[p] = "journalNote" => call[p].event \in Notes /\ call[p].item = None
      /\ pc[p] \in {"hashScenarios", "readRegistration", "journalHoldout"} =>
           call[p].dir \in Dirs
      /\ pc[p] \in {"readRegistration", "journalHoldout"} => call[p].sum \in Sums

TInv == TypeOK /\ ArgumentsOK

WorldOK ==
    /\ head \in Heads
    /\ scenarios \in [Dirs -> Sums \cup {None}]

FilesOK ==
    /\ exclude \in [listed : BOOLEAN, tail : {"closed", "entry", "other"}]
    /\ parents \in BOOLEAN
    /\ runDir \in BOOLEAN
    /\ charter \in Nat \cup {None}
    /\ checkpoint \in [id : Nat, head : Heads] \cup {None}
    /\ handoff \in Nat \cup {None}
    /\ published \in SUBSET Nat
    /\ journal \in Seq(JournalRecord)

LEMMA TypeParts == TypeOK <=> WorldOK /\ FilesOK /\ ControlOK
  BY DEF TypeOK, WorldOK, FilesOK, ControlOK

LEMMA LatestHoldoutType ==
  ASSUME NEW j \in Seq(JournalRecord)
  PROVE  LatestHoldout(j) \in (Dirs \X Sums) \cup {None}
<1> DEFINE IsLatest(i) == \A k \in Registrations(j) : k <= i
           last == CHOOSE i \in Registrations(j) : IsLatest(i)
<1>1. CASE \E i \in Registrations(j) : IsLatest(i)
  <2>1. last \in Registrations(j)
    BY <1>1
  <2>2. j[last] \in JournalRecord
    BY <2>1 DEF Registrations
  <2>3. LatestHoldout(j) = j[last].reg
    BY <1>1 DEF LatestHoldout
  <2>4. QED
    BY <2>2, <2>3 DEF JournalRecord
<1>2. CASE ~ \E i \in Registrations(j) : IsLatest(i)
  BY <1>2 DEF LatestHoldout
<1>3. QED
  BY <1>1, <1>2

LEMMA TypeInit == Init => TInv
<1> SUFFICES ASSUME Init PROVE TInv
  OBVIOUS
<1>0. exclude \in [listed : BOOLEAN, tail : {"closed", "entry", "other"}]
  BY DEF Init
<1>1. WorldOK /\ FilesOK
  <2>1. journal \in Seq(JournalRecord)
    BY DEF Init
  <2>2. published \in SUBSET Nat
    BY DEF Init
  <2>3. charter = None /\ checkpoint = None /\ handoff = None /\ parents = FALSE /\ runDir = FALSE
    BY DEF Init
  <2>4. WorldOK
    BY DEF Init, WorldOK
  <2>5. QED
    BY <1>0, <2>1, <2>2, <2>3, <2>4 DEF FilesOK
<1>2. ControlOK
  BY NoCallType, CallsAssumption DEF Init, ControlOK, Steps
<1>3. ArgumentsOK
  BY DEF Init, ArgumentsOK
<1>4. QED
  BY <1>1, <1>2, <1>3, TypeParts DEF TInv

\* Setting one of the two Boolean fields of a call leaves it a call.
LEMMA BooleanFields ==
  ASSUME NEW c \in Call, NEW b \in BOOLEAN
  PROVE  /\ [c EXCEPT !.pad = b] \in Call
         /\ [c EXCEPT !.match = b] \in Call
  BY DEF Call

\* Every step of a process keeps the types.
LEMMA StepType ==
  ASSUME TInv, NEW p \in Procs, Step(p)
  PROVE  TypeOK'
<1> USE DEF TInv
<1>1. TypeOK /\ WorldOK /\ FilesOK /\ ControlOK
  BY TypeParts
<1>2. SUFFICES WorldOK' /\ FilesOK' /\ ControlOK'
  BY TypeParts DEF TypeOK, WorldOK, FilesOK, ControlOK
<1>3. ASSUME Fail(p), UNCHANGED <<world, files>>
      PROVE  WorldOK' /\ FilesOK' /\ ControlOK'
  BY <1>1, <1>3, FailType DEF WorldOK, FilesOK, world, files
<1>4. ASSUME NEW r \in Results, Report(p, r), UNCHANGED <<world, files>>
      PROVE  WorldOK' /\ FilesOK' /\ ControlOK'
  BY <1>1, <1>4, ReportType DEF WorldOK, FilesOK, world, files
<1>5. ASSUME NEW step \in Steps, Go(p, step), call' \in [Procs -> Call], UNCHANGED answered
      PROVE  ControlOK'
  BY <1>1, <1>5, GoType DEF ControlOK
<1>6. ASSUME NEW rec \in JournalRecord, NEW r \in Results, AppendJournal(p, rec, r), JournalOnly
      PROVE  WorldOK' /\ FilesOK' /\ ControlOK'
  BY <1>1, <1>6, AppendJournalType DEF WorldOK, FilesOK, JournalOnly, world
<1>7. call[p] \in Call
  BY <1>1 DEF ControlOK
<1>8. CASE Start(p)
  BY <1>1, <1>8, StartType DEF WorldOK, FilesOK, world, files
<1>9. ASSUME NEW step, NoRun(p, step)
      PROVE  WorldOK' /\ FilesOK' /\ ControlOK'
  BY <1>3, <1>9 DEF NoRun
<1>10. CASE Abort(p)
  BY <1>3, <1>10 DEF Abort
<1>11. CASE LookRun(p)
  <2>1. CASE Fail(p)
    BY <1>3, <1>11, <2>1 DEF LookRun
  <2>2. CASE Go(p, "checkIgnore") /\ UNCHANGED <<call, answered>>
    BY <1>1, <1>5, <1>11, <2>2 DEF LookRun, Steps, WorldOK, FilesOK, ControlOK, world, files
  <2>3. QED
    BY <1>11, <2>1, <2>2 DEF LookRun
<1>12. CASE CheckIgnore(p)
  BY <1>1, <1>5, <1>12 DEF CheckIgnore, Steps, WorldOK, FilesOK, ControlOK, world, files
<1>13. CASE ReadExclude(p)
  <2>1. call' \in [Procs -> Call]
    <3>1. (exclude.tail # "closed") \in BOOLEAN
      OBVIOUS
    <3>2. [call[p] EXCEPT !.pad = exclude.tail # "closed"] \in Call
      BY ONLY <1>7, <3>1, BooleanFields
    <3>3. call' = [call EXCEPT ![p] = [call[p] EXCEPT !.pad = exclude.tail # "closed"]]
      BY <1>13 DEF ReadExclude
    <3>4. QED
      BY ONLY <1>1, <3>2, <3>3 DEF ControlOK
  <2>2. QED
    BY <1>1, <1>5, <1>13, <2>1 DEF ReadExclude, Steps, WorldOK, FilesOK, world, files
<1>14. CASE AppendExclude(p)
  <2>1. exclude' \in [listed : BOOLEAN, tail : {"closed", "entry", "other"}]
    BY <1>1, <1>7, <1>14 DEF AppendExclude, Glued, FilesOK, Call
  <2>2. QED
    BY <1>1, <1>5, <1>14, <2>1 DEF AppendExclude, Steps, WorldOK, FilesOK, ControlOK, world
<1>15. CASE TearExclude(p)
  <2>1. exclude' \in [listed : BOOLEAN, tail : {"closed", "entry", "other"}]
    BY <1>1, <1>7, <1>15 DEF TearExclude, FilesOK, Call
  <2>2. QED
    BY <1>1, <1>15, <2>1, FailType DEF TearExclude, WorldOK, FilesOK, world
<1>16. CASE LookParents(p)
  BY <1>1, <1>5, <1>16 DEF LookParents, Steps, WorldOK, FilesOK, ControlOK, world, files
<1>17. CASE MakeParents(p)
  <2>1. WorldOK' /\ FilesOK'
    BY <1>1, <1>17 DEF MakeParents, WorldOK, FilesOK, world
  <2>2. CASE Fail(p)
    BY <2>1, <2>2, FailType
  <2>3. CASE Go(p, "makeRun") /\ UNCHANGED <<call, answered>>
    BY <1>1, <1>5, <2>1, <2>3 DEF Steps, ControlOK
  <2>4. QED
    BY <1>17, <2>2, <2>3 DEF MakeParents
<1>18. CASE MakeRun(p)
  <2>1. WorldOK' /\ FilesOK'
    BY <1>1, <1>18 DEF MakeRun, WorldOK, FilesOK, world
  <2>2. CASE Fail(p)
    BY <2>1, <2>2, FailType
  <2>3. CASE Go(p, "writeCharter") /\ UNCHANGED <<call, answered>>
    BY <1>1, <1>5, <2>1, <2>3 DEF Steps, ControlOK
  <2>4. QED
    BY <1>18, <2>2, <2>3 DEF MakeRun
<1>19. CASE WriteCharter(p)
  <2>1. WorldOK' /\ FilesOK'
    BY <1>1, <1>7, <1>19 DEF WriteCharter, WorldOK, FilesOK, world, Call
  <2>2. CASE Fail(p)
    BY <2>1, <2>2, FailType
  <2>3. CASE Go(p, "journalInit") /\ UNCHANGED <<call, answered>>
    BY <1>1, <1>5, <2>1, <2>3 DEF Steps, ControlOK
  <2>4. QED
    BY <1>19, <2>2, <2>3 DEF WriteCharter
<1>20. CASE JournalInit(p)
  BY <1>1, <1>6, <1>20, NewRecordType DEF JournalInit, Events, Results
<1>21. CASE ReplaceCheckpoint(p)
  <2>1. call[p].head \in Heads /\ call[p].id \in Nat
    BY <1>7, <1>21 DEF Call, ReplaceCheckpoint, ArgumentsOK
  <2>2. QED
    BY <1>1, <1>5, <1>21, <2>1 DEF ReplaceCheckpoint, Steps, WorldOK, FilesOK, ControlOK, world
<1>22. CASE ReplaceHandoff(p)
  <2>1. call[p].id \in Nat
    BY <1>7 DEF Call
  <2>2. QED
    BY <1>1, <1>5, <1>22, <2>1 DEF ReplaceHandoff, Steps, WorldOK, FilesOK, ControlOK, world
<1>23. CASE JournalCheckpoint(p)
  BY <1>1, <1>6, <1>23, NewRecordType DEF JournalCheckpoint, Events, Results
<1>24. CASE JournalNote(p)
  <2>1. call[p].event \in Events
    BY <1>24, NotesAssumption DEF JournalNote, ArgumentsOK
  <2>2. QED
    BY <1>1, <1>6, <1>24, <2>1, NewRecordType DEF JournalNote, Results
<1>25. CASE ParseCheckpoint(p)
  <2>1. CASE Fail(p)
    BY <1>3, <1>25, <2>1 DEF ParseCheckpoint
  <2>2. CASE /\ call' = [call EXCEPT ![p].match = checkpoint.head = call[p].head]
             /\ Go(p, "resumeJournal")
             /\ UNCHANGED answered
    <3>1. call' \in [Procs -> Call]
      <4>1. (checkpoint.head = call[p].head) \in BOOLEAN
        OBVIOUS
      <4>2. [call[p] EXCEPT !.match = checkpoint.head = call[p].head] \in Call
        BY ONLY <1>7, <4>1, BooleanFields
      <4>3. call' = [call EXCEPT ![p] = [call[p] EXCEPT !.match = checkpoint.head = call[p].head]]
        BY <2>2
      <4>4. QED
        BY ONLY <1>1, <4>2, <4>3 DEF ControlOK
    <3>2. QED
      BY <1>1, <1>5, <1>25, <2>2, <3>1 DEF ParseCheckpoint, Steps, WorldOK, FilesOK, world, files
  <2>3. QED
    BY <1>25, <2>1, <2>2 DEF ParseCheckpoint
<1>26. CASE ResumeJournal(p)
  <2>1. CASE Fail(p)
    BY <1>3, <1>26, <2>1 DEF ResumeJournal
  <2>2. CASE Report(p, IF call[p].match THEN "match" ELSE "mismatch")
    BY <1>4, <1>26, <2>2 DEF ResumeJournal, Results
  <2>3. CASE /\ call' = [call EXCEPT ![p].reg = LatestHoldout(journal)]
             /\ Go(p, "hashRegistered")
             /\ UNCHANGED answered
    <3>1. call' \in [Procs -> Call]
      BY <1>1, <1>7, <2>3, LatestHoldoutType DEF ControlOK, FilesOK, Call
    <3>2. QED
      BY <1>1, <1>5, <1>26, <2>3, <3>1 DEF ResumeJournal, Steps, WorldOK, FilesOK, world, files
  <2>4. QED
    BY <1>26, <2>1, <2>2, <2>3 DEF ResumeJournal
<1>27. CASE HashRegistered(p)
  BY <1>4, <1>27 DEF HashRegistered, Results
<1>28. CASE CountContinuations(p)
  <2>1. CASE Fail(p)
    BY <1>3, <1>28, <2>1 DEF CountContinuations
  <2>2. CASE Report(p, "blocked")
    BY <1>4, <1>28, <2>2 DEF CountContinuations, Results
  <2>3. ASSUME NEW step \in {"journalContinuation", "journalBlocked"},
               Go(p, step) /\ UNCHANGED <<call, answered>>
        PROVE  WorldOK' /\ FilesOK' /\ ControlOK'
    BY <1>1, <1>5, <1>28, <2>3
       DEF CountContinuations, Steps, WorldOK, FilesOK, ControlOK, world, files
  <2>4. QED
    BY <1>28, <2>1, <2>2, <2>3 DEF CountContinuations
<1>29. CASE JournalContinuation(p)
  BY <1>1, <1>6, <1>29, NewRecordType DEF JournalContinuation, Events, Results
<1>30. CASE JournalBlocked(p)
  BY <1>1, <1>6, <1>30, NewRecordType DEF JournalBlocked, Events, Results
<1>31. CASE HashScenarios(p)
  <2>1. CASE Fail(p)
    BY <1>3, <1>31, <2>1 DEF HashScenarios
  <2>2. CASE /\ call' = [call EXCEPT ![p].sum = scenarios[call[p].dir]]
             /\ Go(p, "readRegistration")
             /\ UNCHANGED answered
    <3>1. scenarios[call[p].dir] \in Sums \cup {None}
      BY <1>1, <1>31 DEF HashScenarios, ArgumentsOK, WorldOK
    <3>2. call' \in [Procs -> Call]
      BY <1>1, <1>7, <2>2, <3>1 DEF ControlOK, Call
    <3>3. QED
      BY <1>1, <1>5, <1>31, <2>2, <3>2 DEF HashScenarios, Steps, WorldOK, FilesOK, world, files
  <2>3. QED
    BY <1>31, <2>1, <2>2 DEF HashScenarios
<1>32. CASE ReadRegistration(p)
  <2>1. CASE Fail(p)
    BY <1>3, <1>32, <2>1 DEF ReadRegistration
  <2>2. ASSUME NEW r \in {"match", "mismatch"}, Report(p, r)
        PROVE  WorldOK' /\ FilesOK' /\ ControlOK'
    BY <1>4, <1>32, <2>2 DEF ReadRegistration, Results
  <2>3. CASE /\ call' = [call EXCEPT ![p].reg = LatestHoldout(journal)]
             /\ Go(p, "journalHoldout")
             /\ UNCHANGED answered
    <3>1. call' \in [Procs -> Call]
      BY <1>1, <1>7, <2>3, LatestHoldoutType DEF ControlOK, FilesOK, Call
    <3>2. QED
      BY <1>1, <1>5, <1>32, <2>3, <3>1 DEF ReadRegistration, Steps, WorldOK, FilesOK, world, files
  <2>4. QED
    BY <1>32, <2>1, <2>2, <2>3 DEF ReadRegistration
<1>33. CASE JournalHoldout(p)
  <2>1. call[p].dir \in Dirs /\ call[p].sum \in Sums
    BY <1>33 DEF JournalHoldout, ArgumentsOK
  <2>2. NewRecord(p, "holdout") \in JournalRecord
    BY <1>1, NewRecordType DEF Events
  <2>3. [NewRecord(p, "holdout") EXCEPT !.reg = <<call[p].dir, call[p].sum>>,
                                        !.decision = call[p].reg # None] \in JournalRecord
    BY <2>1, <2>2 DEF JournalRecord
  <2>4. QED
    BY <1>6, <1>33, <2>3 DEF JournalHoldout, Results
<1>34. QED
  BY <1>8, <1>9, <1>10, <1>11, <1>12, <1>13, <1>14, <1>15, <1>16, <1>17, <1>18, <1>19, <1>20,
     <1>21, <1>22, <1>23, <1>24, <1>25, <1>26, <1>27, <1>28, <1>29, <1>30, <1>31, <1>32, <1>33
     DEF Step

\* A process's step leaves the control of the others alone.
LEMMA Others ==
  ASSUME TypeOK, NEW p \in Procs, Step(p), NEW q \in Procs, q # p
  PROVE  pc'[q] = pc[q] /\ call'[q] = call[q]
<1> USE DEF TypeOK
<1>1. ASSUME NEW cmd, NEW arguments, NEW step, Invoke(p, cmd, arguments, step)
      PROVE  pc'[q] = pc[q] /\ call'[q] = call[q]
  BY <1>1 DEF Invoke
<1>2. CASE Start(p)
  BY <1>1, <1>2 DEF Start
<1>3. ASSUME NEW step, Go(p, step)
      PROVE  pc'[q] = pc[q]
  BY <1>3 DEF Go
<1>4. ASSUME Exit(p)
      PROVE  pc'[q] = pc[q] /\ call'[q] = call[q]
  BY <1>3, <1>4 DEF Exit
<1>5. ASSUME Fail(p) \/ \E r : Report(p, r)
      PROVE  pc'[q] = pc[q] /\ call'[q] = call[q]
  BY <1>4, <1>5 DEF Fail, Report
<1>6. ASSUME NEW rec, NEW r, AppendJournal(p, rec, r)
      PROVE  pc'[q] = pc[q] /\ call'[q] = call[q]
  BY <1>5, <1>6 DEF AppendJournal
<1>7. CASE \/ LookRun(p) \/ CheckIgnore(p) \/ ReadExclude(p) \/ AppendExclude(p)
           \/ TearExclude(p) \/ LookParents(p) \/ MakeParents(p) \/ MakeRun(p)
           \/ WriteCharter(p)
  BY <1>3, <1>5, <1>7 DEF LookRun, CheckIgnore, ReadExclude, AppendExclude, TearExclude,
       LookParents, MakeParents, MakeRun, WriteCharter
<1>8. CASE \/ JournalInit(p) \/ JournalCheckpoint(p) \/ JournalNote(p)
           \/ JournalContinuation(p) \/ JournalBlocked(p) \/ JournalHoldout(p)
  BY <1>6, <1>8 DEF JournalInit, JournalCheckpoint, JournalNote, JournalContinuation,
       JournalBlocked, JournalHoldout
<1>9. CASE \/ ReplaceCheckpoint(p) \/ ReplaceHandoff(p) \/ ParseCheckpoint(p)
           \/ ResumeJournal(p) \/ HashRegistered(p) \/ CountContinuations(p)
           \/ HashScenarios(p) \/ ReadRegistration(p)
  BY <1>3, <1>5, <1>9 DEF ReplaceCheckpoint, ReplaceHandoff, ParseCheckpoint, ResumeJournal,
       HashRegistered, CountContinuations, HashScenarios, ReadRegistration
<1>10. CASE Abort(p) \/ \E step : NoRun(p, step)
  BY <1>5, <1>10 DEF Abort, NoRun
<1>11. QED
  BY <1>2, <1>7, <1>8, <1>9, <1>10 DEF Step

\* What a process knows of its arguments, established when it starts and kept
\* until it writes.
ArgumentsOf(p) ==
    /\ pc[p] = "replaceCheckpoint" => call[p].head \in Heads
    /\ pc[p] = "journalNote" => call[p].event \in Notes /\ call[p].item = None
    /\ pc[p] \in {"hashScenarios", "readRegistration", "journalHoldout"} =>
         call[p].dir \in Dirs
    /\ pc[p] \in {"readRegistration", "journalHoldout"} => call[p].sum \in Sums

LEMMA StepArguments ==
  ASSUME TInv, NEW p \in Procs, Step(p)
  PROVE  ArgumentsOf(p)'
<1> USE DEF TInv
<1> DEFINE Careful == {"replaceCheckpoint", "journalNote", "hashScenarios",
                       "readRegistration", "journalHoldout"}
<1>1. pc \in [Procs -> Steps] /\ call \in [Procs -> Call] /\ head \in Heads
  BY DEF TypeOK
<1>2. ASSUME pc'[p] \notin Careful
      PROVE  ArgumentsOf(p)'
  BY <1>2 DEF ArgumentsOf
<1>3. ASSUME NEW step, step \notin Careful, Go(p, step)
      PROVE  ArgumentsOf(p)'
  BY <1>1, <1>2, <1>3 DEF Go
<1>4. ASSUME Exit(p)
      PROVE  ArgumentsOf(p)'
  BY <1>3, <1>4 DEF Exit
<1>5. ASSUME Fail(p) \/ \E r : Report(p, r)
      PROVE  ArgumentsOf(p)'
  BY <1>4, <1>5 DEF Fail, Report
<1>6. ASSUME NEW rec, NEW r, AppendJournal(p, rec, r)
      PROVE  ArgumentsOf(p)'
  BY <1>5, <1>6 DEF AppendJournal
<1>7. CASE Start(p)
  <2>1. ASSUME NEW cmd, NEW step, step \notin Careful, Invoke(p, cmd, NoCall, step)
        PROVE  ArgumentsOf(p)'
    BY <1>1, <1>2, <2>1 DEF Invoke
  <2>2. CASE Invoke(p, "checkpoint", NoCall, "replaceCheckpoint")
    <3>1. pc'[p] = "replaceCheckpoint" /\ call'[p].head = head
      BY <1>1, <2>2 DEF Invoke, NoCall
    <3>2. QED
      BY <1>1, <3>1 DEF ArgumentsOf
  <2>3. ASSUME NEW e \in Notes,
               Invoke(p, "journal", [NoCall EXCEPT !.event = e], "journalNote")
        PROVE  ArgumentsOf(p)'
    <3>1. pc'[p] = "journalNote" /\ call'[p].event = e /\ call'[p].item = None
      BY <1>1, <2>3 DEF Invoke, NoCall
    <3>2. QED
      BY <3>1 DEF ArgumentsOf
  <2>4. ASSUME NEW i \in Items, NEW m \in Caps,
               Invoke(p, "continue", [NoCall EXCEPT !.item = i, !.max = m], "countContinuations")
        PROVE  ArgumentsOf(p)'
    BY <1>1, <1>2, <2>4 DEF Invoke
  <2>5. ASSUME NEW d \in Dirs, NEW r \in BOOLEAN,
               Invoke(p, "holdout", [NoCall EXCEPT !.dir = d, !.rebaseline = r], "hashScenarios")
        PROVE  ArgumentsOf(p)'
    <3>1. pc'[p] = "hashScenarios" /\ call'[p].dir = d
      BY <1>1, <2>5 DEF Invoke, NoCall
    <3>2. QED
      BY <3>1 DEF ArgumentsOf
  <2>6. QED
    BY <1>7, <2>1, <2>2, <2>3, <2>4, <2>5 DEF Start
<1>8. CASE \/ LookRun(p) \/ CheckIgnore(p) \/ ReadExclude(p) \/ AppendExclude(p)
           \/ TearExclude(p) \/ LookParents(p) \/ MakeParents(p) \/ MakeRun(p)
           \/ WriteCharter(p)
  BY <1>3, <1>5, <1>8 DEF LookRun, CheckIgnore, ReadExclude, AppendExclude, TearExclude,
       LookParents, MakeParents, MakeRun, WriteCharter
<1>9. CASE \/ JournalInit(p) \/ JournalCheckpoint(p) \/ JournalNote(p)
           \/ JournalContinuation(p) \/ JournalBlocked(p) \/ JournalHoldout(p)
  BY <1>6, <1>9 DEF JournalInit, JournalCheckpoint, JournalNote, JournalContinuation,
       JournalBlocked, JournalHoldout
<1>10. CASE \/ ReplaceCheckpoint(p) \/ ReplaceHandoff(p) \/ ParseCheckpoint(p)
            \/ ResumeJournal(p) \/ HashRegistered(p) \/ CountContinuations(p)
  BY <1>3, <1>5, <1>10 DEF ReplaceCheckpoint, ReplaceHandoff, ParseCheckpoint, ResumeJournal,
       HashRegistered, CountContinuations
<1>11. CASE HashScenarios(p)
  <2>1. scenarios[call[p].dir] \in Sums \cup {None}
    BY <1>11 DEF HashScenarios, ArgumentsOK, TypeOK
  <2>2. CASE /\ scenarios[call[p].dir] # None
             /\ call' = [call EXCEPT ![p].sum = scenarios[call[p].dir]]
             /\ Go(p, "readRegistration")
    <3>1. pc'[p] = "readRegistration" /\ call'[p].sum \in Sums /\ call'[p].dir = call[p].dir
      BY <1>1, <2>1, <2>2 DEF Go, Call
    <3>2. QED
      BY <1>11, <3>1 DEF ArgumentsOf, ArgumentsOK, HashScenarios
  <2>3. QED
    BY <1>5, <1>11, <2>2 DEF HashScenarios
<1>12. CASE ReadRegistration(p)
  <2>1. CASE /\ call' = [call EXCEPT ![p].reg = LatestHoldout(journal)]
             /\ Go(p, "journalHoldout")
    <3>1. pc'[p] = "journalHoldout" /\ call'[p].sum = call[p].sum /\ call'[p].dir = call[p].dir
      BY <1>1, <2>1 DEF Go, Call
    <3>2. QED
      BY <1>12, <3>1 DEF ArgumentsOf, ArgumentsOK, ReadRegistration
  <2>2. QED
    BY <1>5, <1>12, <2>1 DEF ReadRegistration
<1>13. CASE Abort(p) \/ \E step : NoRun(p, step)
  BY <1>5, <1>13 DEF Abort, NoRun
<1>14. QED
  BY <1>7, <1>8, <1>9, <1>10, <1>11, <1>12, <1>13 DEF Step

LEMMA TypeNext == TInv /\ [Next]_vars => TInv'
<1> SUFFICES ASSUME TInv, [Next]_vars PROVE TInv'
  OBVIOUS
<1> USE DEF TInv
<1>1. ASSUME NEW p \in Procs, Step(p)
      PROVE  TInv'
  <2>1. TypeOK'
    BY <1>1, StepType
  <2>2. ASSUME NEW q \in Procs
        PROVE  ArgumentsOf(q)'
    <3>1. CASE q = p
      BY <1>1, <3>1, StepArguments
    <3>2. CASE q # p
      BY <1>1, <3>2, Others DEF ArgumentsOf, ArgumentsOK
    <3>3. QED
      BY <3>1, <3>2
  <2>3. ArgumentsOK'
    BY <2>2 DEF ArgumentsOK, ArgumentsOf
  <2>4. QED
    BY <2>1, <2>3
<1>2. CASE Commit
  BY <1>2 DEF Commit, files, TypeOK, ArgumentsOK
<1>3. CASE EditScenarios
  <2>1. scenarios' \in [Dirs -> Sums \cup {None}]
    BY <1>3 DEF EditScenarios, TypeOK
  <2>2. QED
    BY <1>3, <2>1 DEF EditScenarios, files, TypeOK, ArgumentsOK
<1>4. CASE UNCHANGED vars
  BY <1>4 DEF vars, world, files, TypeOK, ArgumentsOK
<1>5. QED
  BY <1>1, <1>2, <1>3, <1>4 DEF Next

\* The type invariant holds of every behaviour, with what each process knows of
\* its arguments.
THEOREM Invariance == Spec => []TInv
<1>1. Init => TInv
  BY TypeInit
<1>2. TInv /\ [Next]_vars => TInv'
  BY TypeNext
<1>3. QED
  BY <1>1, <1>2, PTL DEF Spec

\* Every variable keeps its type, whatever the processes do and however they die.
THEOREM TypeCorrect == Spec => []TypeOK
<1>1. TInv => TypeOK
  BY DEF TInv
<1>2. QED
  BY <1>1, Invariance, PTL

-----------------------------------------------------------------------------
(* The journal *)

LEMMA RecordsFinite ==
  ASSUME NEW j \in Seq(JournalRecord), NEW event, NEW item
  PROVE  /\ RecordsOf(j, event, item) \subseteq 1..Len(j)
         /\ IsFiniteSet(RecordsOf(j, event, item))
         /\ Continuations(j, item) \in Nat
<1>1. ASSUME NEW e
      PROVE  RecordsOf(j, e, item) \subseteq 1..Len(j) /\ IsFiniteSet(RecordsOf(j, e, item))
  <2>1. RecordsOf(j, e, item) \subseteq 1..Len(j)
    BY DEF RecordsOf
  <2>2. IsFiniteSet(1..Len(j))
    BY FS_Interval
  <2>3. QED
    BY <2>1, <2>2, FS_Subset
<1>2. QED
  BY <1>1, FS_CardinalityType DEF Continuations

\* An append adds at most its own record to those of an item's event.
LEMMA AppendRecords ==
  ASSUME NEW j \in Seq(JournalRecord), NEW rec \in JournalRecord, NEW event, NEW item
  PROVE  RecordsOf(Append(j, rec), event, item) =
           IF rec.event = event /\ rec.item = item /\ rec.cut # "part"
           THEN RecordsOf(j, event, item) \cup {Len(j) + 1}
           ELSE RecordsOf(j, event, item)
<1> DEFINE k == Append(j, rec)
<1>1. /\ Len(k) = Len(j) + 1
      /\ DOMAIN j = 1..Len(j)
      /\ DOMAIN k = 1..(Len(j) + 1)
      /\ k[Len(j) + 1] = rec
      /\ \A i \in 1..Len(j) : k[i] = j[i]
  OBVIOUS
<1>2. Len(j) \in Nat
  OBVIOUS
<1>3. QED
  BY <1>1, <1>2 DEF RecordsOf

LEMMA AppendContinuations ==
  ASSUME NEW j \in Seq(JournalRecord), NEW rec \in JournalRecord, NEW item
  PROVE  /\ Continuations(Append(j, rec), item) <= Continuations(j, item) + 1
         /\ rec.event # "continuation" \/ rec.item # item =>
              Continuations(Append(j, rec), item) = Continuations(j, item)
<1> DEFINE R == RecordsOf(j, "continuation", item)
           S == RecordsOf(Append(j, rec), "continuation", item)
<1>1. R \subseteq 1..Len(j) /\ IsFiniteSet(R) /\ Continuations(j, item) \in Nat
  BY RecordsFinite
<1>2. CASE rec.event = "continuation" /\ rec.item = item /\ rec.cut # "part"
  <2>1. S = R \cup {Len(j) + 1}
    BY <1>2, AppendRecords
  <2>2. Len(j) + 1 \notin R
    BY <1>1
  <2>3. Cardinality(R \cup {Len(j) + 1}) = Cardinality(R) + 1
    <3> HIDE DEF R
    <3>1. QED
      BY <1>1, <2>2, FS_AddElement
  <2>4. Cardinality(S) = Cardinality(R) + 1
    BY <2>1, <2>3
  <2>5. Continuations(Append(j, rec), item) = Continuations(j, item) + 1
    BY <2>4 DEF Continuations
  <2>6. QED
    BY <1>1, <1>2, <2>5
<1>3. CASE ~(rec.event = "continuation" /\ rec.item = item /\ rec.cut # "part")
  <2>1. S = R
    BY <1>3, AppendRecords
  <2>2. QED
    BY <1>1, <2>1 DEF Continuations
<1>4. QED
  BY <1>2, <1>3

-----------------------------------------------------------------------------
(* The cap.  A command that has seen a free place and not yet taken it is   *)
(* counted as if it had: the sum grows only when a command sees a free      *)
(* place, and then at most all the processes are between the two steps.     *)

Granted(i) == {p \in Procs : pc[p] = "journalContinuation" /\ call[p].item = i}

CapInv == \A i \in Items :
    Continuations(journal, i) + Cardinality(Granted(i)) <= MaxCap + Cardinality(Procs) - 1

LEMMA GrantedFinite ==
  ASSUME NEW i
  PROVE  /\ Granted(i) \subseteq Procs
         /\ IsFiniteSet(Granted(i))
         /\ Cardinality(Granted(i)) \in Nat
         /\ Cardinality(Procs) \in Nat
         /\ Cardinality(Granted(i)) <= Cardinality(Procs)
<1>1. Granted(i) \in SUBSET Procs
  BY DEF Granted
<1>2. QED
  BY <1>1, ProcsAssumption, FS_Subset, FS_CardinalityType

LEMMA GrantedFinitePrime ==
  ASSUME NEW i
  PROVE  /\ IsFiniteSet(Granted(i)')
         /\ Cardinality(Granted(i)') \in Nat
         /\ Cardinality(Granted(i)') <= Cardinality(Procs)
<1>1. Granted(i)' \in SUBSET Procs
  BY DEF Granted
<1>2. QED
  BY <1>1, ProcsAssumption, FS_Subset, FS_CardinalityType

\* A step that grants nothing and appends no continuation keeps the sum.
LEMMA CapKept ==
  ASSUME TypeOK, CapInv, NEW i \in Items,
         Granted(i)' \subseteq Granted(i),
         Continuations(journal', i) = Continuations(journal, i)
  PROVE  Continuations(journal', i) + Cardinality(Granted(i)')
           <= MaxCap + Cardinality(Procs) - 1
<1>1. Granted(i)' \in SUBSET Granted(i)
  OBVIOUS
<1>2. Cardinality(Granted(i)') <= Cardinality(Granted(i))
  BY <1>1, GrantedFinite, FS_Subset
<1>3. Continuations(journal, i) \in Nat
  BY RecordsFinite DEF TypeOK
<1>4. QED
  BY <1>2, <1>3, GrantedFinite, GrantedFinitePrime, CapsAssumption DEF CapInv

LEMMA NotGranting ==
  ASSUME TypeOK, NEW p \in Procs, Step(p), pc'[p] # "journalContinuation", NEW i
  PROVE  Granted(i)' \subseteq Granted(i) \ {p}
<1> SUFFICES ASSUME NEW q \in Procs, pc'[q] = "journalContinuation", call'[q].item = i
             PROVE  q \in Granted(i) \ {p}
  BY DEF Granted
<1>1. q # p
  OBVIOUS
<1>2. pc'[q] = pc[q] /\ call'[q] = call[q]
  BY <1>1, Others
<1>3. QED
  BY <1>1, <1>2 DEF Granted

\* An append writes the record, whole or cut, and the process exits.
LEMMA AppendJournalShape ==
  ASSUME TypeOK, NEW p \in Procs, NEW rec \in JournalRecord, rec.cut = "whole", NEW r,
         AppendJournal(p, rec, r)
  PROVE  /\ pc'[p] = "idle"
         /\ \E w \in JournalRecord : /\ journal' = Append(journal, w)
                                     /\ w.event = rec.event /\ w.item = rec.item
<1>1. pc'[p] = "idle"
  BY DEF AppendJournal, Report, Fail, Exit, Go, TypeOK
<1>2. CASE journal' = Append(journal, rec)
  BY <1>1, <1>2
<1>3. ASSUME NEW cut \in {"open", "part"}, journal' = Append(journal, [rec EXCEPT !.cut = cut])
      PROVE  \E w \in JournalRecord : /\ journal' = Append(journal, w)
                                      /\ w.event = rec.event /\ w.item = rec.item
  <2>1. [rec EXCEPT !.cut = cut] \in JournalRecord
    BY DEF JournalRecord, Cuts
  <2>2. [rec EXCEPT !.cut = cut].event = rec.event /\ [rec EXCEPT !.cut = cut].item = rec.item
    BY DEF JournalRecord
  <2>3. QED
    BY <1>3, <2>1, <2>2
<1>4. QED
  BY <1>1, <1>2, <1>3 DEF AppendJournal

LEMMA CapStep ==
  ASSUME TInv, CapInv, NEW p \in Procs, Step(p), NEW i \in Items
  PROVE  Continuations(journal', i) + Cardinality(Granted(i)')
           <= MaxCap + Cardinality(Procs) - 1
<1> USE DEF TInv
<1>1. pc \in [Procs -> Steps] /\ journal \in Seq(JournalRecord) /\ call[p] \in Call
  BY DEF TypeOK
<1>2. ASSUME journal' = journal, pc'[p] # "journalContinuation"
      PROVE  Continuations(journal', i) + Cardinality(Granted(i)')
               <= MaxCap + Cardinality(Procs) - 1
  <2>1. Granted(i)' \subseteq Granted(i)
    BY <1>2, NotGranting
  <2>2. QED
    BY <1>2, <2>1, CapKept
<1>3. ASSUME NEW rec \in JournalRecord, rec.cut = "whole", NEW r, AppendJournal(p, rec, r),
             rec.event # "continuation" \/ rec.item # i
      PROVE  Continuations(journal', i) + Cardinality(Granted(i)')
               <= MaxCap + Cardinality(Procs) - 1
  <2>1. PICK w \in JournalRecord : /\ journal' = Append(journal, w)
                                   /\ w.event = rec.event /\ w.item = rec.item
    BY <1>3, AppendJournalShape
  <2>2. Granted(i)' \subseteq Granted(i)
    BY <1>3, AppendJournalShape, NotGranting
  <2>3. Continuations(journal', i) = Continuations(journal, i)
    BY <1>1, <1>3, <2>1, AppendContinuations
  <2>4. QED
    BY <2>2, <2>3, CapKept
<1>4. ASSUME NEW step, step # "journalContinuation", Go(p, step), UNCHANGED files
      PROVE  Continuations(journal', i) + Cardinality(Granted(i)')
               <= MaxCap + Cardinality(Procs) - 1
  BY <1>1, <1>2, <1>4 DEF Go, files
<1>5. ASSUME Exit(p), journal' = journal
      PROVE  Continuations(journal', i) + Cardinality(Granted(i)')
               <= MaxCap + Cardinality(Procs) - 1
  BY <1>1, <1>2, <1>5 DEF Exit, Go
<1>6. ASSUME NEW step, step # "journalContinuation", Go(p, step), journal' = journal
      PROVE  Continuations(journal', i) + Cardinality(Granted(i)')
               <= MaxCap + Cardinality(Procs) - 1
  BY <1>1, <1>2, <1>6 DEF Go
<1>7. CASE Start(p)
  <2>1. ASSUME NEW cmd, NEW arguments, NEW step, step # "journalContinuation",
               Invoke(p, cmd, arguments, step)
        PROVE  journal' = journal /\ pc'[p] # "journalContinuation"
    BY <1>1, <2>1 DEF Invoke, files
  <2>2. journal' = journal /\ pc'[p] # "journalContinuation"
    BY <1>7, <2>1 DEF Start
  <2>3. QED
    BY <1>2, <2>2
<1>8. CASE Abort(p) \/ \E step : NoRun(p, step)
  BY <1>5, <1>8 DEF Abort, NoRun, Fail, files
<1>9. CASE LookRun(p) \/ CheckIgnore(p) \/ ReadExclude(p) \/ AppendExclude(p) \/ TearExclude(p)
  BY <1>5, <1>6, <1>9 DEF LookRun, CheckIgnore, ReadExclude, AppendExclude, TearExclude, Fail,
     files
<1>10. CASE LookParents(p) \/ MakeParents(p) \/ MakeRun(p) \/ WriteCharter(p)
  BY <1>5, <1>6, <1>10 DEF LookParents, MakeParents, MakeRun, WriteCharter, Fail, files
<1>11. CASE \/ ReplaceCheckpoint(p) \/ ReplaceHandoff(p) \/ ParseCheckpoint(p)
            \/ ResumeJournal(p) \/ HashRegistered(p)
  BY <1>5, <1>6, <1>11 DEF ReplaceCheckpoint, ReplaceHandoff, ParseCheckpoint, ResumeJournal,
     HashRegistered, Fail, Report, files
<1>12. CASE HashScenarios(p) \/ ReadRegistration(p)
  BY <1>5, <1>6, <1>12 DEF HashScenarios, ReadRegistration, Fail, Report, files
<1>13. ASSUME NEW event \in Events, event # "continuation" \/ call[p].item # i,
              NEW rec \in JournalRecord, NEW r, AppendJournal(p, rec, r),
              rec.event = event, rec.item = call[p].item, rec.cut = "whole"
       PROVE  Continuations(journal', i) + Cardinality(Granted(i)')
                <= MaxCap + Cardinality(Procs) - 1
  BY <1>3, <1>13
<1>14. ASSUME NEW event \in Events
       PROVE  /\ NewRecord(p, event) \in JournalRecord
              /\ NewRecord(p, event).event = event
              /\ NewRecord(p, event).item = call[p].item
              /\ NewRecord(p, event).cut = "whole"
  BY NewRecordType DEF NewRecord
<1>15. CASE JournalInit(p)
  BY <1>13, <1>14, <1>15 DEF JournalInit, Events
<1>16. CASE JournalCheckpoint(p)
  BY <1>13, <1>14, <1>16 DEF JournalCheckpoint, Events
<1>17. CASE JournalBlocked(p)
  BY <1>13, <1>14, <1>17 DEF JournalBlocked, Events
<1>18. CASE JournalHoldout(p)
  <2>1. call[p].dir \in Dirs /\ call[p].sum \in Sums
    BY <1>18 DEF JournalHoldout, ArgumentsOK
  <2> DEFINE rec == [NewRecord(p, "holdout") EXCEPT !.reg = <<call[p].dir, call[p].sum>>,
                                                   !.decision = call[p].reg # None]
  <2>2. NewRecord(p, "holdout") \in JournalRecord
    BY <1>14 DEF Events
  <2>3. rec \in JournalRecord
    BY <2>1, <2>2 DEF JournalRecord
  <2>4. rec.event = "holdout" /\ rec.item = call[p].item /\ rec.cut = "whole"
    BY <2>2 DEF JournalRecord, NewRecord
  <2>5. AppendJournal(p, rec, "ok")
    BY <1>18 DEF JournalHoldout
  <2>6. QED
    BY <1>13, <2>3, <2>4, <2>5 DEF Events
<1>19. CASE JournalNote(p)
  <2>1. call[p].event \in Events
    BY <1>19, NotesAssumption DEF JournalNote, ArgumentsOK
  <2>2. call[p].item = None
    BY <1>19 DEF JournalNote, ArgumentsOK
  <2>3. call[p].item # i
    BY <2>2, NoneAssumption
  <2>4. QED
    BY <1>13, <1>14, <1>19, <2>1, <2>3 DEF JournalNote
<1>20. CASE CountContinuations(p)
  <2>1. CASE Exit(p)
    BY <1>5, <1>20, <2>1 DEF CountContinuations, files
  <2>2. CASE Go(p, "journalBlocked")
    BY <1>4, <1>20, <2>2 DEF CountContinuations
  <2>3. CASE /\ Go(p, "journalContinuation") /\ UNCHANGED call
             /\ Continuations(journal, call[p].item) < call[p].max
    <3>1. journal' = journal
      BY <1>20 DEF CountContinuations, files
    <3>2. CASE call[p].item = i
      <4>1. Continuations(journal, i) \in Nat /\ Continuations(journal, i) <= MaxCap - 1
        <5>1. Continuations(journal, i) \in Nat
          BY <1>1, RecordsFinite
        <5>2. call[p].max \in Nat /\ call[p].max <= MaxCap
          BY <1>1, CapsAssumption DEF Call
        <5>3. QED
          BY <2>3, <3>2, <5>1, <5>2, CapsAssumption
      <4>2. Continuations(journal', i) = Continuations(journal, i)
        BY <3>1
      <4>3. /\ Cardinality(Granted(i)') \in Nat
            /\ Cardinality(Granted(i)') <= Cardinality(Procs)
            /\ Cardinality(Procs) \in Nat
        BY GrantedFinitePrime, GrantedFinite
      <4>4. QED
        BY <4>1, <4>2, <4>3, CapsAssumption
    <3>3. CASE call[p].item # i
      <4>1. ASSUME NEW q \in Procs, pc'[q] = "journalContinuation", call'[q].item = i
            PROVE  q \in Granted(i)
        <5>1. q # p
          BY <2>3, <3>3, <4>1
        <5>2. QED
          BY <4>1, <5>1, Others DEF Granted
      <4>2. Granted(i)' \subseteq Granted(i)
        BY <4>1 DEF Granted
      <4>3. QED
        BY <3>1, <4>2, CapKept
    <3>4. QED
      BY <3>2, <3>3
  <2>4. QED
    BY <1>20, <2>1, <2>2, <2>3 DEF CountContinuations, Fail, Report
<1>21. CASE JournalContinuation(p)
  <2>1. CASE call[p].item # i
    BY <1>13, <1>14, <1>21, <2>1 DEF JournalContinuation, Events
  <2>2. CASE call[p].item = i
    <3>1. PICK w \in JournalRecord : journal' = Append(journal, w)
      BY <1>14, <1>21, AppendJournalShape DEF JournalContinuation, Events
    <3>2. pc'[p] = "idle"
      BY <1>14, <1>21, AppendJournalShape DEF JournalContinuation, Events
    <3>3. /\ Continuations(journal', i) <= Continuations(journal, i) + 1
          /\ Continuations(journal, i) \in Nat
      BY <1>1, <3>1, AppendContinuations, RecordsFinite
    <3>4. Append(journal, w) \in Seq(JournalRecord)
      BY <1>1, <3>1
    <3>5. Continuations(journal', i) \in Nat
      BY <3>1, <3>4, RecordsFinite
    <3>6. Granted(i)' \in SUBSET (Granted(i) \ {p})
      BY <3>2, NotGranting
    <3>7. p \in Granted(i)
      BY <1>21, <2>2 DEF Granted, JournalContinuation
    <3>8. /\ IsFiniteSet(Granted(i) \ {p})
          /\ Cardinality(Granted(i) \ {p}) = Cardinality(Granted(i)) - 1
      BY <3>7, GrantedFinite, FS_RemoveElement
    <3>9. Cardinality(Granted(i)') <= Cardinality(Granted(i)) - 1
      BY <3>6, <3>8, FS_Subset
    <3>10. QED
      BY <3>3, <3>5, <3>9, GrantedFinite, GrantedFinitePrime, CapsAssumption DEF CapInv
  <2>3. QED
    BY <2>1, <2>2
<1>22. QED
  BY <1>7, <1>8, <1>9, <1>10, <1>11, <1>12, <1>15, <1>16, <1>17, <1>18, <1>19, <1>20, <1>21
     DEF Step

LEMMA CapInit == Init => CapInv
<1> SUFFICES ASSUME Init, NEW i \in Items
             PROVE  Continuations(journal, i) + Cardinality(Granted(i))
                      <= MaxCap + Cardinality(Procs) - 1
  BY DEF CapInv
<1>1. RecordsOf(journal, "continuation", i) = {}
  BY DEF Init, RecordsOf
<1>2. Granted(i) = {}
  BY DEF Init, Granted
<1>3. QED
  BY <1>1, <1>2, FS_EmptySet, GrantedFinite, CapsAssumption DEF Continuations

LEMMA CapNext == TInv /\ CapInv /\ [Next]_vars => CapInv'
<1> SUFFICES ASSUME TInv, CapInv, [Next]_vars, NEW i \in Items
             PROVE  Continuations(journal', i) + Cardinality(Granted(i)')
                      <= MaxCap + Cardinality(Procs) - 1
  BY DEF CapInv, Continuations, RecordsOf
<1>1. ASSUME NEW p \in Procs, Step(p)
      PROVE  Continuations(journal', i) + Cardinality(Granted(i)')
               <= MaxCap + Cardinality(Procs) - 1
  BY <1>1, CapStep
<1>2. CASE Commit \/ EditScenarios \/ UNCHANGED vars
  <2>1. UNCHANGED <<journal, pc, call>>
    BY <1>2 DEF Commit, EditScenarios, vars, files
  <2>2. Granted(i)' \subseteq Granted(i)
    BY <2>1 DEF Granted
  <2>3. QED
    BY <2>1, <2>2, CapKept DEF TInv
<1>3. QED
  BY <1>1, <1>2 DEF Next

\* However many commands run at once, and however they fail, the continuations
\* recorded for an item exceed the cap by at most the number of other processes.
THEOREM CapOvershootBounded == Spec => []CapOvershoot
<1>1. Init => CapInv
  BY CapInit
<1>2. TInv /\ CapInv /\ [Next]_vars => CapInv'
  BY CapNext
<1>3. TInv /\ CapInv => CapOvershoot
  <2> SUFFICES ASSUME TInv, CapInv, NEW i \in Items
               PROVE  Continuations(journal, i) <= MaxCap + Cardinality(Procs) - 1
    BY DEF CapOvershoot
  <2>1. Continuations(journal, i) \in Nat
    BY RecordsFinite DEF TInv, TypeOK
  <2>2. QED
    BY <2>1, GrantedFinite, CapsAssumption DEF CapInv
<1>4. QED
  BY <1>1, <1>2, <1>3, Invariance, PTL DEF Spec

\* Commands that run one at a time never exceed the cap, crashes included.
THEOREM SerialCap ==
  ASSUME Cardinality(Procs) = 1
  PROVE  Spec => []ContinuationCap
<1>1. CapOvershoot /\ TInv => ContinuationCap
  <2> SUFFICES ASSUME CapOvershoot, TInv, NEW i \in Items
               PROVE  Continuations(journal, i) <= MaxCap
    BY DEF ContinuationCap
  <2>1. Continuations(journal, i) <= MaxCap + 1 - 1
    BY DEF CapOvershoot
  <2>2. QED
    BY <2>1, CapsAssumption
<1>2. QED
  BY <1>1, CapOvershootBounded, Invariance, PTL

-----------------------------------------------------------------------------
(* What a process that is under way knows: which command it runs, and what  *)
(* that command has put on disk already.                                    *)

UnderWay(p) ==
    /\ pc[p] \in {"lookRun", "checkIgnore", "readExclude", "appendExclude", "lookParents",
                  "makeParents", "makeRun", "writeCharter", "journalInit"} =>
         call[p].cmd = "init"
    /\ pc[p] = "journalInit" => charter = call[p].id
    /\ pc[p] \in {"replaceCheckpoint", "replaceHandoff", "journalCheckpoint"} =>
         call[p].cmd = "checkpoint"
    /\ pc[p] \in {"replaceHandoff", "journalCheckpoint"} => call[p].id \in published
    /\ pc[p] = "journalNote" => call[p].cmd = "journal"
    /\ pc[p] \in {"parseCheckpoint", "resumeJournal", "hashRegistered"} =>
         call[p].cmd = "resume"
    /\ pc[p] \in {"countContinuations", "journalContinuation", "journalBlocked"} =>
         call[p].cmd = "continue"
    /\ pc[p] \in {"hashScenarios", "readRegistration", "journalHoldout"} =>
         call[p].cmd = "holdout"

\* What one answer promises: AnswersDurable and the answers of HandoffFollowsCheckpoint.
Kept(a) ==
    /\ a.cmd = "continue" /\ a.result = "ok" => Journaled(a, "continuation")
    /\ a.cmd = "continue" /\ a.result = "blocked" =>
         RecordsOf(journal, "blocked", a.item) # {}
    /\ a.cmd = "holdout" /\ a.result = "ok" => Journaled(a, "holdout")
    /\ a.cmd = "checkpoint" /\ a.result = "ok" => Journaled(a, "checkpoint")
    /\ a.cmd = "init" /\ a.result = "ok" => Journaled(a, "init") /\ charter = a.id
    /\ a.cmd = "checkpoint" => a.id \in published

Handed ==
    /\ handoff # None => handoff \in published
    /\ published # {} => checkpoint # None

DInv ==
    /\ TInv
    /\ \A p \in Procs : UnderWay(p)
    /\ \A a \in answered : Kept(a)
    /\ Handed

\* Nothing of what an answer relies on is ever taken back.
OnlyGrows ==
    /\ journal' = journal \/ \E w \in JournalRecord : journal' = Append(journal, w)
    /\ charter # None => charter' = charter
    /\ published \subseteq published'

LEMMA JournalGrows ==
  ASSUME TypeOK, NEW w \in JournalRecord, journal' = Append(journal, w)
  PROVE  /\ \A i \in DOMAIN journal : i \in DOMAIN journal' /\ journal'[i] = journal[i]
         /\ Len(journal) + 1 \in DOMAIN journal'
         /\ journal'[Len(journal) + 1] = w
  BY DEF TypeOK

LEMMA AnswerKept ==
  ASSUME TypeOK, OnlyGrows, NEW a \in Answer, Kept(a)
  PROVE  Kept(a)'
<1>1. \A i \in DOMAIN journal : i \in DOMAIN journal' /\ journal'[i] = journal[i]
  BY JournalGrows DEF OnlyGrows
<1>2. ASSUME NEW event, Journaled(a, event)
      PROVE  Journaled(a, event)'
  BY <1>1, <1>2 DEF Journaled
<1>3. ASSUME NEW item, RecordsOf(journal, "blocked", item) # {}
      PROVE  RecordsOf(journal', "blocked", item) # {}
  BY <1>1, <1>3 DEF RecordsOf
<1>4. charter = a.id => charter' = a.id
  BY NoneAssumption DEF OnlyGrows, Answer
<1>5. a.id \in published => a.id \in published'
  BY DEF OnlyGrows
<1>6. QED
  BY <1>2, <1>3, <1>4, <1>5 DEF Kept

-----------------------------------------------------------------------------
(* The records of a command *)

\* An append leaves the files alone; if the process answers, its record is in the
\* journal, whole.
LEMMA AppendAnswers ==
  ASSUME TypeOK, NEW p \in Procs, NEW rec \in JournalRecord, rec.cut = "whole",
         rec.id = call[p].id, rec.item = call[p].item, NEW r, AppendJournal(p, rec, r)
  PROVE  /\ \E w \in JournalRecord : journal' = Append(journal, w)
         /\ pc'[p] = "idle"
         /\ \/ answered' = answered
            \/ \E a : /\ answered' = answered \cup {a}
                      /\ a.cmd = call[p].cmd /\ a.id = call[p].id /\ a.item = call[p].item
                      /\ a.result = r
                      /\ Journaled(a, rec.event)'
<1>1. pc'[p] = "idle" /\ \E w \in JournalRecord : journal' = Append(journal, w)
  BY AppendJournalShape
<1>2. CASE answered' = answered
  BY <1>1, <1>2
<1>3. CASE journal' = Append(journal, rec) /\ Report(p, r)
  <2>0. PICK a : a = [id |-> call[p].id, cmd |-> call[p].cmd, item |-> call[p].item,
                      result |-> r]
    OBVIOUS
  <2>1. answered' = answered \cup {a}
    BY <1>3, <2>0 DEF Report
  <2>2. Len(journal) + 1 \in DOMAIN journal' /\ journal'[Len(journal) + 1] = rec
    BY <1>3, JournalGrows
  <2>3. Journaled(a, rec.event)'
    BY <2>0, <2>2 DEF Journaled
  <2>4. QED
    BY <1>1, <2>0, <2>1, <2>3
<1>4. QED
  BY <1>2, <1>3 DEF AppendJournal, Fail

\* The records a command writes are its own.
LEMMA NewRecordShape ==
  ASSUME TypeOK, NEW p \in Procs, NEW event \in Events
  PROVE  /\ NewRecord(p, event) \in JournalRecord
         /\ NewRecord(p, event).event = event
         /\ NewRecord(p, event).id = call[p].id
         /\ NewRecord(p, event).item = call[p].item
         /\ NewRecord(p, event).cut = "whole"
  BY NewRecordType DEF NewRecord

LEMMA HoldoutRecordShape ==
  ASSUME TInv, NEW p \in Procs, pc[p] = "journalHoldout",
         NEW rec, rec = [NewRecord(p, "holdout") EXCEPT
                           !.reg = <<call[p].dir, call[p].sum>>,
                           !.decision = call[p].reg # None]
  PROVE  /\ rec \in JournalRecord
         /\ rec.event = "holdout" /\ rec.id = call[p].id /\ rec.item = call[p].item
         /\ rec.cut = "whole"
<1>1. call[p].dir \in Dirs /\ call[p].sum \in Sums
  BY DEF TInv, ArgumentsOK
<1>2. NewRecord(p, "holdout") \in JournalRecord
  BY NewRecordType DEF Events, TInv
<1>3. rec \in JournalRecord
  BY <1>1, <1>2 DEF JournalRecord
<1>4. QED
  BY <1>2, <1>3 DEF JournalRecord, NewRecord

-----------------------------------------------------------------------------
(* One step of a process *)

\* What a step may do to the answers and to what they rely on.
Sound(p) ==
    /\ OnlyGrows
    /\ UnderWay(p)'
    /\ Handed'
    /\ \/ answered' = answered
       \/ \E a : answered' = answered \cup {a} /\ Kept(a)'

LEMMA StepSound ==
  ASSUME DInv, NEW p \in Procs, Step(p)
  PROVE  Sound(p)
<1> USE DEF DInv, TInv
<1>1. /\ pc \in [Procs -> Steps] /\ call \in [Procs -> Call] /\ call[p] \in Call
      /\ journal \in Seq(JournalRecord) /\ published \in SUBSET Nat
      /\ UnderWay(p) /\ Handed
  BY DEF TypeOK
<1>2. ASSUME Exit(p), UNCHANGED <<files, answered>>
      PROVE  Sound(p)
  BY <1>1, <1>2 DEF Sound, OnlyGrows, UnderWay, Handed, Exit, Go, files
<1>3. ASSUME NEW cmd, NEW arguments \in Call, NEW step, UnderWay(p),
             Invoke(p, cmd, arguments, step),
             <<cmd, step>> \in {<<"init", "lookRun">>, <<"checkpoint", "replaceCheckpoint">>,
                                <<"resume", "parseCheckpoint">>, <<"journal", "journalNote">>,
                                <<"continue", "countContinuations">>,
                                <<"holdout", "hashScenarios">>}
      PROVE  Sound(p)
  <2>1. pc'[p] = step /\ call'[p].cmd = cmd
    BY <1>1, <1>3 DEF Invoke, Call
  <2>2. UnderWay(p)'
    BY <1>3, <2>1 DEF UnderWay
  <2>3. QED
    BY <1>1, <1>3, <2>2 DEF Sound, OnlyGrows, Handed, Invoke, files
<1>4. CASE Start(p)
  <2>1. NoCall \in Call
    BY NoCallType
  <2>2. ASSUME NEW e \in Notes PROVE [NoCall EXCEPT !.event = e] \in Call
    BY <2>1, NotesAssumption DEF Call
  <2>3. ASSUME NEW i \in Items, NEW m \in Caps
        PROVE  [NoCall EXCEPT !.item = i, !.max = m] \in Call
    <3>1. m \in 0..MaxCap
      BY CapsAssumption
    <3>2. QED
      BY <2>1, <3>1 DEF Call
  <2>4. ASSUME NEW d \in Dirs, NEW r \in BOOLEAN
        PROVE  [NoCall EXCEPT !.dir = d, !.rebaseline = r] \in Call
    BY <2>1 DEF Call
  <2>5. QED
    BY <1>1, <1>3, <1>4, <2>1, <2>2, <2>3, <2>4 DEF Start
<1>5. CASE Abort(p) \/ \E step : NoRun(p, step)
  BY <1>2, <1>5 DEF Abort, NoRun, Fail
<1>6. CASE LookRun(p) \/ CheckIgnore(p) \/ LookParents(p)
  <2>1. CASE Exit(p)
    BY <1>2, <1>6, <2>1 DEF LookRun, CheckIgnore, LookParents, Fail, Go, Exit, files
  <2>2. ASSUME NEW step \in {"checkIgnore", "lookParents", "readExclude", "makeRun",
                             "makeParents"},
               call[p].cmd = "init", Go(p, step), UNCHANGED <<files, call, answered>>
        PROVE  Sound(p)
    BY <1>1, <2>2 DEF Sound, OnlyGrows, UnderWay, Handed, Go, files
  <2>3. call[p].cmd = "init"
    BY <1>1, <1>6 DEF UnderWay, LookRun, CheckIgnore, LookParents
  <2>4. QED
    BY <1>2, <1>6, <2>2, <2>3 DEF LookRun, CheckIgnore, LookParents, Fail
<1>7. CASE ReadExclude(p)
  BY <1>1, <1>7 DEF ReadExclude, Sound, OnlyGrows, UnderWay, Handed, Go, Call, files
<1>8. CASE AppendExclude(p)
  BY <1>1, <1>8 DEF AppendExclude, Sound, OnlyGrows, UnderWay, Handed, Go
<1>9. CASE TearExclude(p)
  BY <1>1, <1>9 DEF TearExclude, Fail, Exit, Sound, OnlyGrows, UnderWay, Handed, Go
<1>10. CASE MakeParents(p) \/ MakeRun(p)
  BY <1>1, <1>10 DEF MakeParents, MakeRun, Fail, Exit, Sound, OnlyGrows, UnderWay, Handed, Go
<1>11. CASE WriteCharter(p)
  BY <1>1, <1>11 DEF WriteCharter, Fail, Exit, Sound, OnlyGrows, UnderWay, Handed, Go
<1>12. CASE ReplaceCheckpoint(p)
  <2>1. checkpoint' # None
    <3>1. call[p].id \in Nat /\ call[p].head \in Heads
      BY <1>1, <1>12 DEF ReplaceCheckpoint, ArgumentsOK, Call
    <3>2. [id |-> call[p].id, head |-> call[p].head] \in [id : Nat, head : Heads]
      BY <3>1
    <3>3. QED
      BY <1>12, <3>2, NoneAssumption DEF ReplaceCheckpoint
  <2>2. Handed'
    BY <1>1, <1>12, <2>1 DEF ReplaceCheckpoint, Handed
  <2>3. QED
    BY <1>1, <1>12, <2>2 DEF ReplaceCheckpoint, Sound, OnlyGrows, UnderWay, Go
<1>13. CASE ReplaceHandoff(p)
  BY <1>1, <1>13 DEF ReplaceHandoff, Sound, OnlyGrows, UnderWay, Handed, Go
<1>14. ASSUME NEW rec \in JournalRecord, rec.cut = "whole", rec.id = call[p].id,
              rec.item = call[p].item, NEW r, AppendJournal(p, rec, r), JournalOnly,
              \A a : /\ a.cmd = call[p].cmd /\ a.id = call[p].id /\ a.item = call[p].item
                     /\ a.result = r /\ Journaled(a, rec.event)'
                     => Kept(a)'
       PROVE  Sound(p)
  <2>1. /\ \E w \in JournalRecord : journal' = Append(journal, w)
        /\ pc'[p] = "idle"
        /\ \/ answered' = answered
           \/ \E a : /\ answered' = answered \cup {a}
                     /\ a.cmd = call[p].cmd /\ a.id = call[p].id /\ a.item = call[p].item
                     /\ a.result = r
                     /\ Journaled(a, rec.event)'
    BY <1>14, AppendAnswers
  <2>2. OnlyGrows /\ UnderWay(p)' /\ Handed'
    BY <1>1, <1>14, <2>1 DEF OnlyGrows, UnderWay, Handed, JournalOnly
  <2>3. QED
    BY <1>14, <2>1, <2>2 DEF Sound
<1>15. ASSUME NEW event \in Events
       PROVE  /\ NewRecord(p, event) \in JournalRecord
              /\ NewRecord(p, event).event = event
              /\ NewRecord(p, event).id = call[p].id
              /\ NewRecord(p, event).item = call[p].item
              /\ NewRecord(p, event).cut = "whole"
  BY <1>15, NewRecordShape
<1>16. CASE JournalInit(p)
  <2>1. call[p].cmd = "init" /\ charter' = call[p].id
    BY <1>1, <1>16 DEF UnderWay, JournalInit, JournalOnly
  <2>2. \A a : a.cmd = "init" /\ a.id = call[p].id /\ Journaled(a, "init")' => Kept(a)'
    BY <2>1 DEF Kept
  <2>3. QED
    BY <1>14, <1>15, <1>16, <2>1, <2>2 DEF JournalInit, Events
<1>17. CASE JournalCheckpoint(p)
  <2>1. call[p].cmd = "checkpoint" /\ call[p].id \in published'
    BY <1>1, <1>17 DEF UnderWay, JournalCheckpoint, JournalOnly
  <2>2. \A a : a.cmd = "checkpoint" /\ a.id = call[p].id /\ Journaled(a, "checkpoint")'
                 => Kept(a)'
    BY <2>1 DEF Kept
  <2>3. QED
    BY <1>14, <1>15, <1>17, <2>1, <2>2 DEF JournalCheckpoint, Events
<1>18. CASE JournalNote(p)
  <2>1. call[p].cmd = "journal" /\ call[p].event \in Events
    BY <1>1, <1>18, NotesAssumption DEF UnderWay, JournalNote, ArgumentsOK
  <2>2. \A a : a.cmd = "journal" => Kept(a)'
    BY DEF Kept
  <2>3. QED
    BY <1>14, <1>15, <1>18, <2>1, <2>2 DEF JournalNote
<1>19. CASE JournalContinuation(p)
  <2>1. call[p].cmd = "continue"
    BY <1>1, <1>19 DEF UnderWay, JournalContinuation
  <2>2. \A a : a.cmd = "continue" /\ a.result = "ok" /\ Journaled(a, "continuation")'
                 => Kept(a)'
    BY DEF Kept
  <2>3. QED
    BY <1>14, <1>15, <1>19, <2>1, <2>2 DEF JournalContinuation, Events
<1>20. CASE JournalBlocked(p)
  <2>1. call[p].cmd = "continue"
    BY <1>1, <1>20 DEF UnderWay, JournalBlocked
  <2>2. \A a : Journaled(a, "blocked")' => RecordsOf(journal', "blocked", a.item) # {}
    BY DEF Journaled, RecordsOf
  <2>3. \A a : a.cmd = "continue" /\ a.result = "blocked" /\ Journaled(a, "blocked")'
                 => Kept(a)'
    BY <2>2 DEF Kept
  <2>4. QED
    BY <1>14, <1>15, <1>20, <2>1, <2>3 DEF JournalBlocked, Events
<1>21. CASE JournalHoldout(p)
  <2>1. call[p].cmd = "holdout"
    BY <1>1, <1>21 DEF UnderWay, JournalHoldout
  <2>2. \A a : a.cmd = "holdout" /\ a.result = "ok" /\ Journaled(a, "holdout")' => Kept(a)'
    BY DEF Kept
  <2> DEFINE rec == [NewRecord(p, "holdout") EXCEPT !.reg = <<call[p].dir, call[p].sum>>,
                                                   !.decision = call[p].reg # None]
  <2>3. /\ rec \in JournalRecord
        /\ rec.event = "holdout" /\ rec.id = call[p].id /\ rec.item = call[p].item
        /\ rec.cut = "whole"
    BY <1>21, HoldoutRecordShape DEF JournalHoldout
  <2>4. AppendJournal(p, rec, "ok") /\ JournalOnly
    BY <1>21 DEF JournalHoldout
  <2> HIDE DEF rec
  <2>5. QED
    BY <1>14, <2>1, <2>2, <2>3, <2>4
<1>22. ASSUME NEW r, Report(p, r), UNCHANGED files,
              \A a : a.cmd = call[p].cmd /\ a.item = call[p].item /\ a.result = r => Kept(a)'
       PROVE  Sound(p)
  <2>0. PICK a : a = [id |-> call[p].id, cmd |-> call[p].cmd, item |-> call[p].item,
                      result |-> r]
    OBVIOUS
  <2>1. answered' = answered \cup {a} /\ Kept(a)'
    BY <1>22, <2>0 DEF Report
  <2>2. pc'[p] = "idle" /\ UnderWay(p)' /\ Handed' /\ OnlyGrows
    BY <1>1, <1>22 DEF Report, Exit, Go, UnderWay, Handed, OnlyGrows, files
  <2>3. QED
    BY <2>1, <2>2 DEF Sound
<1>23. CASE ParseCheckpoint(p)
  <2>1. CASE Fail(p)
    BY <1>2, <1>23, <2>1 DEF ParseCheckpoint, Fail
  <2>2. CASE ~Fail(p)
    BY <1>1, <1>23, <2>2
       DEF ParseCheckpoint, Sound, OnlyGrows, UnderWay, Handed, Go, Call, files
  <2>3. QED
    BY <2>1, <2>2
<1>24. CASE ResumeJournal(p)
  <2>1. CASE Fail(p)
    BY <1>2, <1>24, <2>1 DEF ResumeJournal, Fail
  <2>2. ASSUME NEW r, Report(p, r)
        PROVE  Sound(p)
    <3>1. call[p].cmd = "resume" /\ UNCHANGED files
      BY <1>1, <1>24 DEF UnderWay, ResumeJournal
    <3>2. \A a : a.cmd = "resume" => Kept(a)'
      BY DEF Kept
    <3>3. QED
      BY <1>22, <2>2, <3>1, <3>2
  <2>3. CASE /\ call' = [call EXCEPT ![p].reg = LatestHoldout(journal)]
             /\ Go(p, "hashRegistered") /\ UNCHANGED answered
    BY <1>1, <1>24, <2>3
       DEF ResumeJournal, Sound, OnlyGrows, UnderWay, Handed, Go, Call, files
  <2>4. QED
    BY <1>24, <2>1, <2>2, <2>3 DEF ResumeJournal
<1>25. CASE HashRegistered(p)
  <2>1. call[p].cmd = "resume" /\ UNCHANGED files
    BY <1>1, <1>25 DEF UnderWay, HashRegistered
  <2>2. \A a : a.cmd = "resume" => Kept(a)'
    BY DEF Kept
  <2>3. QED
    BY <1>22, <1>25, <2>1, <2>2 DEF HashRegistered
<1>26. CASE CountContinuations(p)
  <2>1. CASE Fail(p)
    BY <1>2, <1>26, <2>1 DEF CountContinuations, Fail
  <2>2. CASE RecordsOf(journal, "blocked", call[p].item) # {} /\ Report(p, "blocked")
    <3>1. call[p].cmd = "continue" /\ UNCHANGED files
      BY <1>1, <1>26 DEF UnderWay, CountContinuations
    <3>2. journal' = journal
      BY <3>1 DEF files
    <3>3. \A a : a.cmd = "continue" /\ a.item = call[p].item /\ a.result = "blocked"
                   => Kept(a)'
      BY <2>2, <3>2 DEF Kept
    <3>4. QED
      BY <1>22, <2>2, <3>1, <3>3
  <2>3. ASSUME NEW step \in {"journalContinuation", "journalBlocked"}, Go(p, step),
               UNCHANGED <<call, answered>>
        PROVE  Sound(p)
    BY <1>1, <1>26, <2>3
       DEF CountContinuations, Sound, OnlyGrows, UnderWay, Handed, Go, files
  <2>4. QED
    BY <1>26, <2>1, <2>2, <2>3 DEF CountContinuations
<1>27. CASE HashScenarios(p)
  <2>1. CASE Fail(p)
    BY <1>2, <1>27, <2>1 DEF HashScenarios, Fail
  <2>2. CASE ~Fail(p)
    BY <1>1, <1>27, <2>2
       DEF HashScenarios, Sound, OnlyGrows, UnderWay, Handed, Go, Call, files
  <2>3. QED
    BY <2>1, <2>2
<1>28. CASE ReadRegistration(p)
  <2>1. CASE Fail(p)
    BY <1>2, <1>28, <2>1 DEF ReadRegistration, Fail
  <2>2. ASSUME NEW r \in {"match", "mismatch"}, Report(p, r)
        PROVE  Sound(p)
    <3>1. call[p].cmd = "holdout" /\ UNCHANGED files
      BY <1>1, <1>28 DEF UnderWay, ReadRegistration
    <3>2. \A a : a.cmd = "holdout" /\ a.result = r => Kept(a)'
      BY <2>2 DEF Kept
    <3>3. QED
      BY <1>22, <2>2, <3>1, <3>2
  <2>3. CASE /\ call' = [call EXCEPT ![p].reg = LatestHoldout(journal)]
             /\ Go(p, "journalHoldout") /\ UNCHANGED answered
    BY <1>1, <1>28, <2>3
       DEF ReadRegistration, Sound, OnlyGrows, UnderWay, Handed, Go, Call, files
  <2>4. QED
    BY <1>28, <2>1, <2>2, <2>3 DEF ReadRegistration
<1>29. QED
  BY <1>4, <1>5, <1>6, <1>7, <1>8, <1>9, <1>10, <1>11, <1>12, <1>13, <1>16, <1>17, <1>18,
     <1>19, <1>20, <1>21, <1>23, <1>24, <1>25, <1>26, <1>27, <1>28 DEF Step

LEMMA DurabilityNext == DInv /\ TInv' /\ [Next]_vars => DInv'
<1> SUFFICES ASSUME DInv, TInv', [Next]_vars PROVE DInv'
  OBVIOUS
<1>1. ASSUME NEW p \in Procs, Step(p)
      PROVE  DInv'
  <2>1. Sound(p)
    BY <1>1, StepSound
  <2>2. ASSUME NEW q \in Procs
        PROVE  UnderWay(q)'
    <3>1. CASE q = p
      BY <2>1, <3>1 DEF Sound
    <3>2. CASE q # p
      <4>1. UnderWay(q) /\ pc'[q] = pc[q] /\ call'[q] = call[q]
        BY <1>1, <3>2, Others DEF DInv, TInv
      <4>2. call[q].id \in Nat
        BY DEF DInv, TInv, TypeOK, Call
      <4>3. OnlyGrows
        BY <2>1 DEF Sound
      <4>4. QED
        BY <4>1, <4>2, <4>3, NoneAssumption DEF UnderWay, OnlyGrows
    <3>3. QED
      BY <3>1, <3>2
  <2>3. ASSUME NEW a \in answered
        PROVE  Kept(a)'
    BY <2>1, AnswerKept DEF Sound, DInv, TInv, TypeOK
  <2>4. \A a \in answered' : Kept(a)'
    BY <2>1, <2>3 DEF Sound
  <2>5. QED
    BY <2>1, <2>2, <2>4 DEF Sound, DInv
<1>2. CASE Commit \/ EditScenarios \/ UNCHANGED vars
  <2>1. UNCHANGED <<files, pc, call, answered>>
    BY <1>2 DEF Commit, EditScenarios, vars
  <2>2. QED
    BY <2>1 DEF DInv, UnderWay, Kept, Handed, Journaled, files
<1>3. QED
  BY <1>1, <1>2 DEF Next

\* What was answered stays true of the disk, with what the running commands know.
THEOREM Durability == Spec => []DInv
<1>1. Init => DInv
  BY TypeInit DEF Init, DInv, UnderWay, Handed
<1>2. DInv /\ TInv' /\ [Next]_vars => DInv'
  BY DurabilityNext
<1>3. QED
  BY <1>1, <1>2, Invariance, PTL DEF Spec

\* However many commands run at once, wherever each dies and whichever append is cut
\* short, what a caller was told is in the journal for the commands that follow.
THEOREM AnswersAlwaysDurable == Spec => []AnswersDurable
<1>1. DInv => AnswersDurable
  BY DEF DInv, Kept, AnswersDurable
<1>2. QED
  BY <1>1, Durability, PTL

\* A handoff.md in place and a checkpoint that reported success always have their
\* checkpoint.md before them.
THEOREM HandoffAlwaysFollows == Spec => []HandoffFollowsCheckpoint
<1>1. DInv => HandoffFollowsCheckpoint
  BY DEF DInv, Kept, Handed, HandoffFollowsCheckpoint
<1>2. QED
  BY <1>1, Durability, PTL

-----------------------------------------------------------------------------
(* The exclude entry.  Where its append is not cut short, a last line that  *)
(* was closed when init read it is closed when init appends.                *)

Closed(p) ==
    /\ pc[p] = "appendExclude" /\ ~call[p].pad => exclude.tail = "closed"
    /\ pc[p] \in {"lookParents", "makeParents", "makeRun"} => exclude.listed

EInv ==
    /\ TInv
    /\ exclude.tail # "entry"
    /\ runDir => exclude.listed
    /\ \A p \in Procs : Closed(p)

\* exclude only gets better, and the process that steps knows what it has seen.
Listing(p) ==
    /\ exclude'.tail \in {exclude.tail, "closed"}
    /\ exclude.listed => exclude'.listed
    /\ runDir' => exclude'.listed
    /\ Closed(p)'

LEMMA ExcludeType ==
  ASSUME TypeOK
  PROVE  /\ exclude = [listed |-> exclude.listed, tail |-> exclude.tail]
         /\ exclude.listed \in BOOLEAN
  BY DEF TypeOK

LEMMA StepListing ==
  ASSUME "exclude" \notin Tears, EInv, NEW p \in Procs, Step(p)
  PROVE  Listing(p)
<1> USE DEF EInv, TInv
<1>1. /\ pc \in [Procs -> Steps] /\ call \in [Procs -> Call] /\ call[p] \in Call
      /\ Closed(p)
  BY DEF TypeOK
<1>2. ASSUME UNCHANGED <<exclude, runDir>>,
             pc'[p] \notin {"appendExclude", "lookParents", "makeParents", "makeRun"}
      PROVE  Listing(p)
  BY <1>2 DEF Listing, Closed
<1>3. ASSUME NEW rec, NEW r, AppendJournal(p, rec, r), JournalOnly
      PROVE  Listing(p)
  <2>1. pc'[p] = "idle"
    BY <1>1, <1>3 DEF AppendJournal, Report, Fail, Exit, Go
  <2>2. QED
    BY <1>2, <1>3, <2>1 DEF JournalOnly
<1>4. ASSUME Exit(p), UNCHANGED <<exclude, runDir>>
      PROVE  Listing(p)
  BY <1>1, <1>2, <1>4 DEF Exit, Go
<1>5. CASE Start(p)
  <2>1. ASSUME NEW cmd, NEW arguments,
               NEW step \in {"lookRun", "replaceCheckpoint", "parseCheckpoint", "journalNote",
                             "countContinuations", "hashScenarios"},
               Invoke(p, cmd, arguments, step)
        PROVE  Listing(p)
    BY <1>1, <1>2, <2>1 DEF Invoke, files
  <2>2. QED
    BY <1>5, <2>1 DEF Start
<1>6. CASE Abort(p) \/ \E step : NoRun(p, step)
  BY <1>4, <1>6 DEF Abort, NoRun, Fail, files
<1>7. CASE LookRun(p)
  BY <1>1, <1>2, <1>4, <1>7 DEF LookRun, Fail, Go, files
<1>8. CASE CheckIgnore(p)
  BY <1>1, <1>8 DEF CheckIgnore, Ignored, Listing, Closed, Go, files
<1>9. CASE ReadExclude(p)
  <2>1. call'[p].pad = (exclude.tail # "closed")
    BY <1>1, <1>9 DEF ReadExclude, Call
  <2>2. QED
    BY <1>1, <1>9, <2>1 DEF ReadExclude, Listing, Closed, Go, files
<1>10. CASE AppendExclude(p)
  <2>1. ~Glued(p)
    BY <1>1, <1>10 DEF AppendExclude, Glued, Closed
  <2>2. exclude' = [listed |-> TRUE, tail |-> "closed"]
    BY <1>10, <2>1 DEF AppendExclude
  <2>3. QED
    BY <1>1, <1>10, <2>2 DEF AppendExclude, Listing, Closed, Go
<1>11. CASE TearExclude(p)
  BY <1>11 DEF TearExclude
<1>12. CASE LookParents(p) \/ MakeParents(p)
  BY <1>1, <1>2, <1>4, <1>12 DEF LookParents, MakeParents, Fail, Listing, Closed, Go, files
<1>13. CASE MakeRun(p)
  <2>1. exclude.listed /\ exclude' = exclude
    BY <1>1, <1>13 DEF MakeRun, Closed
  <2>2. pc'[p] \in {"idle", "writeCharter"}
    BY <1>1, <1>13 DEF MakeRun, Fail, Exit, Go
  <2>3. QED
    BY <2>1, <2>2 DEF Listing, Closed
<1>14. CASE WriteCharter(p)
  BY <1>1, <1>2, <1>4, <1>14 DEF WriteCharter, Fail, Go
<1>15. CASE \/ JournalInit(p) \/ JournalCheckpoint(p) \/ JournalNote(p)
            \/ JournalContinuation(p) \/ JournalBlocked(p) \/ JournalHoldout(p)
  BY <1>3, <1>15 DEF JournalInit, JournalCheckpoint, JournalNote, JournalContinuation,
     JournalBlocked, JournalHoldout
<1>16. CASE ReplaceCheckpoint(p) \/ ReplaceHandoff(p)
  BY <1>1, <1>2, <1>16 DEF ReplaceCheckpoint, ReplaceHandoff, Go
<1>17. CASE \/ ParseCheckpoint(p) \/ ResumeJournal(p) \/ HashRegistered(p)
            \/ CountContinuations(p) \/ HashScenarios(p) \/ ReadRegistration(p)
  BY <1>1, <1>2, <1>4, <1>17 DEF ParseCheckpoint, ResumeJournal, HashRegistered,
     CountContinuations, HashScenarios, ReadRegistration, Fail, Report, Go, files
<1>18. QED
  BY <1>5, <1>6, <1>7, <1>8, <1>9, <1>10, <1>11, <1>12, <1>13, <1>14, <1>15, <1>16, <1>17
     DEF Step

LEMMA ListingNext == "exclude" \notin Tears /\ EInv /\ TInv' /\ [Next]_vars => EInv'
<1> SUFFICES ASSUME "exclude" \notin Tears, EInv, TInv', [Next]_vars PROVE EInv'
  OBVIOUS
<1>1. ASSUME NEW p \in Procs, Step(p)
      PROVE  EInv'
  <2>1. Listing(p)
    BY <1>1, StepListing
  <2>2. ASSUME NEW q \in Procs
        PROVE  Closed(q)'
    <3>1. CASE q = p
      BY <2>1, <3>1 DEF Listing
    <3>2. CASE q # p
      BY <1>1, <2>1, <3>2, Others DEF EInv, TInv, Closed, Listing
    <3>3. QED
      BY <3>1, <3>2
  <2>3. QED
    BY <2>1, <2>2 DEF Listing, EInv
<1>2. CASE Commit \/ EditScenarios \/ UNCHANGED vars
  BY <1>2 DEF Commit, EditScenarios, vars, files, EInv, Closed
<1>3. QED
  BY <1>1, <1>2 DEF Next

\* Whatever init does concurrently, a run directory is never there before git
\* ignores it, provided no append to info/exclude is cut short; and so everything that
\* commands tell or leave to later ones is on disk first.
THEOREM AlwaysOnDiskFirst ==
  ASSUME "exclude" \notin Tears
  PROVE  Spec => []OnDiskFirst
<1>1. Init => EInv
  BY TypeInit DEF Init, EInv, Closed
<1>2. EInv /\ TInv' /\ [Next]_vars => EInv'
  BY ListingNext
<1>3. EInv => ExcludedBeforeCreated
  BY DEF EInv, ExcludedBeforeCreated, Ignored
<1>4. ExcludedBeforeCreated /\ AnswersDurable /\ HandoffFollowsCheckpoint => OnDiskFirst
  BY DEF OnDiskFirst
<1>5. QED
  BY <1>1, <1>2, <1>3, <1>4, Invariance, AnswersAlwaysDurable, HandoffAlwaysFollows, PTL
     DEF Spec

-----------------------------------------------------------------------------
(* Commands that run one at a time *)

OneProcess == \A p, q \in Procs : p = q

LEMMA CardinalityOne ==
  ASSUME Cardinality(Procs) = 1
  PROVE  OneProcess
<1>1. PICK x : Procs = {x}
  BY ProcsAssumption, FS_Singleton
<1>2. QED
  BY <1>1 DEF OneProcess

-----------------------------------------------------------------------------
(* What one append does to the readings of the journal *)

Whole(w) == w.cut # "part"

LEMMA AppendShape ==
  ASSUME NEW j \in Seq(JournalRecord), NEW w \in JournalRecord
  PROVE  /\ Len(j) \in Nat
         /\ DOMAIN j = 1..Len(j)
         /\ DOMAIN Append(j, w) = 1..(Len(j) + 1)
         /\ Append(j, w)[Len(j) + 1] = w
         /\ \A i \in 1..Len(j) : Append(j, w)[i] = j[i]
  OBVIOUS

LEMMA CountOneMore ==
  ASSUME NEW j \in Seq(JournalRecord), NEW w \in JournalRecord, Whole(w),
         w.event = "continuation"
  PROVE  Continuations(Append(j, w), w.item) = Continuations(j, w.item) + 1
<1> DEFINE R == RecordsOf(j, "continuation", w.item)
<1>1. R \subseteq 1..Len(j) /\ IsFiniteSet(R)
  BY RecordsFinite
<1>2. RecordsOf(Append(j, w), "continuation", w.item) = R \cup {Len(j) + 1}
  BY AppendRecords DEF Whole
<1>3. Len(j) + 1 \notin R
  BY <1>1
<1>4. Cardinality(R \cup {Len(j) + 1}) = Cardinality(R) + 1
  <2> HIDE DEF R
  <2>1. QED
    BY <1>1, <1>3, FS_AddElement
<1>5. QED
  BY <1>2, <1>4 DEF Continuations

IsLatest(j, i) == i \in Registrations(j) /\ \A k \in Registrations(j) : k <= i

LEMMA AppendRegistrations ==
  ASSUME NEW j \in Seq(JournalRecord), NEW w \in JournalRecord
  PROVE  Registrations(Append(j, w)) =
           IF w.event = "holdout" /\ Whole(w)
           THEN Registrations(j) \cup {Len(j) + 1} ELSE Registrations(j)
  BY AppendShape DEF Registrations, Whole

\* The latest registration is the one latestHoldout finds.
LEMMA LatestIs ==
  ASSUME NEW j \in Seq(JournalRecord), NEW i, IsLatest(j, i)
  PROVE  LatestHoldout(j) = j[i].reg
<1> DEFINE Last(n) == \A k \in Registrations(j) : k <= n
           last == CHOOSE n \in Registrations(j) : Last(n)
<1>1. i \in Registrations(j) /\ Last(i)
  BY DEF IsLatest
<1>2. last \in Registrations(j) /\ Last(last)
  BY <1>1
<1>3. i \in Nat /\ last \in Nat
  BY <1>1, <1>2 DEF Registrations
<1>4. last = i
  BY <1>1, <1>2, <1>3
<1>5. LatestHoldout(j) = j[last].reg
  BY <1>1 DEF LatestHoldout
<1>6. QED
  BY <1>4, <1>5

LEMMA NoneRegistered ==
  ASSUME NEW j, Registrations(j) = {}
  PROVE  LatestHoldout(j) = None
  BY DEF LatestHoldout

\* Every registration names a directory and a digest, one of them is the latest, and
\* all but the first were decisions.
RegistrationsOK(j) ==
    /\ \A i \in Registrations(j) : j[i].reg \in Dirs \X Sums
    /\ Registrations(j) = {} \/ \E i : IsLatest(j, i)
    /\ \A i, k \in Registrations(j) : i < k => j[k].decision

LEMMA RegisteredIs ==
  ASSUME NEW j \in Seq(JournalRecord), RegistrationsOK(j)
  PROVE  /\ LatestHoldout(j) = None <=> Registrations(j) = {}
         /\ LatestHoldout(j) \in (Dirs \X Sums) \cup {None}
<1>1. CASE Registrations(j) = {}
  BY <1>1, NoneRegistered
<1>2. ASSUME NEW i, IsLatest(j, i)
      PROVE  /\ LatestHoldout(j) \in Dirs \X Sums
             /\ Registrations(j) # {}
  BY <1>2, LatestIs DEF IsLatest, RegistrationsOK
<1>3. QED
  BY <1>1, <1>2, NoneAssumption DEF RegistrationsOK

\* The decisions of the journal, as the ledger counts them.
Decided(j) == {i \in Registrations(j) : j[i].decision}

LEMMA AppendDecided ==
  ASSUME NEW j \in Seq(JournalRecord), NEW w \in JournalRecord
  PROVE  Cardinality(Decided(Append(j, w))) =
           IF w.event = "holdout" /\ Whole(w) /\ w.decision
           THEN Cardinality(Decided(j)) + 1 ELSE Cardinality(Decided(j))
<1>1. Decided(j) \subseteq 1..Len(j) /\ IsFiniteSet(Decided(j))
  <2>1. Decided(j) \subseteq 1..Len(j)
    BY AppendShape DEF Decided, Registrations
  <2>2. IsFiniteSet(1..Len(j))
    BY FS_Interval
  <2>3. QED
    BY <2>1, <2>2, FS_Subset
<1>2. CASE w.event = "holdout" /\ Whole(w) /\ w.decision
  <2>1. Decided(Append(j, w)) = Decided(j) \cup {Len(j) + 1}
    BY <1>2, AppendShape, AppendRegistrations DEF Decided, Registrations
  <2>2. Len(j) + 1 \notin Decided(j)
    BY <1>1
  <2>3. QED
    BY <1>1, <1>2, <2>1, <2>2, FS_AddElement
<1>3. CASE ~(w.event = "holdout" /\ Whole(w) /\ w.decision)
  <2>1. Decided(Append(j, w)) = Decided(j)
    BY <1>3, AppendShape, AppendRegistrations DEF Decided, Registrations
  <2>2. QED
    BY <1>3, <2>1
<1>4. QED
  BY <1>2, <1>3

\* What an append of a holdout record does to the registrations.
LEMMA AppendHoldout ==
  ASSUME NEW j \in Seq(JournalRecord), RegistrationsOK(j), NEW w \in JournalRecord,
         w.event = "holdout", Whole(w), w.reg \in Dirs \X Sums,
         w.decision \/ Registrations(j) = {}
  PROVE  /\ RegistrationsOK(Append(j, w))
         /\ LatestHoldout(Append(j, w)) = w.reg
<1> DEFINE k == Append(j, w)
           n == Len(j) + 1
<1>1. /\ Registrations(k) = Registrations(j) \cup {n}
      /\ Registrations(j) \subseteq 1..Len(j) /\ Len(j) \in Nat
      /\ k[n] = w /\ \A i \in 1..Len(j) : k[i] = j[i]
  BY AppendShape, AppendRegistrations DEF Registrations
<1>2. IsLatest(k, n)
  <2> HIDE DEF k
  <2>1. QED
    BY <1>1 DEF IsLatest
<1>3. \A i \in Registrations(k) : k[i].reg \in Dirs \X Sums
  <2> HIDE DEF k
  <2>1. QED
    BY <1>1 DEF RegistrationsOK
<1>4. ASSUME NEW i \in Registrations(k), NEW m \in Registrations(k), i < m
      PROVE  k[m].decision
  <2> HIDE DEF k
  <2>1. CASE m = n
    <3>1. i \in Registrations(j)
      BY <1>1, <1>4, <2>1
    <3>2. QED
      BY <1>1, <2>1, <3>1
  <2>2. CASE m # n
    <3>1. m \in Registrations(j) /\ i \in Registrations(j)
      BY <1>1, <1>4, <2>2
    <3>2. QED
      BY <1>1, <1>4, <3>1 DEF RegistrationsOK
  <2>3. QED
    BY <2>1, <2>2
<1>5. k \in Seq(JournalRecord)
  OBVIOUS
<1>6. LatestHoldout(k) = k[n].reg
  BY <1>2, <1>5, LatestIs
<1>7. QED
  BY <1>1, <1>2, <1>3, <1>4, <1>6 DEF RegistrationsOK

\* Nor does any other append.
LEMMA AppendOther ==
  ASSUME NEW j \in Seq(JournalRecord), RegistrationsOK(j), NEW w \in JournalRecord,
         ~(w.event = "holdout" /\ Whole(w))
  PROVE  /\ RegistrationsOK(Append(j, w))
         /\ LatestHoldout(Append(j, w)) = LatestHoldout(j)
<1> DEFINE k == Append(j, w)
<1>1. /\ Registrations(k) = Registrations(j)
      /\ Registrations(j) \subseteq 1..Len(j)
      /\ \A i \in 1..Len(j) : k[i] = j[i]
      /\ k \in Seq(JournalRecord)
  BY AppendShape, AppendRegistrations DEF Registrations
<1> HIDE DEF k
<1>2. \A i : IsLatest(j, i) => IsLatest(k, i)
  BY <1>1 DEF IsLatest
<1>3. RegistrationsOK(k)
  BY <1>1, <1>2 DEF RegistrationsOK
<1>4. CASE Registrations(j) = {}
  BY <1>1, <1>3, <1>4, NoneRegistered DEF k
<1>5. ASSUME NEW i, IsLatest(j, i)
      PROVE  LatestHoldout(k) = LatestHoldout(j)
  <2>1. LatestHoldout(k) = k[i].reg
    BY <1>1, <1>2, <1>5, LatestIs
  <2>2. LatestHoldout(j) = j[i].reg
    BY <1>5, LatestIs
  <2>3. k[i] = j[i]
    BY <1>1, <1>5 DEF IsLatest
  <2>4. QED
    BY <2>1, <2>2, <2>3
<1>6. QED
  BY <1>3, <1>4, <1>5 DEF RegistrationsOK, k

-----------------------------------------------------------------------------
(* What a command that has read the journal knows, until it appends *)

Knows(p) ==
    /\ pc[p] = "countContinuations" => call[p].item \in Items /\ call[p].max \in Caps
    /\ pc[p] \in {"journalContinuation", "journalBlocked"} =>
         call[p].item \in Items /\ call[p].max \in Caps /\ Readable(journal)
    /\ pc[p] = "journalContinuation" =>
         Continuations(journal, call[p].item) < call[p].max
    /\ pc[p] = "journalBlocked" =>
         /\ Continuations(journal, call[p].item) >= call[p].max
         /\ RecordsOf(journal, "blocked", call[p].item) = {}
    /\ pc[p] = "journalHoldout" =>
         /\ Readable(journal)
         /\ call[p].reg = LatestHoldout(journal)
         /\ call[p].reg # <<call[p].dir, call[p].sum>>
    /\ pc[p] \in {"resumeJournal", "hashRegistered"} /\ call[p].match =>
         checkpoint.head = call[p].head
    /\ pc[p] = "hashRegistered" => Readable(journal) /\ call[p].reg = LatestHoldout(journal)

SInv ==
    /\ DInv
    /\ RegistrationsOK(journal)
    /\ \A p \in Procs : Knows(p)

\* An append writes the record of the step that p is at.
Appended(p, w) ==
    /\ journal' = Append(journal, w)
    /\ pc'[p] = "idle"
    /\ w.event = "continuation" /\ w.item \in Items =>
         pc[p] = "journalContinuation" /\ w.item = call[p].item
    /\ w.event = "blocked" /\ w.item \in Items =>
         pc[p] = "journalBlocked" /\ w.item = call[p].item
    /\ w.event = "holdout" =>
         /\ pc[p] = "journalHoldout"
         /\ w.reg = <<call[p].dir, call[p].sum>>
         /\ w.decision = (call[p].reg # None)

LEMMA AppendJournalFields ==
  ASSUME TypeOK, NEW p \in Procs, NEW rec \in JournalRecord, rec.cut = "whole", NEW r,
         AppendJournal(p, rec, r)
  PROVE  /\ pc'[p] = "idle"
         /\ \E w \in JournalRecord :
              /\ journal' = Append(journal, w)
              /\ w.event = rec.event /\ w.item = rec.item
              /\ w.reg = rec.reg /\ w.decision = rec.decision
<1>1. pc'[p] = "idle"
  BY DEF AppendJournal, Report, Fail, Exit, Go, TypeOK
<1>2. CASE journal' = Append(journal, rec)
  BY <1>1, <1>2
<1>3. ASSUME NEW cut \in {"open", "part"}, journal' = Append(journal, [rec EXCEPT !.cut = cut])
      PROVE  \E w \in JournalRecord :
               /\ journal' = Append(journal, w)
               /\ w.event = rec.event /\ w.item = rec.item
               /\ w.reg = rec.reg /\ w.decision = rec.decision
  <2> DEFINE w == [rec EXCEPT !.cut = cut]
  <2>1. /\ w \in JournalRecord
        /\ w.event = rec.event /\ w.item = rec.item
        /\ w.reg = rec.reg /\ w.decision = rec.decision
    BY DEF JournalRecord, Cuts
  <2>2. journal' = Append(journal, w)
    BY <1>3
  <2> HIDE DEF w
  <2>3. QED
    BY <2>1, <2>2
<1>4. QED
  BY <1>1, <1>2, <1>3 DEF AppendJournal

LEMMA StepWrites ==
  ASSUME TInv, NEW p \in Procs, Step(p)
  PROVE  journal' = journal \/ \E w \in JournalRecord : Appended(p, w)
<1> USE DEF TInv
<1>1. ASSUME NEW rec \in JournalRecord, rec.cut = "whole", NEW r, AppendJournal(p, rec, r),
             rec.event = "continuation" /\ rec.item \in Items =>
               pc[p] = "journalContinuation" /\ rec.item = call[p].item,
             rec.event = "blocked" /\ rec.item \in Items =>
               pc[p] = "journalBlocked" /\ rec.item = call[p].item,
             rec.event = "holdout" =>
               /\ pc[p] = "journalHoldout"
               /\ rec.reg = <<call[p].dir, call[p].sum>>
               /\ rec.decision = (call[p].reg # None)
      PROVE  \E w \in JournalRecord : Appended(p, w)
  <2>1. /\ pc'[p] = "idle"
        /\ \E w \in JournalRecord :
             /\ journal' = Append(journal, w)
             /\ w.event = rec.event /\ w.item = rec.item
             /\ w.reg = rec.reg /\ w.decision = rec.decision
    BY <1>1, AppendJournalFields
  <2>2. PICK w \in JournalRecord :
             /\ journal' = Append(journal, w)
             /\ w.event = rec.event /\ w.item = rec.item
             /\ w.reg = rec.reg /\ w.decision = rec.decision
    BY <2>1
  <2>3. QED
    BY <1>1, <2>1, <2>2 DEF Appended
<1>2. ASSUME NEW event \in Events
      PROVE  /\ NewRecord(p, event) \in JournalRecord
             /\ NewRecord(p, event).event = event
             /\ NewRecord(p, event).item = call[p].item
             /\ NewRecord(p, event).cut = "whole"
  BY <1>2, NewRecordShape
<1>3. CASE JournalInit(p) \/ JournalCheckpoint(p)
  BY <1>1, <1>2, <1>3 DEF JournalInit, JournalCheckpoint, Events
<1>4. CASE JournalContinuation(p)
  BY <1>1, <1>2, <1>4 DEF JournalContinuation, Events
<1>5. CASE JournalBlocked(p)
  BY <1>1, <1>2, <1>5 DEF JournalBlocked, Events
<1>6. CASE JournalNote(p)
  <2>1. /\ call[p].event \in Events /\ call[p].event # "holdout"
        /\ call[p].item \notin Items
    BY <1>6, NotesAssumption, NoneAssumption DEF JournalNote, ArgumentsOK
  <2>2. QED
    BY <1>1, <1>2, <1>6, <2>1 DEF JournalNote
<1>7. CASE JournalHoldout(p)
  <2> DEFINE rec == [NewRecord(p, "holdout") EXCEPT !.reg = <<call[p].dir, call[p].sum>>,
                                                   !.decision = call[p].reg # None]
  <2>1. rec \in JournalRecord /\ rec.event = "holdout" /\ rec.cut = "whole"
    BY <1>7, HoldoutRecordShape DEF JournalHoldout
  <2>2. /\ rec.reg = <<call[p].dir, call[p].sum>>
        /\ rec.decision = (call[p].reg # None)
    BY DEF NewRecord
  <2>3. AppendJournal(p, rec, "ok") /\ pc[p] = "journalHoldout"
    BY <1>7 DEF JournalHoldout
  <2> HIDE DEF rec
  <2>4. QED
    BY <1>1, <2>1, <2>2, <2>3
<1>8. CASE Start(p) \/ Abort(p) \/ \E step : NoRun(p, step)
  BY <1>8 DEF Start, Invoke, Abort, NoRun, files
<1>9. CASE \/ LookRun(p) \/ CheckIgnore(p) \/ ReadExclude(p) \/ AppendExclude(p)
           \/ TearExclude(p) \/ LookParents(p) \/ MakeParents(p) \/ MakeRun(p)
           \/ WriteCharter(p)
  BY <1>9 DEF LookRun, CheckIgnore, ReadExclude, AppendExclude, TearExclude, LookParents,
       MakeParents, MakeRun, WriteCharter, files
<1>10. CASE \/ ReplaceCheckpoint(p) \/ ReplaceHandoff(p) \/ ParseCheckpoint(p)
            \/ ResumeJournal(p) \/ HashRegistered(p) \/ CountContinuations(p)
            \/ HashScenarios(p) \/ ReadRegistration(p)
  BY <1>10 DEF ReplaceCheckpoint, ReplaceHandoff, ParseCheckpoint, ResumeJournal,
       HashRegistered, CountContinuations, HashScenarios, ReadRegistration, files
<1>11. QED
  BY <1>3, <1>4, <1>5, <1>6, <1>7, <1>8, <1>9, <1>10 DEF Step

Reading == {"countContinuations", "journalContinuation", "journalBlocked", "journalHoldout",
            "resumeJournal", "hashRegistered"}

LEMMA StepKnows ==
  ASSUME SInv, NEW p \in Procs, Step(p), journal' = journal
  PROVE  Knows(p)'
<1> USE DEF SInv, DInv, TInv
<1>1. /\ pc \in [Procs -> Steps] /\ call \in [Procs -> Call] /\ call[p] \in Call
      /\ journal \in Seq(JournalRecord)
      /\ Knows(p)
  BY DEF TypeOK
<1>2. ASSUME pc'[p] \notin Reading
      PROVE  Knows(p)'
  BY <1>2 DEF Knows, Reading
<1>3. ASSUME NEW step, step \notin Reading, Go(p, step)
      PROVE  Knows(p)'
  BY <1>1, <1>2, <1>3 DEF Go
<1>4. ASSUME Fail(p) \/ \E r : Report(p, r)
      PROVE  Knows(p)'
  BY <1>1, <1>2, <1>4 DEF Fail, Report, Exit, Go, Reading
<1>5. CASE Start(p)
  <2>1. ASSUME NEW cmd, NEW arguments, NEW step, step \notin Reading,
               Invoke(p, cmd, arguments, step)
        PROVE  Knows(p)'
    BY <1>1, <1>2, <2>1 DEF Invoke
  <2>2. ASSUME NEW i \in Items, NEW m \in Caps,
               Invoke(p, "continue", [NoCall EXCEPT !.item = i, !.max = m],
                      "countContinuations")
        PROVE  Knows(p)'
    <3>1. pc'[p] = "countContinuations" /\ call'[p].item = i /\ call'[p].max = m
      BY <1>1, <2>2 DEF Invoke, NoCall
    <3>2. QED
      BY <3>1 DEF Knows
  <2>3. QED
    BY <1>5, <2>1, <2>2 DEF Start, Reading
<1>6. CASE Abort(p) \/ \E step : NoRun(p, step)
  BY <1>4, <1>6 DEF Abort, NoRun
<1>7. CASE \/ LookRun(p) \/ CheckIgnore(p) \/ ReadExclude(p) \/ AppendExclude(p)
           \/ TearExclude(p) \/ LookParents(p) \/ MakeParents(p) \/ MakeRun(p)
           \/ WriteCharter(p)
  BY <1>3, <1>4, <1>7 DEF LookRun, CheckIgnore, ReadExclude, AppendExclude, TearExclude,
       LookParents, MakeParents, MakeRun, WriteCharter, Reading
<1>8. CASE \/ JournalInit(p) \/ JournalCheckpoint(p) \/ JournalNote(p)
           \/ JournalContinuation(p) \/ JournalBlocked(p) \/ JournalHoldout(p)
  BY <1>4, <1>8 DEF JournalInit, JournalCheckpoint, JournalNote, JournalContinuation,
       JournalBlocked, JournalHoldout, AppendJournal
<1>9. CASE \/ ReplaceCheckpoint(p) \/ ReplaceHandoff(p) \/ HashRegistered(p)
           \/ HashScenarios(p)
  BY <1>3, <1>4, <1>9 DEF ReplaceCheckpoint, ReplaceHandoff, HashRegistered, HashScenarios,
       Reading
<1>10. CASE ParseCheckpoint(p)
  <2>1. CASE Fail(p)
    BY <1>4, <2>1
  <2>2. CASE /\ call' = [call EXCEPT ![p].match = checkpoint.head = call[p].head]
             /\ Go(p, "resumeJournal") /\ checkpoint' = checkpoint
    <3>1. /\ pc'[p] = "resumeJournal" /\ call'[p].match = (checkpoint.head = call[p].head)
          /\ call'[p].head = call[p].head
      BY <1>1, <2>2 DEF Go, Call
    <3>2. QED
      BY <2>2, <3>1 DEF Knows
  <2>3. QED
    BY <1>10, <2>1, <2>2 DEF ParseCheckpoint, files
<1>11. CASE ResumeJournal(p)
  <2>1. CASE Fail(p) \/ \E r : Report(p, r)
    BY <1>4, <2>1
  <2>2. CASE /\ call' = [call EXCEPT ![p].reg = LatestHoldout(journal)]
             /\ Go(p, "hashRegistered") /\ Readable(journal)
    <3>1. /\ pc'[p] = "hashRegistered" /\ call'[p].reg = LatestHoldout(journal)
          /\ call'[p].match = call[p].match /\ call'[p].head = call[p].head
          /\ checkpoint' = checkpoint /\ pc[p] = "resumeJournal"
      BY <1>1, <1>11, <2>2 DEF Go, Call, ResumeJournal, files
    <3>2. QED
      BY <1>1, <2>2, <3>1 DEF Knows
  <2>3. QED
    BY <1>11, <2>1, <2>2 DEF ResumeJournal
<1>12. CASE CountContinuations(p)
  <2>1. CASE Fail(p) \/ \E r : Report(p, r)
    BY <1>4, <2>1
  <2>2. /\ call[p].item \in Items /\ call[p].max \in Caps
    BY <1>1, <1>12 DEF CountContinuations, Knows
  <2>3. CASE /\ Go(p, "journalContinuation") /\ call' = call /\ Readable(journal)
             /\ Continuations(journal, call[p].item) < call[p].max
    <3>1. pc'[p] = "journalContinuation"
      BY <1>1, <2>3 DEF Go
    <3>2. QED
      BY <2>2, <2>3, <3>1 DEF Knows
  <2>4. CASE /\ Go(p, "journalBlocked") /\ call' = call /\ Readable(journal)
             /\ ~(Continuations(journal, call[p].item) < call[p].max)
             /\ RecordsOf(journal, "blocked", call[p].item) = {}
    <3>1. pc'[p] = "journalBlocked"
      BY <1>1, <2>4 DEF Go
    <3>2. Continuations(journal, call[p].item) \in Nat
      BY <1>1, RecordsFinite
    <3>3. call[p].max \in Nat
      BY <1>1, CapsAssumption DEF Call
    <3>4. QED
      BY <2>2, <2>4, <3>1, <3>2, <3>3 DEF Knows
  <2>5. QED
    BY <1>12, <2>1, <2>3, <2>4 DEF CountContinuations
<1>13. CASE ReadRegistration(p)
  <2>1. CASE Fail(p) \/ \E r : Report(p, r)
    BY <1>4, <2>1
  <2>2. CASE /\ call' = [call EXCEPT ![p].reg = LatestHoldout(journal)]
             /\ Go(p, "journalHoldout") /\ Readable(journal)
             /\ LatestHoldout(journal) # <<call[p].dir, call[p].sum>>
    <3>1. /\ pc'[p] = "journalHoldout" /\ call'[p].reg = LatestHoldout(journal)
          /\ call'[p].dir = call[p].dir /\ call'[p].sum = call[p].sum
      BY <1>1, <2>2 DEF Go, Call
    <3>2. QED
      BY <2>2, <3>1 DEF Knows
  <2>3. QED
    BY <1>13, <2>1, <2>2 DEF ReadRegistration
<1>14. QED
  BY <1>5, <1>6, <1>7, <1>8, <1>9, <1>10, <1>11, <1>12, <1>13 DEF Step

LEMMA StepRegistrations ==
  ASSUME SInv, NEW p \in Procs, NEW w \in JournalRecord, Appended(p, w)
  PROVE  RegistrationsOK(journal')
<1>1. journal \in Seq(JournalRecord) /\ RegistrationsOK(journal) /\ Knows(p)
  BY DEF SInv, DInv, TInv, TypeOK
<1>2. CASE w.event = "holdout" /\ Whole(w)
  <2>1. /\ pc[p] = "journalHoldout" /\ w.reg = <<call[p].dir, call[p].sum>>
        /\ w.decision = (call[p].reg # None)
    BY <1>2 DEF Appended
  <2>2. w.reg \in Dirs \X Sums
    BY <2>1 DEF SInv, DInv, TInv, ArgumentsOK
  <2>3. w.decision \/ Registrations(journal) = {}
    BY <1>1, <2>1, RegisteredIs DEF Knows
  <2>4. QED
    BY <1>1, <1>2, <2>2, <2>3, AppendHoldout DEF Appended
<1>3. CASE ~(w.event = "holdout" /\ Whole(w))
  BY <1>1, <1>3, AppendOther DEF Appended
<1>4. QED
  BY <1>2, <1>3

LEMMA SerialNext == OneProcess /\ SInv /\ DInv' /\ [Next]_vars => SInv'
<1> SUFFICES ASSUME OneProcess, SInv, DInv', [Next]_vars PROVE SInv'
  OBVIOUS
<1>1. ASSUME NEW p \in Procs, Step(p)
      PROVE  SInv'
  <2>1. CASE journal' = journal
    <3>1. \A q \in Procs : Knows(q)'
      BY <1>1, <2>1, StepKnows DEF OneProcess
    <3>2. RegistrationsOK(journal)'
      BY <2>1 DEF SInv
    <3>3. QED
      BY <3>1, <3>2 DEF SInv
  <2>2. ASSUME NEW w \in JournalRecord, Appended(p, w)
        PROVE  SInv'
    <3>1. pc'[p] = "idle"
      BY <2>2 DEF Appended
    <3>2. \A q \in Procs : Knows(q)'
      BY <3>1 DEF OneProcess, Knows
    <3>3. RegistrationsOK(journal')
      BY <2>2, StepRegistrations
    <3>4. QED
      BY <3>2, <3>3 DEF SInv
  <2>3. QED
    BY <1>1, <2>1, <2>2, StepWrites DEF SInv, DInv
<1>2. CASE Commit \/ EditScenarios \/ UNCHANGED vars
  <2>1. UNCHANGED <<journal, checkpoint, pc, call>>
    BY <1>2 DEF Commit, EditScenarios, vars, files
  <2>2. QED
    BY <2>1 DEF SInv, Knows
<1>3. QED
  BY <1>1, <1>2 DEF Next

LEMMA SerialInit == Init => SInv
<1> SUFFICES ASSUME Init PROVE SInv
  OBVIOUS
<1>1. DInv
  BY TypeInit DEF Init, DInv, UnderWay, Handed
<1>2. RegistrationsOK(journal)
  BY DEF Init, RegistrationsOK, Registrations
<1>3. QED
  BY <1>1, <1>2 DEF Init, SInv, Knows

\* What a command has read of the journal is still so when it appends.
THEOREM SerialKnowledge ==
  ASSUME OneProcess
  PROVE  Spec => []SInv
<1>1. SInv /\ DInv' /\ [Next]_vars => SInv'
  BY SerialNext
<1>2. QED
  BY <1>1, SerialInit, Durability, PTL DEF Spec

-----------------------------------------------------------------------------
(* The journal implements the ledger *)

LEMMA UsedAfter ==
  ASSUME NEW j \in Seq(JournalRecord), NEW w \in JournalRecord, NEW i
  PROVE  Continuations(Append(j, w), i) =
           IF w.event = "continuation" /\ w.item = i /\ Whole(w)
           THEN Continuations(j, i) + 1 ELSE Continuations(j, i)
<1>1. CASE w.event = "continuation" /\ w.item = i /\ Whole(w)
  BY <1>1, CountOneMore
<1>2. CASE ~(w.event = "continuation" /\ w.item = i /\ Whole(w))
  BY <1>2, AppendRecords DEF Continuations, Whole
<1>3. QED
  BY <1>1, <1>2

LEMMA BlockedAfter ==
  ASSUME NEW j \in Seq(JournalRecord), NEW w \in JournalRecord, NEW i
  PROVE  RecordsOf(Append(j, w), "blocked", i) =
           IF w.event = "blocked" /\ w.item = i /\ Whole(w)
           THEN RecordsOf(j, "blocked", i) \cup {Len(j) + 1}
           ELSE RecordsOf(j, "blocked", i)
  BY AppendRecords DEF Whole

\* The ledger's variables, read from a journal.
UsedIn(j) == [i \in Items |-> Continuations(j, i)]
BlockedIn(j) == {i \in Items : RecordsOf(j, "blocked", i) # {}}

\* One append, one step of the ledger: a grant, a block, a registration, or none.
LEMMA AppendIsLedgerStep ==
  ASSUME SInv, NEW p \in Procs, NEW w \in JournalRecord, Appended(p, w)
  PROVE  [Ledger!Next]_Ledger!vars
<1> DEFINE n == Len(journal) + 1
<1>1. /\ journal \in Seq(JournalRecord) /\ journal' = Append(journal, w)
      /\ RegistrationsOK(journal) /\ Knows(p)
  BY DEF SInv, DInv, TInv, TypeOK, Appended
<1>2. /\ \A i : Continuations(journal', i) =
             IF w.event = "continuation" /\ w.item = i /\ Whole(w)
             THEN Continuations(journal, i) + 1 ELSE Continuations(journal, i)
      /\ \A i : RecordsOf(journal', "blocked", i) =
             IF w.event = "blocked" /\ w.item = i /\ Whole(w)
             THEN RecordsOf(journal, "blocked", i) \cup {n} ELSE RecordsOf(journal, "blocked", i)
      /\ Cardinality(Decided(journal')) =
             IF w.event = "holdout" /\ Whole(w) /\ w.decision
             THEN Cardinality(Decided(journal)) + 1 ELSE Cardinality(Decided(journal))
  BY <1>1, UsedAfter, BlockedAfter, AppendDecided
<1>3. ~(w.event = "holdout" /\ Whole(w)) => LatestHoldout(journal') = LatestHoldout(journal)
  BY <1>1, AppendOther
<1>4. CASE w.event = "continuation" /\ w.item \in Items /\ Whole(w)
  <2>1. /\ call[p].item = w.item /\ call[p].max \in Caps
        /\ Continuations(journal, w.item) < call[p].max
    BY <1>1, <1>4 DEF Appended, Knows
  <2>2. UsedIn(journal') = [UsedIn(journal) EXCEPT ![w.item] = @ + 1]
    BY <1>2, <1>4 DEF UsedIn
  <2>3. BlockedIn(journal') = BlockedIn(journal)
    BY <1>2, <1>4 DEF BlockedIn
  <2>4. /\ LatestHoldout(journal') = LatestHoldout(journal)
        /\ Cardinality(Decided(journal')) = Cardinality(Decided(journal))
    BY <1>2, <1>3, <1>4
  <2>5. \E cap \in Caps : UsedIn(journal)[w.item] < cap
    BY <1>4, <2>1 DEF UsedIn
  <2>6. Ledger!Grant(w.item)
    BY <2>2, <2>3, <2>4, <2>5 DEF Ledger!Grant, UsedIn, BlockedIn, Decided
  <2>7. QED
    BY <1>4, <2>6 DEF Ledger!Next
<1>5. CASE w.event = "blocked" /\ w.item \in Items /\ Whole(w)
  <2>1. /\ call[p].item = w.item /\ call[p].max \in Caps
        /\ Continuations(journal, w.item) >= call[p].max
        /\ RecordsOf(journal, "blocked", w.item) = {}
    BY <1>1, <1>5 DEF Appended, Knows
  <2>2. UsedIn(journal') = UsedIn(journal)
    BY <1>2, <1>5 DEF UsedIn
  <2>3. BlockedIn(journal') = BlockedIn(journal) \cup {w.item} /\ w.item \notin BlockedIn(journal)
    BY <1>2, <1>5, <2>1 DEF BlockedIn
  <2>4. /\ LatestHoldout(journal') = LatestHoldout(journal)
        /\ Cardinality(Decided(journal')) = Cardinality(Decided(journal))
    BY <1>2, <1>3, <1>5
  <2>5. \E cap \in Caps : UsedIn(journal)[w.item] >= cap
    BY <1>5, <2>1 DEF UsedIn
  <2>6. Ledger!Block(w.item)
    BY <2>2, <2>3, <2>4, <2>5 DEF Ledger!Block, UsedIn, BlockedIn, Decided
  <2>7. QED
    BY <1>5, <2>6 DEF Ledger!Next
<1>6. CASE w.event = "holdout" /\ Whole(w)
  <2>1. /\ pc[p] = "journalHoldout" /\ w.reg = <<call[p].dir, call[p].sum>>
        /\ w.decision = (call[p].reg # None)
        /\ call[p].reg = LatestHoldout(journal) /\ call[p].reg # w.reg
    BY <1>1, <1>6 DEF Appended, Knows
  <2>2. w.reg \in Dirs \X Sums
    BY <2>1 DEF SInv, DInv, TInv, ArgumentsOK
  <2>3. w.decision \/ Registrations(journal) = {}
    BY <1>1, <2>1, RegisteredIs
  <2>4. LatestHoldout(journal') = w.reg
    BY <1>1, <1>6, <2>2, <2>3, AppendHoldout
  <2>5. UsedIn(journal') = UsedIn(journal) /\ BlockedIn(journal') = BlockedIn(journal)
    BY <1>2, <1>6 DEF UsedIn, BlockedIn
  <2>6. CASE LatestHoldout(journal) = None
    <3>1. Cardinality(Decided(journal')) = Cardinality(Decided(journal))
      BY <1>2, <2>1, <2>6
    <3>2. Ledger!Register
      BY <2>2, <2>4, <2>5, <2>6, <3>1 DEF Ledger!Register, UsedIn, BlockedIn, Decided
    <3>3. QED
      BY <3>2 DEF Ledger!Next
  <2>7. CASE LatestHoldout(journal) # None
    <3>1. Cardinality(Decided(journal')) = Cardinality(Decided(journal)) + 1
      BY <1>2, <1>6, <2>1, <2>7
    <3>2. LatestHoldout(journal') \in (Dirs \X Sums) \ {LatestHoldout(journal)}
      BY <2>1, <2>2, <2>4
    <3>3. Ledger!Rebaseline
      BY <2>5, <2>7, <3>1, <3>2 DEF Ledger!Rebaseline, UsedIn, BlockedIn, Decided
    <3>4. QED
      BY <3>3 DEF Ledger!Next
  <2>8. QED
    BY <2>6, <2>7
<1>7. CASE /\ ~(w.event \in {"continuation", "blocked"} /\ w.item \in Items /\ Whole(w))
           /\ ~(w.event = "holdout" /\ Whole(w))
  <2>1. UsedIn(journal') = UsedIn(journal)
    BY <1>2, <1>7 DEF UsedIn
  <2>2. BlockedIn(journal') = BlockedIn(journal)
    BY <1>2, <1>7 DEF BlockedIn
  <2>3. /\ LatestHoldout(journal') = LatestHoldout(journal)
        /\ Cardinality(Decided(journal')) = Cardinality(Decided(journal))
    BY <1>2, <1>3, <1>7
  <2>4. QED
    BY <2>1, <2>2, <2>3 DEF Ledger!vars, UsedIn, BlockedIn, Decided
<1>8. QED
  BY <1>4, <1>5, <1>6, <1>7

\* Commands that run one at a time implement the ledger: reading the journal and then
\* appending to it is as good as one atomic step, whatever fails in between.
THEOREM SerialLedger ==
  ASSUME Cardinality(Procs) = 1
  PROVE  Spec => LedgerSpec
<1>0. OneProcess
  BY CardinalityOne
<1>1. Init => Ledger!Init
  <2> SUFFICES ASSUME Init PROVE Ledger!Init
    OBVIOUS
  <2>1. /\ \A e, i : RecordsOf(journal, e, i) = {}
        /\ Registrations(journal) = {}
    BY DEF Init, RecordsOf, Registrations
  <2>2. \A i : Continuations(journal, i) = 0
    BY <2>1, FS_EmptySet DEF Continuations
  <2>3. Cardinality({i \in Registrations(journal) : journal[i].decision}) = 0
    BY <2>1, FS_EmptySet
  <2>4. LatestHoldout(journal) = None
    BY <2>1, NoneRegistered
  <2>5. QED
    BY <2>1, <2>2, <2>3, <2>4 DEF Ledger!Init
<1>2. SInv /\ [Next]_vars => [Ledger!Next]_Ledger!vars
  <2> SUFFICES ASSUME SInv, [Next]_vars PROVE [Ledger!Next]_Ledger!vars
    OBVIOUS
  <2>1. journal' = journal \/ \E p \in Procs, w \in JournalRecord : Appended(p, w)
    BY StepWrites DEF Next, Commit, EditScenarios, vars, files, SInv, DInv
  <2>2. CASE journal' = journal
    BY <2>2 DEF Ledger!vars
  <2>3. QED
    BY <2>1, <2>2, AppendIsLedgerStep
<1>3. QED
  BY <1>0, <1>1, <1>2, SerialKnowledge, PTL DEF Spec, LedgerSpec, Ledger!Spec

-----------------------------------------------------------------------------
(* What the serial commands preserve *)

\* A set of scenarios replaces another only with a decision.
THEOREM SerialRebaseline ==
  ASSUME Cardinality(Procs) = 1
  PROVE  Spec => []RebaselineReasoned
<1>1. SInv => RebaselineReasoned
  BY DEF SInv, RegistrationsOK, RebaselineReasoned
<1>2. QED
  BY <1>1, CardinalityOne, SerialKnowledge, PTL

\* A blocked item has used up the cap, which all calls share.
BInv ==
    /\ BlockedIsFinal
    /\ \A i \in Items, cap \in Caps :
         RecordsOf(journal, "blocked", i) # {} => Continuations(journal, i) >= cap

LEMMA AppendBlocked ==
  ASSUME \A c, d \in Caps : c = d, SInv, BInv,
         NEW p \in Procs, NEW w \in JournalRecord, Appended(p, w)
  PROVE  BInv'
<1> DEFINE n == Len(journal) + 1
<1>1. /\ journal \in Seq(JournalRecord) /\ journal' = Append(journal, w) /\ Knows(p)
      /\ Len(journal) \in Nat
  BY DEF SInv, DInv, TInv, TypeOK, Appended
<1>2. \A e, i : /\ RecordsOf(journal', e, i) =
                     IF w.event = e /\ w.item = i /\ Whole(w)
                     THEN RecordsOf(journal, e, i) \cup {n} ELSE RecordsOf(journal, e, i)
                /\ RecordsOf(journal, e, i) \subseteq 1..Len(journal)
  BY <1>1, AppendRecords, RecordsFinite DEF Whole
<1>3. \A i : /\ Continuations(journal, i) \in Nat
             /\ Continuations(journal', i) =
                  IF w.event = "continuation" /\ w.item = i /\ Whole(w)
                  THEN Continuations(journal, i) + 1 ELSE Continuations(journal, i)
  BY <1>1, UsedAfter, RecordsFinite
<1>4. \A cap \in Caps : cap \in Nat
  BY CapsAssumption
<1>5. ASSUME NEW i \in Items
      PROVE  /\ \A b \in RecordsOf(journal', "blocked", i) :
                  /\ \A c \in RecordsOf(journal', "continuation", i) : c < b
                  /\ RecordsOf(journal', "blocked", i) = {b}
             /\ \A cap \in Caps :
                  RecordsOf(journal', "blocked", i) # {} => Continuations(journal', i) >= cap
  <2>1. CASE w.event = "blocked" /\ w.item = i /\ Whole(w)
    <3>1. /\ call[p].item = i /\ call[p].max \in Caps
          /\ Continuations(journal, i) >= call[p].max
          /\ RecordsOf(journal, "blocked", i) = {}
      BY <1>1, <1>5, <2>1 DEF Appended, Knows
    <3>2. /\ RecordsOf(journal', "blocked", i) = {n}
          /\ RecordsOf(journal', "continuation", i) \subseteq 1..Len(journal)
      BY <1>2, <2>1, <3>1
    <3>3. \A c \in 1..Len(journal) : c < n
      BY <1>1
    <3>4. \A cap \in Caps : Continuations(journal', i) >= cap
      BY <1>3, <2>1, <3>1
    <3>5. QED
      BY <3>2, <3>3, <3>4
  <2>2. CASE w.event = "continuation" /\ w.item = i /\ Whole(w)
    <3>1. /\ call[p].item = i /\ call[p].max \in Caps
          /\ Continuations(journal, i) < call[p].max
      BY <1>1, <1>5, <2>2 DEF Appended, Knows
    <3>2. ~(Continuations(journal, i) >= call[p].max)
      BY <1>3, <1>4, <3>1
    <3>3. RecordsOf(journal, "blocked", i) = {}
      BY <1>5, <3>1, <3>2 DEF BInv
    <3>4. RecordsOf(journal', "blocked", i) = {}
      BY <1>2, <2>2, <3>3
    <3>5. QED
      BY <3>4
  <2>3. CASE ~(w.event \in {"blocked", "continuation"} /\ w.item = i /\ Whole(w))
    <3>1. /\ RecordsOf(journal', "blocked", i) = RecordsOf(journal, "blocked", i)
          /\ RecordsOf(journal', "continuation", i) = RecordsOf(journal, "continuation", i)
          /\ Continuations(journal', i) = Continuations(journal, i)
      BY <1>2, <1>3, <2>3
    <3>2. QED
      BY <1>5, <3>1 DEF BInv, BlockedIsFinal
  <2>4. QED
    BY <2>1, <2>2, <2>3
<1>6. QED
  BY <1>5 DEF BInv, BlockedIsFinal

\* With one cap for all calls an item is blocked once, and no continuation of it is
\* granted from then on.
THEOREM SerialBlocked ==
  ASSUME Cardinality(Procs) = 1, \A c, d \in Caps : c = d
  PROVE  Spec => []BlockedIsFinal
<1>0. OneProcess
  BY CardinalityOne
<1>1. Init => BInv
  BY DEF Init, BInv, BlockedIsFinal, RecordsOf
<1>2. SInv /\ BInv /\ [Next]_vars => BInv'
  <2> SUFFICES ASSUME SInv, BInv, [Next]_vars PROVE BInv'
    OBVIOUS
  <2>1. journal' = journal \/ \E p \in Procs, w \in JournalRecord : Appended(p, w)
    BY StepWrites DEF Next, Commit, EditScenarios, vars, files, SInv, DInv
  <2>2. CASE journal' = journal
    BY <2>2 DEF BInv, BlockedIsFinal
  <2>3. QED
    BY <2>1, <2>2, AppendBlocked
<1>3. BInv => BlockedIsFinal
  BY DEF BInv
<1>4. QED
  BY <1>0, <1>1, <1>2, <1>3, SerialKnowledge, PTL DEF Spec

\* A command that answers from the journal has read a whole one; a resume that
\* answers "match" has compared both the commit and the scenarios.
LEMMA StepReports ==
  ASSUME SInv, NEW p \in Procs, Step(p), NEW a \in answered' \ answered
  PROVE  /\ a.id = call[p].id /\ a.cmd = call[p].cmd
         /\ a.cmd \in {"init", "checkpoint", "journal"} \/ Readable(journal)
         /\ a.cmd = "resume" /\ a.result = "match" =>
              /\ checkpoint.head = call[p].head
              /\ \/ LatestHoldout(journal) = None
                 \/ scenarios[LatestHoldout(journal)[1]] = LatestHoldout(journal)[2]
<1> USE DEF SInv, DInv, TInv
<1>1. Knows(p) /\ UnderWay(p)
  OBVIOUS
<1>2. ASSUME NEW r, Report(p, r)
      PROVE  a.id = call[p].id /\ a.cmd = call[p].cmd /\ a.result = r
  BY <1>2 DEF Report
<1>3. ASSUME NEW rec, NEW r, AppendJournal(p, rec, r)
      PROVE  a.id = call[p].id /\ a.cmd = call[p].cmd
  BY <1>2, <1>3 DEF AppendJournal, Fail
<1>4. CASE JournalInit(p) \/ JournalCheckpoint(p) \/ JournalNote(p)
  BY <1>1, <1>3, <1>4 DEF JournalInit, JournalCheckpoint, JournalNote, UnderWay
<1>5. CASE JournalContinuation(p) \/ JournalBlocked(p) \/ JournalHoldout(p)
  BY <1>1, <1>3, <1>5 DEF JournalContinuation, JournalBlocked, JournalHoldout, UnderWay, Knows
<1>6. CASE ResumeJournal(p)
  <2>1. /\ LatestHoldout(journal) = None /\ Readable(journal)
        /\ Report(p, IF call[p].match THEN "match" ELSE "mismatch")
    BY <1>6 DEF ResumeJournal, Fail
  <2>2. a.result = "match" => call[p].match
    BY <1>2, <2>1
  <2>3. QED
    BY <1>1, <1>2, <1>6, <2>1, <2>2 DEF ResumeJournal, Knows
<1>7. CASE HashRegistered(p)
  <2>1. Report(p, IF call[p].match /\ scenarios[call[p].reg[1]] = call[p].reg[2]
                  THEN "match" ELSE "mismatch")
    BY <1>7 DEF HashRegistered
  <2>2. a.result = "match" => call[p].match /\ scenarios[call[p].reg[1]] = call[p].reg[2]
    BY <1>2, <2>1
  <2>3. QED
    BY <1>1, <1>2, <1>7, <2>1, <2>2 DEF HashRegistered, Knows
<1>8. CASE CountContinuations(p) \/ ReadRegistration(p)
  <2>1. Readable(journal) /\ \E r : Report(p, r)
    BY <1>8 DEF CountContinuations, ReadRegistration, Fail
  <2>2. call[p].cmd # "resume"
    BY <1>1, <1>8 DEF CountContinuations, ReadRegistration, UnderWay
  <2>3. QED
    BY <1>2, <2>1, <2>2
<1>9. CASE Start(p) \/ Abort(p) \/ \E step : NoRun(p, step)
  BY <1>9 DEF Start, Invoke, Abort, NoRun, Fail
<1>10. CASE \/ LookRun(p) \/ CheckIgnore(p) \/ ReadExclude(p) \/ AppendExclude(p)
            \/ TearExclude(p) \/ LookParents(p) \/ MakeParents(p) \/ MakeRun(p)
            \/ WriteCharter(p)
  BY <1>10 DEF LookRun, CheckIgnore, ReadExclude, AppendExclude, TearExclude, LookParents,
       MakeParents, MakeRun, WriteCharter, Fail
<1>11. CASE \/ ReplaceCheckpoint(p) \/ ReplaceHandoff(p) \/ ParseCheckpoint(p)
            \/ HashScenarios(p)
  BY <1>11 DEF ReplaceCheckpoint, ReplaceHandoff, ParseCheckpoint, HashScenarios, Fail
<1>12. QED
  BY <1>4, <1>5, <1>6, <1>7, <1>8, <1>9, <1>10, <1>11 DEF Step

LEMMA QuietWorld ==
  ASSUME Commit \/ EditScenarios \/ UNCHANGED vars
  PROVE  answered' = answered
  BY DEF Commit, EditScenarios, vars

\* Once a line of the journal was cut, no continuation, registration or resume
\* succeeds: what was cut off is never granted a second time.
THEOREM SerialTorn ==
  ASSUME Cardinality(Procs) = 1
  PROVE  Spec => TornJournalGrantsNothing
<1>0. OneProcess
  BY CardinalityOne
<1>1. SInv /\ [Next]_vars =>
        ((\E i \in DOMAIN journal : journal[i].cut = "part") =>
           \A a \in answered' \ answered : a.cmd \in {"init", "checkpoint", "journal"})
  <2> SUFFICES ASSUME SInv, [Next]_vars,
                      NEW i \in DOMAIN journal, journal[i].cut = "part",
                      NEW a \in answered' \ answered
               PROVE  a.cmd \in {"init", "checkpoint", "journal"}
    OBVIOUS
  <2>1. ~Readable(journal)
    BY DEF Readable
  <2>2. QED
    BY <2>1, StepReports, QuietWorld DEF Next
<1>2. QED
  BY <1>0, <1>1, SerialKnowledge, PTL DEF Spec, TornJournalGrantsNothing

\* A resume answers "match" only for the commit of the checkpoint in place and the
\* scenarios of the last registration.
THEOREM SerialResume ==
  ASSUME Cardinality(Procs) = 1
  PROVE  Spec => ResumeMatchIsCurrent
<1>0. OneProcess
  BY CardinalityOne
<1> DEFINE Current ==
      \A p \in Procs :
        (\E a \in answered' \ answered :
           a.id = call[p].id /\ a.cmd = "resume" /\ a.result = "match") =>
          /\ checkpoint.head = call[p].head
          /\ \A i \in Registrations(journal) :
               (\A k \in Registrations(journal) : k <= i) =>
                 scenarios[journal[i].reg[1]] = journal[i].reg[2]
<1>1. SInv /\ [Next]_vars => Current
  <2> SUFFICES ASSUME SInv, [Next]_vars, NEW p \in Procs,
                      NEW a \in answered' \ answered, a.cmd = "resume", a.result = "match"
               PROVE  /\ checkpoint.head = call[p].head
                      /\ \A i \in Registrations(journal) :
                           (\A k \in Registrations(journal) : k <= i) =>
                             scenarios[journal[i].reg[1]] = journal[i].reg[2]
    OBVIOUS
  <2>1. Step(p)
    BY <1>0, QuietWorld DEF Next, OneProcess
  <2>2. /\ checkpoint.head = call[p].head
        /\ \/ LatestHoldout(journal) = None
           \/ scenarios[LatestHoldout(journal)[1]] = LatestHoldout(journal)[2]
    BY <2>1, StepReports
  <2>3. ASSUME NEW i \in Registrations(journal), \A k \in Registrations(journal) : k <= i
        PROVE  scenarios[journal[i].reg[1]] = journal[i].reg[2]
    <3>1. journal \in Seq(JournalRecord) /\ RegistrationsOK(journal)
      BY DEF SInv, DInv, TInv, TypeOK
    <3>2. LatestHoldout(journal) = journal[i].reg
      BY <2>3, <3>1, LatestIs DEF IsLatest
    <3>3. LatestHoldout(journal) # None
      BY <2>3, <3>1, RegisteredIs
    <3>4. QED
      BY <2>2, <3>2, <3>3
  <2>4. QED
    BY <2>2, <2>3
<1>2. QED
  BY <1>0, <1>1, SerialKnowledge, PTL DEF Spec, ResumeMatchIsCurrent

\* An init that runs alone finds info/exclude as it left it.
Alone(p) ==
    /\ pc[p] \in {"checkIgnore", "readExclude", "appendExclude", "lookParents", "makeParents",
                  "makeRun"} => ~runDir
    /\ pc[p] = "appendExclude" => call[p].pad = (exclude.tail # "closed")
    /\ pc[p] \in {"lookParents", "makeParents", "makeRun"} => Ignored

AInv == (runDir => Ignored) /\ \A p \in Procs : Alone(p)

LEMMA StepAlone ==
  ASSUME TInv, AInv, NEW p \in Procs, Step(p)
  PROVE  (runDir' => Ignored') /\ Alone(p)'
<1> USE DEF AInv, TInv
<1> DEFINE Good == (runDir' => Ignored') /\ Alone(p)'
           Excluding == {"checkIgnore", "readExclude", "appendExclude", "lookParents",
                         "makeParents", "makeRun"}
<1>1. /\ pc \in [Procs -> Steps] /\ call \in [Procs -> Call] /\ call[p] \in Call
      /\ runDir \in BOOLEAN /\ Alone(p)
  BY DEF TypeOK
<1>2. ASSUME UNCHANGED <<exclude, runDir>>, pc'[p] \notin Excluding
      PROVE  Good
  BY <1>2 DEF Alone, Ignored
<1>3. ASSUME Fail(p) \/ \E r : Report(p, r), UNCHANGED <<exclude, runDir>>
      PROVE  Good
  BY <1>1, <1>2, <1>3 DEF Fail, Report, Exit, Go
<1>4. CASE Start(p)
  <2>1. ASSUME NEW cmd, NEW arguments, NEW step, step \notin Excluding,
               Invoke(p, cmd, arguments, step)
        PROVE  Good
    BY <1>1, <1>2, <2>1 DEF Invoke, files
  <2>2. QED
    BY <1>4, <2>1 DEF Start
<1>5. CASE Abort(p) \/ \E step : NoRun(p, step)
  BY <1>3, <1>5 DEF Abort, NoRun, files
<1>6. CASE LookRun(p)
  BY <1>1, <1>3, <1>6 DEF LookRun, Alone, Go, files
<1>7. CASE CheckIgnore(p)
  BY <1>1, <1>7 DEF CheckIgnore, Alone, Ignored, Go, files
<1>8. CASE ReadExclude(p)
  <2>1. call'[p].pad = (exclude.tail # "closed")
    BY <1>1, <1>8 DEF ReadExclude, Call
  <2>2. QED
    BY <1>1, <1>8, <2>1 DEF ReadExclude, Alone, Go, files
<1>9. CASE AppendExclude(p)
  <2>1. ~Glued(p)
    BY <1>1, <1>9 DEF AppendExclude, Alone, Glued
  <2>2. exclude' = [listed |-> TRUE, tail |-> "closed"]
    BY <1>9, <2>1 DEF AppendExclude
  <2>3. QED
    BY <1>1, <1>9, <2>2 DEF AppendExclude, Alone, Ignored, Go
<1>10. CASE TearExclude(p)
  <2>1. runDir' = runDir /\ ~runDir /\ pc'[p] = "idle"
    BY <1>1, <1>10 DEF TearExclude, Alone, Fail, Exit, Go
  <2>2. QED
    BY <2>1 DEF Alone
<1>11. CASE LookParents(p) \/ MakeParents(p)
  BY <1>1, <1>3, <1>11 DEF LookParents, MakeParents, Alone, Ignored, Go, files
<1>12. CASE MakeRun(p)
  <2>1. Ignored /\ exclude' = exclude /\ pc'[p] \in {"idle", "writeCharter"}
    BY <1>1, <1>12 DEF MakeRun, Alone, Fail, Exit, Go
  <2>2. QED
    BY <2>1 DEF Alone, Ignored
<1>13. CASE WriteCharter(p)
  BY <1>1, <1>2, <1>3, <1>13 DEF WriteCharter, Fail, Go
<1>14. CASE \/ JournalInit(p) \/ JournalCheckpoint(p) \/ JournalNote(p)
            \/ JournalContinuation(p) \/ JournalBlocked(p) \/ JournalHoldout(p)
  BY <1>3, <1>14 DEF JournalInit, JournalCheckpoint, JournalNote, JournalContinuation,
     JournalBlocked, JournalHoldout, AppendJournal, JournalOnly
<1>15. CASE ReplaceCheckpoint(p) \/ ReplaceHandoff(p)
  BY <1>1, <1>2, <1>15 DEF ReplaceCheckpoint, ReplaceHandoff, Go
<1>16. CASE \/ ParseCheckpoint(p) \/ ResumeJournal(p) \/ HashRegistered(p)
            \/ CountContinuations(p) \/ HashScenarios(p) \/ ReadRegistration(p)
  BY <1>1, <1>2, <1>3, <1>16 DEF ParseCheckpoint, ResumeJournal, HashRegistered,
     CountContinuations, HashScenarios, ReadRegistration, Go, files
<1>17. QED
  BY <1>4, <1>5, <1>6, <1>7, <1>8, <1>9, <1>10, <1>11, <1>12, <1>13, <1>14, <1>15, <1>16
     DEF Step

\* A run directory is never there before git ignores it, also when an append to
\* info/exclude is cut short, if commands run one at a time.
THEOREM SerialExcluded ==
  ASSUME Cardinality(Procs) = 1
  PROVE  Spec => []ExcludedBeforeCreated
<1>0. OneProcess
  BY CardinalityOne
<1>1. Init => AInv
  BY DEF Init, AInv, Alone
<1>2. TInv /\ AInv /\ [Next]_vars => AInv'
  <2> SUFFICES ASSUME TInv, AInv, [Next]_vars PROVE AInv'
    OBVIOUS
  <2>1. ASSUME NEW p \in Procs, Step(p)
        PROVE  AInv'
    BY <1>0, <2>1, StepAlone DEF AInv, OneProcess
  <2>2. CASE Commit \/ EditScenarios \/ UNCHANGED vars
    BY <2>2 DEF Commit, EditScenarios, vars, files, AInv, Alone, Ignored
  <2>3. QED
    BY <2>1, <2>2 DEF Next
<1>3. AInv => ExcludedBeforeCreated
  BY DEF AInv, ExcludedBeforeCreated
<1>4. QED
  BY <1>0, <1>1, <1>2, <1>3, Invariance, PTL DEF Spec
=============================================================================
