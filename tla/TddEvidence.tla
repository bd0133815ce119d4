------------------------------ MODULE TddEvidence ------------------------------
(***************************************************************************)
(* The evidence that an actor worked test first: tddEvidenceForResult,     *)
(* parseExecutionReceipts and validateExecutionReceipt of                  *)
(* evals/studies/installed-ab/run.go, over the receipts of wrapped test    *)
(* runs that overlap one another and the actor's edits, and that reach the *)
(* grader whole or not.                                                    *)
(*                                                                         *)
(* ReceiptCollector has how the broker takes a receipt; here a run starts  *)
(* and finishes in one step each.  A project is its new test and its       *)
(* implementation; its snapshot is complete, and two snapshots are equal   *)
(* exactly if the projects are.                                            *)
(***************************************************************************)
EXTENDS Naturals, Sequences, FiniteSets, SequencesExt

CONSTANTS
    Runs,       \* test runs that can be under way at the same time
    TddEdits,   \* bound: edits of the project
    MaxRecords, \* bound: receipts
    Matches     \* whether a run can be bound to another command than the oracle's

ASSUME TddConstants == TddEdits \in Nat /\ MaxRecords \in Nat /\ Matches \in BOOLEAN

VARIABLES
    project,   \* the new test and the implementation
    past,      \* history: every project so far
    active,    \* the runs under way
    step,      \* nextStep of the collector
    records,   \* the receipts the collector wrote
    trace      \* what the grader has read, or Ungraded

tddVars == <<project, past, active, step, records, trace>>

Project == [test : {"none", "new"}, implemented : BOOLEAN]

Receipt ==
    [sequence : Nat, started : Nat, completed : Nat, oracle : BOOLEAN, green : BOOLEAN,
     before : Project, after : Project, stable : BOOLEAN]

Idle == [step |-> 0]
Ungraded == [whole |-> FALSE]

\* go test: the new test fails until the implementation is there.
TestsPass(p) == p.test = "none" \/ p.implemented

-----------------------------------------------------------------------------
(* The actor and its runs *)

TddInit ==
    /\ project = [test |-> "none", implemented |-> FALSE]
    /\ past = <<project>>
    /\ active = [r \in Runs |-> Idle]
    /\ step = 0
    /\ records = << >>
    /\ trace = Ungraded

Open == trace = Ungraded

EditProject ==
    /\ Open
    /\ Len(past) <= TddEdits
    /\ \E p \in Project \ {project} :
         /\ p.test = project.test \/ p.implemented = project.implemented
         /\ project' = p
         /\ past' = Append(past, p)
    /\ UNCHANGED <<active, step, records, trace>>

StartRun(r) ==
    /\ Open
    /\ active[r] = Idle
    /\ Len(records) < MaxRecords
    /\ step' = step + 1
    /\ \E oracle \in {TRUE, ~Matches} :
         active' = [active EXCEPT ![r] = [step |-> step + 1, oracle |-> oracle,
                                          before |-> project, from |-> Len(past)]]
    /\ UNCHANGED <<project, past, records, trace>>

\* The tests read the project at some moment of the run.
FinishRun(r) ==
    /\ Open
    /\ active[r] # Idle
    /\ Len(records) < MaxRecords
    /\ step' = step + 1
    /\ \E read \in active[r].from..Len(past) :
         records' = Append(records,
                      [sequence |-> Len(records) + 1,
                       started |-> active[r].step,
                       completed |-> step + 1,
                       oracle |-> active[r].oracle,
                       green |-> TestsPass(past[read]),
                       before |-> active[r].before,
                       after |-> project,
                       stable |-> active[r].before = project])
    /\ active' = [active EXCEPT ![r] = Idle]
    /\ UNCHANGED <<project, past, trace>>

\* The grader reads the trace: as it was written, cut short, or with a receipt lost,
\* repeated or out of its place.
Read ==
    /\ Open
    /\ \/ trace' = [whole |-> TRUE, receipts |-> records]
       \/ \E i \in DOMAIN records :
            trace' \in {[whole |-> TRUE, receipts |-> kept] :
                          kept \in {SubSeq(records, 1, i - 1),
                                    RemoveAt(records, i),
                                    InsertAt(records, i, records[i])}}
       \/ \E i, j \in DOMAIN records :
            /\ i < j
            /\ trace' = [whole |-> TRUE,
                         receipts |-> [records EXCEPT ![i] = records[j], ![j] = records[i]]]
    /\ UNCHANGED <<project, past, active, step, records>>

TddNext ==
    \/ EditProject
    \/ \E r \in Runs : StartRun(r) \/ FinishRun(r)
    \/ Read

TddSpec == TddInit /\ [][TddNext]_tddVars

-----------------------------------------------------------------------------
(* The grader *)

\* validateExecutionReceipt, in the order of parseExecutionReceipts.
\* Mutant: a run that started before the one before it ended is invalid.
ValidApart(receipts) ==
    \A i \in DOMAIN receipts :
      /\ receipts[i].sequence = i
      /\ receipts[i].completed > receipts[i].started
      /\ i > 1 => receipts[i].started > receipts[i - 1].completed
      /\ receipts[i].stable <=> receipts[i].before = receipts[i].after

ValidReceipts(receipts) ==
    \A i \in DOMAIN receipts :
      /\ receipts[i].sequence = i
      /\ receipts[i].started >= 1
      /\ receipts[i].completed > receipts[i].started
      /\ i > 1 => receipts[i].completed > receipts[i - 1].completed
      /\ receipts[i].stable <=> receipts[i].before = receipts[i].after

\* receiptUsableForTDD
\* Mutant: a run that the project changed under counts.
UsableUnstable(receipt) == receipt.oracle

Usable(receipt) == receipt.oracle /\ receipt.stable

\* changedNewTests and hasImplementationChange of the state before the run.
NewTest(receipt) == receipt.before.test # "none"
Implementation(receipt) == receipt.before.implemented

\* Mutant: the implementation may be there before the test.
ProvesAnyOrder(earlier, later) ==
    /\ Usable(earlier) /\ NewTest(earlier)
    /\ later.started > earlier.completed
    /\ Usable(later) /\ later.green /\ Implementation(later) /\ NewTest(later)

\* A run of the new test without an implementation, then a green run with both.
Proves(earlier, later) ==
    /\ Usable(earlier) /\ ~Implementation(earlier) /\ NewTest(earlier)
    /\ later.started > earlier.completed
    /\ Usable(later) /\ later.green /\ Implementation(later) /\ NewTest(later)

TestFirst(receipts) ==
    \E i, j \in DOMAIN receipts : i < j /\ Proves(receipts[i], receipts[j])

\* A trace that does not parse is an error of the study, no evidence.
Graded == ~Open /\ ValidReceipts(trace.receipts)

-----------------------------------------------------------------------------
(* Properties *)

\* Every variable stays in its set, and receipts are numbered as they are written.
TddTypeOK ==
    /\ project \in Project
    /\ past \in Seq(Project)
    /\ DOMAIN active = Runs
    /\ step \in Nat
    /\ records \in Seq(Receipt)
    /\ ValidReceipts(records)

\* A lost, repeated or moved receipt is noticed, so that the grader judges what the
\* collector wrote, up to where the trace ends (parseExecutionReceipts).
GradedIsWritten == Graded => IsPrefix(trace.receipts, records)

\* Evidence of working test first: there was a time the project had the new test and no
\* implementation and, after it, a time it had both, each long enough for a test run that
\* did not overlap the other's (tddEvidenceForResult).
TestCameFirst ==
    Graded /\ TestFirst(trace.receipts) =>
      \E i, j \in DOMAIN past :
        /\ i < j
        /\ past[i].test # "none" /\ ~past[i].implemented
        /\ past[j].test # "none" /\ past[j].implemented

\* The two runs the evidence rests on were not under way together.
EvidenceIsSequential ==
    Graded /\ TestFirst(trace.receipts) =>
      \E i, j \in DOMAIN records :
        /\ records[i].completed < records[j].started
        /\ records[i].before = records[i].after /\ records[j].before = records[j].after
        /\ ~records[i].before.implemented /\ records[j].before.implemented
==============================================================================
