---------------------------- MODULE StudyAcceptance ----------------------------
(***************************************************************************)
(* The schedule of an installed A/B study and what its manifest says of    *)
(* the rows so far: scheduledArms, executeStudy and assessStudyAcceptance  *)
(* of evals/studies/installed-ab/run.go.                                   *)
(*                                                                         *)
(* The manifest is assessed again and published after every arm.  A failed *)
(* arm ends the run; --resume drops its row and goes on with its arm.      *)
(* StudyResume has what is on disk between the two.                        *)
(***************************************************************************)
EXTENDS Integers, Sequences, FiniteSets, SequencesExt

CONSTANTS
    Catalog,     \* the cases, in the order of the catalog
    ReportOnly,  \* the ones whose rows say report_only
    Skilled,     \* the ones with a skill contract
    PairedRuns,  \* --paired-runs
    Minimum      \* gates.Acceptance.MinimumPairedRuns

ASSUME AcceptanceConstants ==
    /\ Catalog \in Seq(ToSet(Catalog))
    /\ \A i, j \in DOMAIN Catalog : Catalog[i] = Catalog[j] => i = j
    /\ PairedRuns \in Nat \ {0} /\ Minimum \in Nat

VARIABLES
    rows,       \* the rows so far
    failed,     \* the last one is a harness error, and the run ended with it
    published,  \* manifest.Acceptance.Accepted as last published
    over        \* the schedule is done

acceptanceVars == <<rows, failed, published, over>>

Other(arm) == IF arm = "treatment" THEN "control" ELSE "treatment"

\* scheduledArms: the arm that goes first alternates over the repetitions of a case, and
\* over the cases.
\* Mutant: it alternates over the cases alone.
FirstOfCase(i, repetition) == IF i % 2 = 1 THEN "treatment" ELSE "control"

FirstArm(i, repetition) ==
    IF (i - 1 + repetition) % 2 = 1 THEN "control" ELSE "treatment"

Slot(n) ==
    LET block == (n - 1) \div 2
        i == (block \div PairedRuns) + 1
        repetition == (block % PairedRuns) + 1
        first == FirstArm(i, repetition) IN
      [case |-> Catalog[i], repetition |-> repetition,
       arm |-> IF n % 2 = 1 THEN first ELSE Other(first)]

Slots == 2 * PairedRuns * Len(Catalog)

-----------------------------------------------------------------------------
(* assessStudyAcceptance *)

Counted(all, case, arm) ==
    {i \in DOMAIN all :
       /\ all[i].case = case /\ all[i].arm = arm
       /\ all[i].completed
       /\ case \notin ReportOnly}

\* Mutant: accepted by its outcomes alone.
CaseOutcomes(all, case) ==
    LET treatment == Counted(all, case, "treatment")
        control == Counted(all, case, "control") IN
      /\ Cardinality(treatment) = Cardinality(control)
      /\ Cardinality(control) >= Minimum
      /\ \A i \in treatment : all[i].outcome

CaseAccepted(all, case) ==
    LET treatment == Counted(all, case, "treatment")
        control == Counted(all, case, "control")
        skilled == {i \in treatment : case \in Skilled} IN
      /\ Cardinality(treatment) = Cardinality(control)
      /\ Cardinality(control) >= Minimum
      /\ \A i \in treatment : all[i].outcome
      /\ \A i \in skilled : all[i].activation

\* The cases with a row that counts.
Assessed(all) ==
    {case \in ToSet(Catalog) : \E arm \in {"treatment", "control"} : Counted(all, case, arm) # {}}

Accepted(all) == Assessed(all) # {} /\ \A case \in Assessed(all) : CaseAccepted(all, case)

-----------------------------------------------------------------------------
(* executeStudy *)

Row ==
    [case : ToSet(Catalog), repetition : 1..PairedRuns, arm : {"treatment", "control"},
     completed : BOOLEAN, outcome : BOOLEAN, activation : BOOLEAN]

AcceptanceInit ==
    /\ rows = << >>
    /\ failed = FALSE
    /\ published = FALSE
    /\ over = FALSE

Publish(all) == rows' = all /\ published' = Accepted(all)

RunArm ==
    /\ ~over /\ ~failed
    /\ Len(rows) < Slots
    /\ LET slot == Slot(Len(rows) + 1) IN
         \E outcome, activation \in BOOLEAN :
           /\ activation \/ (slot.case \in Skilled /\ slot.arm = "treatment")
           /\ Publish(Append(rows, [case |-> slot.case, repetition |-> slot.repetition,
                                    arm |-> slot.arm, completed |-> TRUE,
                                    outcome |-> outcome, activation |-> activation]))
    /\ UNCHANGED <<failed, over>>

FailArm ==
    /\ ~over /\ ~failed
    /\ Len(rows) < Slots
    /\ LET slot == Slot(Len(rows) + 1) IN
         Publish(Append(rows, [case |-> slot.case, repetition |-> slot.repetition,
                               arm |-> slot.arm, completed |-> FALSE,
                               outcome |-> FALSE, activation |-> FALSE]))
    /\ failed' = TRUE
    /\ UNCHANGED over

\* Mutant: the failed arm is not run again.
ResumePast ==
    /\ failed
    /\ failed' = FALSE
    /\ published' = Accepted(rows)
    /\ UNCHANGED <<rows, over>>

Resume ==
    /\ failed
    /\ failed' = FALSE
    /\ Publish(Front(rows))
    /\ UNCHANGED over

Finish ==
    /\ ~over /\ ~failed
    /\ Len(rows) = Slots
    /\ over' = TRUE
    /\ published' = Accepted(rows)
    /\ UNCHANGED <<rows, failed>>

AcceptanceNext == RunArm \/ FailArm \/ Resume \/ Finish

AcceptanceSpec == AcceptanceInit /\ [][AcceptanceNext]_acceptanceVars

-----------------------------------------------------------------------------
(* Properties *)

\* Every variable stays in its set, and a failed row is the last of a run that failed.
AcceptanceTypeOK ==
    /\ rows \in Seq(Row)
    /\ Len(rows) <= Slots
    /\ published \in BOOLEAN
    /\ over \in BOOLEAN
    /\ failed \in BOOLEAN
    /\ \A i \in DOMAIN rows : ~rows[i].completed <=> failed /\ i = Len(rows)

Blocks(case, first) ==
    {r \in 1..PairedRuns :
       \E i \in DOMAIN rows :
         /\ rows[i].case = case /\ rows[i].repetition = r /\ rows[i].arm = first
         /\ \A j \in 1..i - 1 : rows[j].case = case => rows[j].repetition # r}

\* In no case, and at no point of the study, does one arm go first twice more often than
\* the other (scheduledArms).
NeitherArmGoesFirst ==
    \A case \in ToSet(Catalog) :
      Cardinality(Blocks(case, "treatment")) - Cardinality(Blocks(case, "control"))
        \in {-1, 0, 1}

\* A finished study is accepted exactly if every case that is not report-only was
\* completed by both arms as often as the gates ask, each time with a treatment outcome
\* that passes and, where a skill contract binds it, an activation that does: however
\* many arms failed and were resumed.
FinishedAcceptanceIsWhole ==
    over => (published <=>
      /\ ToSet(Catalog) \ ReportOnly # {}
      /\ \A case \in ToSet(Catalog) \ ReportOnly :
           LET blocks(arm) == {rows[i].repetition :
                                 i \in {k \in DOMAIN rows : rows[k].case = case
                                                              /\ rows[k].arm = arm
                                                              /\ rows[k].completed}} IN
             /\ blocks("treatment") = blocks("control")
             /\ Cardinality(blocks("treatment")) >= Minimum
             /\ \A i \in DOMAIN rows :
                  rows[i].case = case /\ rows[i].arm = "treatment" =>
                    rows[i].outcome /\ (case \in Skilled => rows[i].activation))
==============================================================================
